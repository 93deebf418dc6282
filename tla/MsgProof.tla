------------------------------ MODULE MsgProof ------------------------------
(***************************************************************************)
(* Proofs about Msg: the inductive invariant IInv, the six invariants that *)
(* follow from it, and that Msg implements MsgQueue.                       *)
(*                                                                         *)
(* Most runs of a process settle a call on one queue whose lock is free:   *)
(* they change that queue, the pool and the process, and wake channels     *)
(* (Settles).  SettledInvariant says what such a run must do to keep IInv; *)
(* each action then shows that it does.  Before that: what the operators   *)
(* of Msg do to the list of a queue, to its bytes and to the map of        *)
(* segments, for any messages, sizes and maps.                             *)
(***************************************************************************)
EXTENDS Msg, SequenceTheorems, FiniteSetTheorems, WellFoundedInduction, TLAPS

-----------------------------------------------------------------------------
(* Numbers.                                                                *)

\* The least of some numbers is one of them.
LEMMA LeastNumber ==
    ASSUME NEW I, I \subseteq Nat, I # {}
    PROVE  Min(I) \in I /\ \A k \in I : Min(I) <= k
<1> DEFINE R == OpToRel(<, Nat)
<1>1. IsWellFoundedOn(R, Nat)
  BY NatLessThanWellFounded
<1>2. PICK j \in I : \A k \in I : ~(<<k, j>> \in R)
  BY <1>1, WFMin
<1>3. \A k \in I : ~(k < j)
  BY <1>2 DEF OpToRel
<1>4. \A k \in I : j <= k
  BY <1>3
<1> QED BY <1>4 DEF Min

\* The greatest of some numbers up to n is one of them.
LEMMA GreatestNumber ==
    ASSUME NEW n \in Nat, NEW I, I \subseteq 0 .. n, I # {}
    PROVE  Max(I) \in I /\ \A k \in I : k <= Max(I)
<1> DEFINE J == {d \in Nat : n - d \in I}
<1>1. PICK i \in I : TRUE
  OBVIOUS
<1>2. i \in 0 .. n
  OBVIOUS
<1>3. n - i \in Nat /\ n - (n - i) = i
  BY <1>2
<1>4. n - i \in J
  BY <1>3
<1>5. PICK d \in J : \A e \in J : d <= e
  <2> HIDE DEF J
  <2>1. J \subseteq Nat /\ J # {}
    BY <1>4 DEF J
  <2> QED BY <2>1, LeastNumber
<1>6. d \in Nat /\ n - d \in I
  OBVIOUS
<1>7. ASSUME NEW k \in I
      PROVE  n - d >= k
  <2>1. k \in 0 .. n
    OBVIOUS
  <2>2. n - k \in Nat /\ n - (n - k) = k
    BY <2>1
  <2>3. n - k \in J
    BY <2>2
  <2>4. d <= n - k
    BY <1>5, <2>3
  <2> QED BY <1>6, <2>1, <2>4
<1>8. \E x \in I : \A y \in I : x >= y
  BY <1>6, <1>7
<1>9. Max(I) \in I /\ \A y \in I : Max(I) >= y
  BY <1>8 DEF Max
<1>10. \A y \in I : y \in Int
  OBVIOUS
<1> QED BY <1>9, <1>10

\* btoq: no segment for an empty text, at least one for another.
LEMMA BtoqIs ==
    ASSUME NEW n \in Nat
    PROVE  Btoq(n) \in Nat /\ (n = 0 => Btoq(n) = 0) /\ (n > 0 => Btoq(n) > 0)
BY MsgAssumption DEF Btoq

-----------------------------------------------------------------------------
(* The bytes of some messages.                                             *)

\* f[k] are the bytes of the first k.
IsSum(f, sizes, n) ==
    /\ f \in [0 .. n -> Nat] /\ f[0] = 0
    /\ \A k \in 1 .. n : f[k] = f[k - 1] + sizes[k]

\* There are such sums.
LEMMA SumExists ==
    ASSUME NEW sizes \in Seq(Nat)
    PROVE  \E f : IsSum(f, sizes, Len(sizes))
<1> DEFINE n == Len(sizes)
           Bad == {k \in 0 .. n : ~\E f : IsSum(f, sizes, k)}
<1>1. n \in Nat
  OBVIOUS
<1>2. SUFFICES Bad = {}
  <2>1. n \in 0 .. n
    BY <1>1
  <2> QED BY <2>1
<1>3. SUFFICES ASSUME Bad # {} PROVE FALSE
  OBVIOUS
<1>4. PICK k \in Bad : \A j \in Bad : k <= j
  <2>1. Bad \subseteq Nat
    BY <1>1
  <2> HIDE DEF Bad
  <2> QED BY <1>3, <2>1, LeastNumber
<1>5. k \in 0 .. n /\ ~\E f : IsSum(f, sizes, k)
  OBVIOUS
<1>6. CASE k = 0
  <2>1. IsSum([i \in 0 .. 0 |-> 0], sizes, 0)
    BY DEF IsSum
  <2> QED BY <1>5, <1>6, <2>1
<1>7. CASE k > 0
  <2>1. k - 1 \in 0 .. n /\ ~(k <= k - 1)
    BY <1>1, <1>5, <1>7
  <2>2. k - 1 \notin Bad
    BY <1>4, <2>1
  <2>3. PICK f : IsSum(f, sizes, k - 1)
    BY <2>1, <2>2
  <2> DEFINE g == [i \in 0 .. k |-> IF i < k THEN f[i] ELSE f[k - 1] + sizes[k]]
  <2>4. k \in 1 .. n /\ sizes[k] \in Nat
    BY <1>1, <1>5, <1>7
  <2>5. f \in [0 .. k - 1 -> Nat] /\ f[0] = 0
        /\ \A i \in 1 .. k - 1 : f[i] = f[i - 1] + sizes[i]
    BY <2>3 DEF IsSum
  <2>6. f[k - 1] \in Nat
    BY <2>4, <2>5
  <2>7. g \in [0 .. k -> Nat] /\ g[0] = 0
    BY <2>4, <2>5, <2>6
  <2>8. ASSUME NEW i \in 1 .. k
        PROVE  g[i] = g[i - 1] + sizes[i]
    <3>1. i \in 0 .. k /\ i - 1 \in 0 .. k /\ i - 1 < k
      BY <2>4
    <3>2. g[i - 1] = f[i - 1]
      BY <3>1
    <3>3. CASE i < k
      <4>1. i \in 1 .. k - 1
        BY <2>4, <3>3
      <4> QED BY <2>5, <3>1, <3>2, <3>3, <4>1
    <3>4. CASE i = k
      BY <3>1, <3>2, <3>4, <2>4
    <3> QED BY <2>4, <3>3, <3>4
  <2>9. IsSum(g, sizes, k)
    <3> HIDE DEF g
    <3> QED BY <2>7, <2>8 DEF IsSum
  <2> QED BY <1>5, <2>9
<1> QED BY <1>1, <1>5, <1>6, <1>7

\* And only one.
LEMMA SumUnique ==
    ASSUME NEW sizes, NEW n \in Nat, NEW f, NEW g, IsSum(f, sizes, n), IsSum(g, sizes, n)
    PROVE  f = g
<1> DEFINE Bad == {k \in 0 .. n : f[k] # g[k]}
<1>1. SUFFICES Bad = {}
  <2>1. f \in [0 .. n -> Nat] /\ g \in [0 .. n -> Nat]
    BY DEF IsSum
  <2>2. \A k \in 0 .. n : f[k] = g[k]
    BY <1>1
  <2> QED BY <2>1, <2>2
<1>2. SUFFICES ASSUME Bad # {} PROVE FALSE
  OBVIOUS
<1>3. PICK k \in Bad : \A j \in Bad : k <= j
  <2>1. Bad \subseteq Nat
    OBVIOUS
  <2> HIDE DEF Bad
  <2> QED BY <1>2, <2>1, LeastNumber
<1>4. k \in 0 .. n /\ f[k] # g[k]
  OBVIOUS
<1>5. k # 0
  BY <1>4 DEF IsSum
<1>6. k \in 1 .. n /\ k - 1 \in 0 .. n /\ ~(k <= k - 1)
  BY <1>4, <1>5
<1>7. f[k - 1] = g[k - 1]
  BY <1>3, <1>6
<1> QED BY <1>4, <1>6, <1>7 DEF IsSum

\* Bytes is the last of the sums.
LEMMA BytesIs ==
    ASSUME NEW sizes \in Seq(Nat), NEW f, IsSum(f, sizes, Len(sizes))
    PROVE  Bytes(sizes) = f[Len(sizes)]
<1> DEFINE n == Len(sizes)
           Fun(g) == g = [k \in 0 .. n |-> IF k = 0 THEN 0 ELSE g[k - 1] + sizes[k]]
           h == CHOOSE g : Fun(g)
<1>1. n \in Nat
  OBVIOUS
<1>2. Fun(f)
  <2>1. f \in [0 .. n -> Nat] /\ f[0] = 0
    BY DEF IsSum
  <2>2. ASSUME NEW k \in 0 .. n
        PROVE  f[k] = IF k = 0 THEN 0 ELSE f[k - 1] + sizes[k]
    <3>1. CASE k = 0
      BY <2>1, <3>1
    <3>2. CASE k # 0
      <4>1. k \in 1 .. n
        BY <1>1, <3>2
      <4> QED BY <3>2, <4>1 DEF IsSum
    <3> QED BY <3>1, <3>2
  <2> QED BY <2>1, <2>2
<1>3. Fun(h)
  <2> HIDE DEF Fun
  <2> QED BY <1>2
<1>4. Bytes(sizes) = h[n]
  BY DEF Bytes
<1> HIDE DEF h
<1> DEFINE Bad == {k \in 0 .. n : h[k] # f[k]}
<1>5. ASSUME Bad # {} PROVE FALSE
  <2>1. PICK k \in Bad : \A j \in Bad : k <= j
    <3>1. Bad \subseteq Nat
      BY <1>1
    <3> HIDE DEF Bad
    <3> QED BY <1>5, <3>1, LeastNumber
  <2>2. k \in 0 .. n /\ h[k] # f[k]
    OBVIOUS
  <2>3. h[k] = IF k = 0 THEN 0 ELSE h[k - 1] + sizes[k]
    BY <1>3, <2>2
  <2>4. k # 0
    BY <2>2, <2>3 DEF IsSum
  <2>5. k \in 1 .. n /\ k - 1 \in 0 .. n /\ ~(k <= k - 1)
    BY <1>1, <2>2, <2>4
  <2>6. h[k - 1] = f[k - 1]
    BY <2>1, <2>5
  <2>7. f[k] = f[k - 1] + sizes[k]
    BY <2>5 DEF IsSum
  <2> QED BY <2>2, <2>3, <2>4, <2>6, <2>7
<1>6. n \in 0 .. n
  BY <1>1
<1> QED BY <1>4, <1>5, <1>6

\* Bytes, of none and of one more.
LEMMA BytesAppend ==
    ASSUME NEW sizes \in Seq(Nat), NEW e \in Nat
    PROVE  /\ Bytes(sizes) \in Nat
           /\ Bytes(Append(sizes, e)) = Bytes(sizes) + e
<1> DEFINE n == Len(sizes)
           more == Append(sizes, e)
<1>1. n \in Nat
  OBVIOUS
<1>2. PICK f : IsSum(f, sizes, n)
  BY SumExists
<1>3. Bytes(sizes) = f[n]
  BY <1>2, BytesIs
<1>4. f \in [0 .. n -> Nat] /\ f[0] = 0 /\ \A k \in 1 .. n : f[k] = f[k - 1] + sizes[k]
  BY <1>2 DEF IsSum
<1>5. f[n] \in Nat
  BY <1>1, <1>4
<1> DEFINE g == [k \in 0 .. n + 1 |-> IF k <= n THEN f[k] ELSE f[n] + e]
<1>6. /\ more \in Seq(Nat) /\ Len(more) = n + 1 /\ more[n + 1] = e
      /\ \A k \in 1 .. n : more[k] = sizes[k]
  OBVIOUS
<1>7. g \in [0 .. n + 1 -> Nat] /\ g[0] = 0 /\ g[n + 1] = f[n] + e
  BY <1>1, <1>4, <1>5
<1>8. ASSUME NEW k \in 1 .. n + 1
      PROVE  g[k] = g[k - 1] + more[k]
  <2>1. k \in 0 .. n + 1 /\ k - 1 \in 0 .. n + 1 /\ k - 1 <= n
    BY <1>1
  <2>2. g[k - 1] = f[k - 1]
    BY <2>1
  <2>3. CASE k <= n
    <3>1. k \in 1 .. n
      BY <1>1, <2>3
    <3> QED BY <1>4, <1>6, <2>1, <2>2, <2>3, <3>1
  <2>4. CASE k = n + 1
    <3>1. k - 1 = n
      BY <1>1, <2>4
    <3> QED BY <1>6, <1>7, <2>2, <2>4, <3>1
  <2> QED BY <1>1, <2>3, <2>4
<1>9. IsSum(g, more, n + 1)
  <2> HIDE DEF g, more
  <2> QED BY <1>7, <1>8 DEF IsSum
<1>10. Bytes(more) = g[n + 1]
  <2> HIDE DEF g, more
  <2> QED BY <1>6, <1>9, BytesIs
<1> QED BY <1>3, <1>5, <1>7, <1>10

\* No message, no bytes.
LEMMA BytesEmpty == Bytes(<<>>) = 0
<1>1. IsSum([k \in 0 .. 0 |-> 0], <<>>, 0)
  BY DEF IsSum
<1>2. Len(<<>>) = 0 /\ <<>> \in Seq(Nat)
  OBVIOUS
<1> QED BY <1>1, <1>2, BytesIs

\* Bytes, of one less.
LEMMA BytesLess ==
    ASSUME NEW sizes \in Seq(Nat), NEW i \in 1 .. Len(sizes), NEW less \in Seq(Nat),
           Len(less) = Len(sizes) - 1,
           \A k \in 1 .. Len(sizes) - 1 : less[k] = IF k < i THEN sizes[k] ELSE sizes[k + 1]
    PROVE  Bytes(less) + sizes[i] = Bytes(sizes)
<1> DEFINE n == Len(sizes)
<1>1. n \in Nat /\ i \in 1 .. n /\ sizes[i] \in Nat
  OBVIOUS
<1>2. \A k \in 1 .. n : sizes[k] \in Nat
  OBVIOUS
<1> PICK e \in Nat : e = sizes[i]
  BY <1>1
<1>3. PICK f : IsSum(f, sizes, n)
  BY SumExists
<1>4. Bytes(sizes) = f[n]
  BY <1>3, BytesIs
<1>5. f \in [0 .. n -> Nat] /\ f[0] = 0 /\ \A k \in 1 .. n : f[k] = f[k - 1] + sizes[k]
  BY <1>3 DEF IsSum
<1>6. \A k \in i .. n : f[k] >= e
  <2> DEFINE Bad == {k \in i .. n : ~(f[k] >= e)}
  <2>1. ASSUME Bad # {} PROVE FALSE
    <3>1. PICK k \in Bad : \A j \in Bad : k <= j
      <4>1. Bad \subseteq Nat
        BY <1>1
      <4> HIDE DEF Bad
      <4> QED BY <2>1, <4>1, LeastNumber
    <3>2. k \in i .. n /\ k \in 1 .. n /\ ~(f[k] >= e)
      BY <1>1
    <3>3. f[k] = f[k - 1] + sizes[k] /\ sizes[k] \in Nat /\ f[k - 1] \in Nat
      <4>1. k - 1 \in 0 .. n
        BY <1>1, <3>2
      <4> QED BY <1>2, <1>5, <3>2, <4>1
    <3>4. k # i
      BY <1>1, <3>2, <3>3
    <3>5. k - 1 \in i .. n /\ ~(k <= k - 1)
      BY <1>1, <3>2, <3>4
    <3>6. f[k - 1] >= e
      BY <3>1, <3>5
    <3> QED BY <1>1, <3>2, <3>3, <3>6
  <2> QED BY <2>1
<1> DEFINE g == [k \in 0 .. n - 1 |-> IF k < i THEN f[k] ELSE f[k + 1] - e]
<1>7. ASSUME NEW k \in 0 .. n - 1
      PROVE  g[k] \in Nat /\ g[k] = IF k < i THEN f[k] ELSE f[k + 1] - e
  <2>1. CASE k < i
    <3>1. k \in 0 .. n
      BY <1>1
    <3> QED BY <1>5, <2>1, <3>1
  <2>2. CASE ~(k < i)
    <3>1. k + 1 \in i .. n /\ k + 1 \in 0 .. n
      BY <1>1, <2>2
    <3>2. f[k + 1] \in Nat /\ f[k + 1] >= e
      BY <1>5, <1>6, <3>1
    <3> QED BY <1>1, <2>2, <3>2
  <2> QED BY <2>1, <2>2
<1>8. g \in [0 .. n - 1 -> Nat] /\ g[0] = 0
  <2>1. 0 \in 0 .. n - 1 /\ 0 < i
    BY <1>1
  <2> QED BY <1>5, <1>7, <2>1
<1>9. ASSUME NEW k \in 1 .. n - 1
      PROVE  g[k] = g[k - 1] + less[k]
  <2>1. /\ k \in 0 .. n - 1 /\ k - 1 \in 0 .. n - 1 /\ k \in 1 .. n /\ k + 1 \in 1 .. n
        /\ k \in 0 .. n /\ (k + 1) - 1 = k /\ (k - 1) + 1 = k
    BY <1>1
  <2>2. f[k] = f[k - 1] + sizes[k] /\ f[k + 1] = f[k] + sizes[k + 1]
    BY <1>5, <2>1
  <2>3. /\ f[k] \in Nat /\ sizes[k] \in Nat /\ sizes[k + 1] \in Nat
    BY <1>2, <1>5, <2>1
  <2>4. less[k] = IF k < i THEN sizes[k] ELSE sizes[k + 1]
    OBVIOUS
  <2>5. g[k] = (IF k < i THEN f[k] ELSE f[k + 1] - e)
        /\ g[k - 1] = (IF k - 1 < i THEN f[k - 1] ELSE f[k] - e)
    BY <1>7, <2>1
  <2> HIDE DEF g
  <2>6. CASE k < i
    BY <1>1, <2>2, <2>4, <2>5, <2>6
  <2>7. CASE k = i
    <3>1. g[k] = f[k + 1] - e /\ g[k - 1] = f[k - 1] /\ less[k] = sizes[k + 1]
      BY <1>1, <2>4, <2>5, <2>7
    <3>2. f[k - 1] \in Nat
      <4>1. k - 1 \in 0 .. n
        BY <1>1, <2>1
      <4> QED BY <1>5, <4>1
    <3>3. PICK a \in Nat : a = f[k - 1]
      BY <3>2
    <3>4. PICK d \in Nat : d = sizes[k + 1]
      BY <2>3
    <3>5. f[k] = a + e
      BY <2>2, <2>7, <3>3
    <3>6. f[k + 1] = a + e + d
      BY <2>2, <3>4, <3>5
    <3>7. g[k] = a + d
      BY <3>1, <3>6, SMTT(60)
    <3> QED BY <3>1, <3>3, <3>4, <3>7
  <2>8. CASE k > i
    <3>1. g[k] = f[k + 1] - e /\ g[k - 1] = f[k] - e /\ less[k] = sizes[k + 1]
      BY <1>1, <2>4, <2>5, <2>8
    <3>2. \A a, b, d \in Int : (a + d) - b = (a - b) + d
      OBVIOUS
    <3>3. (f[k] + sizes[k + 1]) - e = (f[k] - e) + sizes[k + 1]
      BY <1>1, <2>3, <3>2, SMTT(60)
    <3> QED BY <2>2, <3>1, <3>3
  <2> QED BY <1>1, <2>6, <2>7, <2>8
<1>10. IsSum(g, less, n - 1)
  <2> HIDE DEF g
  <2> QED BY <1>8, <1>9 DEF IsSum
<1>11. Bytes(less) = g[n - 1]
  <2> HIDE DEF g
  <2> QED BY <1>10, BytesIs
<1>12. n - 1 \in 0 .. n - 1 /\ n - 1 \in Nat
  BY <1>1
<1>13. CASE n - 1 < i
  <2>1. n = i
    BY <1>1, <1>13
  <2>2. f[n] = f[n - 1] + sizes[n] /\ f[n - 1] \in Nat
    <3>1. n \in 1 .. n /\ n - 1 \in 0 .. n
      BY <1>1
    <3> QED BY <1>5, <3>1
  <2>3. g[n - 1] = f[n - 1]
    BY <1>7, <1>12, <1>13
  <2> QED BY <1>4, <1>11, <2>1, <2>2, <2>3
<1>14. CASE ~(n - 1 < i)
  <2>1. (n - 1) + 1 = n /\ n \in 0 .. n
    BY <1>1
  <2>2. f[n] \in Nat
    BY <1>5, <2>1
  <2>3. g[n - 1] = f[n] - e
    BY <1>7, <1>12, <1>14, <2>1
  <2> QED BY <1>1, <1>4, <1>11, <2>2, <2>3
<1> QED BY <1>13, <1>14

-----------------------------------------------------------------------------
(* The list of a queue.                                                    *)

\* RemoveAt closes the sequence up over element i.
LEMMA RemoveAtIs ==
    ASSUME NEW S, NEW s \in Seq(S), NEW i \in 1 .. Len(s)
    PROVE  /\ RemoveAt(s, i) \in Seq(S)
           /\ Len(RemoveAt(s, i)) = Len(s) - 1
           /\ \A k \in 1 .. Len(s) - 1 :
                RemoveAt(s, i)[k] = IF k < i THEN s[k] ELSE s[k + 1]
<1> DEFINE t == SubSeq(s, 1, i - 1)
           u == SubSeq(s, i + 1, Len(s))
           r == RemoveAt(s, i)
<1>1. /\ t \in Seq(S) /\ Len(t) = i - 1 /\ \A k \in 1 .. i - 1 : t[k] = s[k]
  BY SubSeqProperties
<1>2. /\ u \in Seq(S) /\ Len(u) = Len(s) - i /\ \A k \in 1 .. Len(s) - i : u[k] = s[i + k]
  BY SubSeqProperties
<1>3. r = t \o u
  BY DEF RemoveAt
<1> HIDE DEF t, u, r
<1>4. /\ r \in Seq(S) /\ Len(r) = Len(t) + Len(u)
      /\ \A k \in 1 .. Len(t) + Len(u) :
           r[k] = IF k <= Len(t) THEN t[k] ELSE u[k - Len(t)]
  BY <1>1, <1>2, <1>3, ConcatProperties
<1>5. ASSUME NEW k \in 1 .. Len(s) - 1
      PROVE  r[k] = IF k < i THEN s[k] ELSE s[k + 1]
  <2>1. Len(t) = i - 1 /\ k \in 1 .. Len(t) + Len(u)
    BY <1>1, <1>2
  <2>2. r[k] = IF k <= i - 1 THEN t[k] ELSE u[k - (i - 1)]
    BY <1>4, <2>1
  <2>3. CASE k < i
    BY <1>1, <2>3, <2>2
  <2>4. CASE k >= i
    <3>1. k - (i - 1) \in 1 .. Len(s) - i
      BY <2>4
    <3>2. u[k - (i - 1)] = s[i + (k - (i - 1))]
      BY <1>2, <3>1
    <3>3. i + (k - (i - 1)) = k + 1
      OBVIOUS
    <3> QED BY <2>4, <2>2, <3>2, <3>3
  <2> QED BY <2>3, <2>4
<1>6. Len(r) = Len(s) - 1
  BY <1>1, <1>2, <1>4
<1> QED BY <1>4, <1>5, <1>6 DEF r

\* What a message is, for the provers.
LEMMA MessageIs ==
    ASSUME NEW l \in Seq(Message), NEW k \in 1 .. Len(l)
    PROVE  /\ l[k] \in Message
           /\ l[k].type \in Int /\ l[k].ts \in Nat /\ l[k].spot \in Nat
<1>1. l[k] \in Message
  OBVIOUS
<1>2. l[k].type \in MsgTypes /\ l[k].ts \in MsgSizes /\ l[k].spot \in 0 .. msgseg
  BY <1>1 DEF Message
<1>3. \A x \in 0 .. msgseg : x \in Nat
  BY MsgAssumption
<1>4. MsgTypes \subseteq Int /\ MsgSizes \subseteq Nat
  BY MsgSpaceAssumption
<1> QED BY <1>1, <1>2, <1>3, <1>4

\* The counts of an empty list.
LEMMA EmptyList == Sizes(<<>>) \in Seq(Nat) /\ Len(Sizes(<<>>)) = 0 /\ Bytes(Sizes(<<>>)) = 0
<1>1. Sizes(<<>>) = <<>>
  BY DEF Sizes
<1>2. <<>> \in Seq(Nat) /\ Len(<<>>) = 0
  OBVIOUS
<1> QED BY <1>1, <1>2, BytesEmpty

\* The sizes of the messages.
LEMMA SizesIs ==
    ASSUME NEW l \in Seq(Message)
    PROVE  /\ Sizes(l) \in Seq(Nat) /\ Len(Sizes(l)) = Len(l)
           /\ \A k \in 1 .. Len(l) : Sizes(l)[k] = l[k].ts
<1>1. \A k \in 1 .. Len(l) : l[k].ts \in Nat
  BY MessageIs
<1>2. Sizes(l) = [k \in 1 .. Len(l) |-> l[k].ts] /\ Len(l) \in Nat
  BY DEF Sizes
<1>3. Sizes(l) \in [1 .. Len(l) -> Nat]
  BY <1>1, <1>2
<1>4. Sizes(l) \in Seq(Nat) /\ Len(Sizes(l)) = Len(l)
  BY <1>2, <1>3, LenProperties, IsASeq
<1> QED BY <1>2, <1>4

\* A message is sent: the list and its bytes.
LEMMA ListAppended ==
    ASSUME NEW l \in Seq(Message), NEW m \in Message
    PROVE  /\ Append(l, m) \in Seq(Message) /\ Len(Append(l, m)) = Len(l) + 1
           /\ Append(l, m)[Len(l) + 1] = m /\ \A k \in 1 .. Len(l) : Append(l, m)[k] = l[k]
           /\ Bytes(Sizes(l)) \in Nat
           /\ Bytes(Sizes(Append(l, m))) = Bytes(Sizes(l)) + m.ts
<1> DEFINE r == Append(l, m)
<1>1. r \in Seq(Message) /\ Len(r) = Len(l) + 1 /\ r[Len(l) + 1] = m
      /\ \A k \in 1 .. Len(l) : r[k] = l[k]
  BY AppendProperties
<1> HIDE DEF r
<1>2. m.ts \in Nat
  BY MsgSpaceAssumption DEF Message
<1>3. /\ Sizes(l) \in Seq(Nat) /\ Len(Sizes(l)) = Len(l)
      /\ \A k \in 1 .. Len(l) : Sizes(l)[k] = l[k].ts
  BY SizesIs
<1>4. /\ Sizes(r) \in Seq(Nat) /\ Len(Sizes(r)) = Len(l) + 1
      /\ \A k \in 1 .. Len(l) + 1 : Sizes(r)[k] = r[k].ts
  BY <1>1, SizesIs
<1>5. Len(l) \in Nat
  OBVIOUS
<1> DEFINE u == Append(Sizes(l), m.ts)
<1>6. /\ u \in Seq(Nat) /\ Len(u) = Len(l) + 1 /\ u[Len(l) + 1] = m.ts
      /\ \A k \in 1 .. Len(l) : u[k] = Sizes(l)[k]
  BY <1>2, <1>3, AppendProperties
<1> HIDE DEF u
<1>7. ASSUME NEW k \in 1 .. Len(l) + 1
      PROVE  Sizes(r)[k] = u[k]
  <2>1. CASE k \in 1 .. Len(l)
    BY <1>1, <1>3, <1>4, <1>6, <2>1
  <2>2. CASE k = Len(l) + 1
    BY <1>1, <1>4, <1>6, <2>2
  <2> QED BY <1>5, <2>1, <2>2
<1>8. Sizes(r) = u
  BY <1>4, <1>6, <1>7, SeqEqual
<1>9. Bytes(Sizes(l)) \in Nat /\ Bytes(u) = Bytes(Sizes(l)) + m.ts
  BY <1>2, <1>3, BytesAppend DEF u
<1> QED BY <1>1, <1>8, <1>9 DEF r

\* A message is received: the list and its bytes.
LEMMA ListReduced ==
    ASSUME NEW l \in Seq(Message), NEW i \in 1 .. Len(l)
    PROVE  /\ RemoveAt(l, i) \in Seq(Message) /\ Len(RemoveAt(l, i)) = Len(l) - 1
           /\ \A k \in 1 .. Len(l) - 1 :
                RemoveAt(l, i)[k] = IF k < i THEN l[k] ELSE l[k + 1]
           /\ Bytes(Sizes(RemoveAt(l, i))) \in Nat
           /\ Bytes(Sizes(RemoveAt(l, i))) + l[i].ts = Bytes(Sizes(l))
<1> DEFINE r == RemoveAt(l, i)
<1>1. /\ r \in Seq(Message) /\ Len(r) = Len(l) - 1
      /\ \A k \in 1 .. Len(l) - 1 : r[k] = IF k < i THEN l[k] ELSE l[k + 1]
  BY RemoveAtIs
<1> HIDE DEF r
<1>2. /\ Sizes(l) \in Seq(Nat) /\ Len(Sizes(l)) = Len(l)
      /\ \A k \in 1 .. Len(l) : Sizes(l)[k] = l[k].ts
  BY SizesIs
<1>3. /\ Sizes(r) \in Seq(Nat) /\ Len(Sizes(r)) = Len(l) - 1
      /\ \A k \in 1 .. Len(l) - 1 : Sizes(r)[k] = r[k].ts
  BY <1>1, SizesIs
<1>4. ASSUME NEW k \in 1 .. Len(l) - 1
      PROVE  Sizes(r)[k] = IF k < i THEN Sizes(l)[k] ELSE Sizes(l)[k + 1]
  <2>1. k \in 1 .. Len(l) /\ k + 1 \in 1 .. Len(l)
    OBVIOUS
  <2> QED BY <1>1, <1>2, <1>3, <2>1
<1>5. Bytes(Sizes(r)) + Sizes(l)[i] = Bytes(Sizes(l))
  BY <1>2, <1>3, <1>4, BytesLess
<1>6. Bytes(Sizes(r)) \in Nat
  BY <1>3, BytesAppend
<1> QED BY <1>1, <1>2, <1>5, <1>6 DEF r

\* The messages msgrcv with msgtyp t may take.
Fitting(m, t) == t = 0 \/ (t > 0 /\ m.type = t) \/ (t < 0 /\ m.type <= -t)

\* Findmsg finds one whenever there is one: the first, or the first of the
\* lowest type.
LEMMA FindmsgIs ==
    ASSUME NEW l \in Seq(Message), NEW t \in Int, NEW i, i = Findmsg(l, t)
    PROVE  \/ i = 0 /\ \A k \in 1 .. Len(l) : ~Fitting(l[k], t)
           \/ /\ i \in 1 .. Len(l) /\ Fitting(l[i], t)
              /\ t < 0 => \A k \in 1 .. Len(l) : l[i].type <= l[k].type
              /\ \A k \in 1 .. Len(l) :
                   k < i /\ Fitting(l[k], t) => t < 0 /\ l[i].type < l[k].type
<1>1. Len(l) \in Nat /\ DOMAIN l = 1 .. Len(l)
  OBVIOUS
<1>2. \A k \in 1 .. Len(l) : l[k].type \in Int
  BY MessageIs
<1>3. CASE t = 0
  <2>1. i = IF l = <<>> THEN 0 ELSE 1
    BY <1>3 DEF Findmsg
  <2>2. CASE l = <<>>
    BY <2>1, <2>2
  <2>3. CASE l # <<>>
    <3>1. Len(l) # 0
      BY <2>3, EmptySeq
    <3>2. i = 1 /\ 1 \in 1 .. Len(l)
      BY <1>1, <2>1, <2>3, <3>1
    <3>3. \A k \in 1 .. Len(l) : ~(k < 1)
      OBVIOUS
    <3> QED BY <1>3, <3>2, <3>3 DEF Fitting
  <2> QED BY <2>2, <2>3
<1>4. CASE t > 0
  <2> DEFINE I == {k \in 1 .. Len(l) : l[k].type = t}
  <2>1. i = IF I # {} THEN Min(I) ELSE 0
    BY <1>4 DEF Findmsg, SelectInSeq
  <2>2. \A k \in 1 .. Len(l) : Fitting(l[k], t) <=> k \in I
    BY <1>4 DEF Fitting
  <2>3. I \subseteq Nat /\ I \subseteq 1 .. Len(l)
    OBVIOUS
  <2>4. ~(t < 0)
    BY <1>4
  <2> HIDE DEF I
  <2>5. CASE I = {}
    BY <2>1, <2>2, <2>5
  <2>6. CASE I # {}
    <3>1. i \in I /\ \A k \in I : i <= k
      BY <2>1, <2>3, <2>6, LeastNumber
    <3>2. ASSUME NEW k \in 1 .. Len(l), k < i
          PROVE  k \notin I
      BY <2>3, <3>1, <3>2
    <3> QED BY <2>2, <2>3, <2>4, <3>1, <3>2
  <2> QED BY <2>5, <2>6
<1>5. CASE t < 0
  <2> DEFINE K == {k \in DOMAIN l : /\ l[k].type <= -t
                                    /\ \A j \in 1 .. k - 1 : l[j].type > l[k].type}
  <2>1. i = IF K = {} THEN 0 ELSE Max(K)
    BY <1>5 DEF Findmsg
  <2>2. \A k \in 1 .. Len(l) : Fitting(l[k], t) <=> l[k].type <= -t
    BY <1>5 DEF Fitting
  <2>3. K \subseteq 1 .. Len(l) /\ K \subseteq 0 .. Len(l)
    BY <1>1
  <2>4. ASSUME NEW b \in Int, b <= -t, NEW n \in 1 .. Len(l), l[n].type <= b,
               \A j \in 1 .. Len(l) : j < n => l[j].type > b
        PROVE  n \in K
    <3>1. ASSUME NEW j \in 1 .. n - 1
          PROVE  l[j].type > l[n].type
      <4>1. j \in 1 .. Len(l) /\ j < n
        BY <1>1
      <4> QED BY <1>2, <2>4, <4>1
    <3> QED BY <1>1, <1>2, <1>5, <2>4, <3>1
  <2>5. ASSUME NEW b \in Int, b <= -t, NEW n \in 1 .. Len(l), l[n].type <= b
        PROVE  \E k \in K : l[k].type <= b /\ \A j \in 1 .. Len(l) : j < k => l[j].type > b
    <3> DEFINE J == {k \in 1 .. Len(l) : l[k].type <= b}
    <3>1. n \in J /\ J \subseteq Nat
      BY <2>5
    <3>2. PICK k \in J : \A j \in J : k <= j
      <4> HIDE DEF J
      <4> QED BY <3>1, LeastNumber
    <3>3. k \in 1 .. Len(l) /\ l[k].type <= b
      OBVIOUS
    <3>4. ASSUME NEW j \in 1 .. Len(l), j < k
          PROVE  l[j].type > b
      <4>1. j \notin J
        BY <3>2, <3>3, <3>4
      <4> QED BY <1>2, <4>1
    <3>5. k \in K
      <4> HIDE DEF J, K
      <4> QED BY <2>4, <2>5, <3>3, <3>4
    <3> QED BY <3>3, <3>4, <3>5
  <2>6. CASE K = {}
    <3>1. ASSUME NEW k \in 1 .. Len(l), l[k].type <= -t
          PROVE  FALSE
      <4> HIDE DEF K
      <4> QED BY <2>5, <2>6, <3>1
    <3> QED BY <2>1, <2>2, <2>6, <3>1
  <2>7. CASE K # {}
    <3>1. i \in K /\ \A k \in K : k <= i
      <4> HIDE DEF K
      <4> QED BY <1>1, <2>1, <2>3, <2>7, GreatestNumber
    <3>2. i \in 1 .. Len(l) /\ l[i].type <= -t /\ \A j \in 1 .. i - 1 : l[j].type > l[i].type
      BY <1>1, <3>1
    <3>3. l[i].type \in Int
      BY <1>2, <3>2
    <3>4. ASSUME NEW k \in 1 .. Len(l), ~(l[i].type <= l[k].type)
          PROVE  FALSE
      <4>1. l[k].type \in Int /\ l[i].type - 1 \in Int /\ l[k].type <= l[i].type - 1
            /\ l[i].type - 1 <= -t
        BY <1>2, <3>2, <3>3, <3>4
      <4>2. PICK n \in K : l[n].type <= l[i].type - 1
        <5> HIDE DEF K
        <5> QED BY <2>5, <4>1
      <4>3. n \in 1 .. Len(l) /\ n <= i /\ l[n].type \in Int
        BY <1>1, <1>2, <3>1, <4>2
      <4>4. CASE n = i
        BY <3>3, <4>2, <4>4
      <4>5. CASE n < i
        <5>1. n \in 1 .. i - 1
          BY <1>1, <3>2, <4>3, <4>5
        <5> QED BY <3>2, <3>3, <4>2, <4>3, <5>1
      <4> QED BY <3>2, <4>3, <4>4, <4>5
    <3>5. ASSUME NEW k \in 1 .. Len(l), k < i
          PROVE  l[i].type < l[k].type
      <4>1. k \in 1 .. i - 1
        BY <1>1, <3>2, <3>5
      <4> QED BY <1>2, <3>2, <3>3, <4>1
    <3> QED BY <1>5, <2>2, <3>2, <3>4, <3>5
  <2> QED BY <2>6, <2>7
<1> QED BY <1>3, <1>4, <1>5

-----------------------------------------------------------------------------
(* The map of segments.                                                    *)

Segments == 1 .. msgseg

\* The map cannot overflow.
Ample == 2 * mapslots > msgseg

\* The segments of a message's text.
Text(m) == Units(m.spot, Btoq(m.ts))

\* There is a first fit when there is a fit.
LEMMA FirstFitExists ==
    ASSUME NEW m \in SUBSET Segments, NEW n
    PROVE  (\E a \in m : FirstFit(m, n, a)) <=> Fits(m, n) # {}
<1>1. Fits(m, n) \subseteq m /\ m \subseteq Nat
  BY DEF Fits, Segments
<1>2. ASSUME Fits(m, n) # {}
      PROVE  \E a \in m : FirstFit(m, n, a)
  <2>1. Min(Fits(m, n)) \in Fits(m, n) /\ \A k \in Fits(m, n) : Min(Fits(m, n)) <= k
    BY <1>1, <1>2, LeastNumber
  <2> QED BY <1>1, <2>1 DEF FirstFit
<1> QED BY <1>2 DEF FirstFit

\* Runs of free segments are apart: there are at most half as many as
\* segments, rounded up.
LEMMA StartsBound ==
    ASSUME NEW m \in SUBSET Segments
    PROVE  Cardinality(Starts(m)) \in Nat /\ 2 * Cardinality(Starts(m)) <= msgseg + 1
<1> DEFINE S == Starts(m)
           T == {a \in 0 .. msgseg : a + 1 \in S}
<1>1. msgseg \in Nat
  BY MsgAssumption
<1>2. S \subseteq 0 .. msgseg /\ T \subseteq 0 .. msgseg
  <2>1. 1 .. msgseg \subseteq 0 .. msgseg
    BY <1>1
  <2>2. S \subseteq m
    BY DEF Starts
  <2> QED BY <2>1, <2>2 DEF Segments
<1>3. S \cap T = {}
  <2> SUFFICES ASSUME NEW a \in 0 .. msgseg, a \in S, a + 1 \in S PROVE FALSE
    BY <1>2
  <2>1. a \in m /\ (a + 1) - 1 \notin m
    BY DEF Starts
  <2>2. (a + 1) - 1 = a
    OBVIOUS
  <2> QED BY <2>1, <2>2
<1>4. IsFiniteSet(0 .. msgseg) /\ Cardinality(0 .. msgseg) = msgseg + 1
  BY <1>1, FS_Interval
<1>5. IsFiniteSet(S) /\ IsFiniteSet(T)
  BY <1>2, <1>4, FS_Subset
<1>6. Cardinality(S) \in Nat /\ Cardinality(T) \in Nat
  BY <1>5, FS_CardinalityType
<1>7. Cardinality(S) <= Cardinality(T)
  <2> DEFINE f == [a \in S |-> a - 1]
  <2>1. \A a \in S : a \in Int /\ a - 1 \in T
    BY <1>1 DEF Starts, Segments
  <2>2. f \in Injection(S, T)
    BY <2>1 DEF Injection, IsInjective
  <2> HIDE DEF f, S, T
  <2> QED BY <1>5, <2>2, FS_Injection
<1>8. /\ Cardinality(S \cup T) = Cardinality(S) + Cardinality(T) - Cardinality(S \cap T)
      /\ IsFiniteSet(S \cup T)
  <2> HIDE DEF S, T
  <2> QED BY <1>5, FS_Union
<1>9. Cardinality(S \cap T) = 0
  <2> HIDE DEF S, T
  <2> QED BY <1>3, FS_EmptySet
<1>10. Cardinality(S \cup T) <= msgseg + 1
  <2>1. S \cup T \in SUBSET (0 .. msgseg)
    BY <1>2
  <2> HIDE DEF S, T
  <2> QED BY <1>4, <2>1, FS_Subset
<1> HIDE DEF S, T
<1>11. 2 * Cardinality(S) <= msgseg + 1
  BY <1>1, <1>6, <1>7, <1>8, <1>9, <1>10
<1> QED BY <1>6, <1>11 DEF S

\* rmfree adds the units or, when the map is not ample, may lose them.
LEMMA ReleaseIs ==
    ASSUME NEW m \in SUBSET Segments, NEW a, NEW n, Units(a, n) \subseteq Segments
    PROVE  /\ Release(m, n, a, mapslots) \in {m, m \cup Units(a, n)}
           /\ Ample => Release(m, n, a, mapslots) = m \cup Units(a, n)
<1> DEFINE joined == m \cup Units(a, n)
           card == Cardinality(Starts(joined))
<1>1. Release(m, n, a, mapslots) = IF card > mapslots THEN m ELSE joined
  BY DEF Release
<1>2. joined \in SUBSET Segments
  OBVIOUS
<1>3. card \in Nat /\ 2 * card <= msgseg + 1
  <2> HIDE DEF joined
  <2> QED BY <1>2, StartsBound
<1> HIDE DEF card
<1>4. Ample => ~(card > mapslots)
  BY <1>3, MsgAssumption DEF Ample
<1> QED BY <1>1, <1>4

-----------------------------------------------------------------------------
(* Headers and text that go back.                                          *)

\* What Msgfree works on.
Account == [fp : Nat, map : SUBSET Segments, want : BOOLEAN, chans : SUBSET Chan]

\* From w to v, k headers and at most the segments U have gone back, and who
\* has to be woken is noted.
Freed(w, v, U, k) ==
    /\ v \in Account /\ v.fp = w.fp + k
    /\ w.map \subseteq v.map /\ v.map \subseteq w.map \cup U
    /\ Ample => v.map = w.map \cup U
    /\ w.chans \subseteq v.chans
    /\ w.fp = 0 /\ k > 0 => <<"msgfp", 0>> \in v.chans
    /\ \/ v.want = w.want /\ v.map = w.map
       \/ ~v.want /\ (w.want => <<"msgmap", 0>> \in v.chans)

\* Nothing has gone back.
LEMMA FreedNothing ==
    ASSUME NEW w \in Account
    PROVE  Freed(w, w, {}, 0)
<1>1. w.fp \in Nat
  BY DEF Account
<1>2. w.fp = w.fp + 0
  BY <1>1
<1> QED BY <1>2 DEF Freed

\* msgfree of one message.
LEMMA MsgfreeIs ==
    ASSUME NEW w \in Account, NEW m, m.ts \in Nat, m.spot \in Nat, Text(m) \subseteq Segments
    PROVE  Freed(w, Msgfree(w, m), Text(m), 1)
<1> DEFINE n == m.ts
           U == Text(m)
           map == IF n = 0 THEN w.map ELSE Release(w.map, Btoq(n), m.spot, mapslots)
           u == Rmfree(w, n, m.spot)
           v == Putback(u)
<1>1. w.fp \in Nat /\ w.map \in SUBSET Segments /\ w.want \in BOOLEAN /\ w.chans \in SUBSET Chan
  BY DEF Account
<1>2. <<"msgfp", 0>> \in Chan /\ <<"msgmap", 0>> \in Chan
  BY DEF Chan
<1>3. map \in {w.map, w.map \cup U} /\ (Ample => map = w.map \cup U)
  <2>1. CASE n = 0
    <3>1. U = {}
      BY <2>1, BtoqIs DEF Text, Units
    <3> QED BY <2>1, <3>1
  <2>2. CASE n # 0
    BY <1>1, <2>2, ReleaseIs DEF Text
  <2> QED BY <2>1, <2>2
<1>4. map \in SUBSET Segments
  BY <1>1, <1>3
<1>5. u = IF map = w.map THEN w
          ELSE [w EXCEPT !.map = map, !.want = FALSE,
                         !.chans = @ \cup (IF w.want THEN {<<"msgmap", 0>>} ELSE {})]
  BY DEF Rmfree
<1> HIDE DEF map, U
<1>6. /\ u \in Account /\ u.fp = w.fp /\ u.map = map /\ w.chans \subseteq u.chans
      /\ \/ u.want = w.want /\ map = w.map
         \/ ~u.want /\ (w.want => <<"msgmap", 0>> \in u.chans)
  <2>1. CASE map = w.map
    BY <1>5, <2>1 DEF Account
  <2>2. CASE map # w.map
    <3>1. u = [fp |-> w.fp, map |-> map, want |-> FALSE,
               chans |-> w.chans \cup (IF w.want THEN {<<"msgmap", 0>>} ELSE {})]
      BY <1>5, <2>2 DEF Account
    <3>2. u \in Account
      BY <1>1, <1>2, <1>4, <3>1 DEF Account
    <3>3. /\ u.fp = w.fp /\ u.map = map /\ u.want = FALSE
          /\ u.chans = w.chans \cup (IF w.want THEN {<<"msgmap", 0>>} ELSE {})
      BY <3>1
    <3>4. w.chans \subseteq u.chans /\ (w.want => <<"msgmap", 0>> \in u.chans)
      BY <3>3
    <3> QED BY <3>2, <3>3, <3>4
  <2> QED BY <2>1, <2>2
<1> HIDE DEF u
<1>7. v = [fp |-> u.fp + 1, map |-> u.map, want |-> u.want,
           chans |-> u.chans \cup (IF u.fp = 0 THEN {<<"msgfp", 0>>} ELSE {})]
  <2>1. u = [fp |-> u.fp, map |-> u.map, want |-> u.want, chans |-> u.chans]
    BY <1>6 DEF Account
  <2>2. v = [u EXCEPT !.fp = u.fp + 1,
                      !.chans = u.chans \cup (IF u.fp = 0 THEN {<<"msgfp", 0>>} ELSE {})]
    BY DEF Putback
  <2> QED BY <2>1, <2>2
<1>8. u.fp \in Nat /\ u.map \in SUBSET Segments /\ u.want \in BOOLEAN /\ u.chans \in SUBSET Chan
  BY <1>6 DEF Account
<1>9. v \in Account
  BY <1>2, <1>7, <1>8 DEF Account
<1>10. Msgfree(w, m) = v
  BY DEF Msgfree, u
<1> HIDE DEF v
<1>11. /\ v.fp = w.fp + 1 /\ v.map = map /\ v.want = u.want /\ u.chans \subseteq v.chans
       /\ w.fp = 0 => <<"msgfp", 0>> \in v.chans
  BY <1>6, <1>7
<1>12. Freed(w, v, U, 1)
  BY <1>3, <1>6, <1>9, <1>11 DEF Freed
<1> QED BY <1>10, <1>12 DEF U

\* One after the other.
LEMMA FreedTwice ==
    ASSUME NEW w \in Account, NEW u, NEW v, NEW U, NEW V, NEW j \in Nat, NEW k \in Nat,
           Freed(w, u, U, j), Freed(u, v, V, k)
    PROVE  Freed(w, v, U \cup V, j + k)
<1>1. /\ u \in Account /\ u.fp = w.fp + j
      /\ w.map \subseteq u.map /\ u.map \subseteq w.map \cup U
      /\ Ample => u.map = w.map \cup U
      /\ w.chans \subseteq u.chans
      /\ w.fp = 0 /\ j > 0 => <<"msgfp", 0>> \in u.chans
      /\ \/ u.want = w.want /\ u.map = w.map
         \/ ~u.want /\ (w.want => <<"msgmap", 0>> \in u.chans)
  BY DEF Freed
<1>2. /\ v \in Account /\ v.fp = u.fp + k
      /\ u.map \subseteq v.map /\ v.map \subseteq u.map \cup V
      /\ Ample => v.map = u.map \cup V
      /\ u.chans \subseteq v.chans
      /\ u.fp = 0 /\ k > 0 => <<"msgfp", 0>> \in v.chans
      /\ \/ v.want = u.want /\ v.map = u.map
         \/ ~v.want /\ (u.want => <<"msgmap", 0>> \in v.chans)
  BY DEF Freed
<1>3. w.fp \in Nat
  BY DEF Account
<1>4. v.fp = w.fp + (j + k)
  BY <1>1, <1>2, <1>3
<1>5. w.fp = 0 /\ j + k > 0 => <<"msgfp", 0>> \in v.chans
  <2>1. CASE j > 0
    BY <1>1, <1>2, <2>1
  <2>2. CASE j = 0
    BY <1>1, <1>2, <1>3, <2>2
  <2> QED BY <2>1, <2>2
<1>6. \/ v.want = w.want /\ v.map = w.map
      \/ ~v.want /\ (w.want => <<"msgmap", 0>> \in v.chans)
  BY <1>1, <1>2
<1>7. w.map \subseteq v.map /\ v.map \subseteq w.map \cup (U \cup V) /\ w.chans \subseteq v.chans
  BY <1>1, <1>2
<1>8. Ample => v.map = w.map \cup (U \cup V)
  BY <1>1, <1>2
<1> QED BY <1>2, <1>4, <1>5, <1>6, <1>7, <1>8 DEF Freed

\* The texts of the first k messages.
Texts(l, k) == UNION {Text(l[i]) : i \in 1 .. k}

\* IPC_RMID frees the messages of the queue one after the other: nothing but
\* all their headers and texts has gone back.
LEMMA EmptiedIs ==
    ASSUME NEW s, que[s].list \in Seq(Message), Resources \in Account,
           \A i \in 1 .. Len(que[s].list) : Text(que[s].list[i]) \subseteq Segments
    PROVE  Freed(Resources, Emptied(s), Texts(que[s].list, Len(que[s].list)),
                 Len(que[s].list))
<1> DEFINE l == que[s].list
           n == Len(l)
           Chain(f, k) == f = [i \in 0 .. k |-> IF i = 0 THEN Resources
                                                ELSE Msgfree(f[i - 1], l[i])]
           h == CHOOSE f : Chain(f, n)
<1>1. n \in Nat /\ l \in Seq(Message)
  OBVIOUS
<1>2. Emptied(s) = h[n]
  BY DEF Emptied
<1> HIDE DEF l
<1>3. \E f : Chain(f, n)
  <2> DEFINE Bad == {k \in 0 .. n : ~\E f : Chain(f, k)}
  <2>1. ASSUME Bad # {} PROVE FALSE
    <3>1. PICK k \in Bad : \A j \in Bad : k <= j
      <4>1. Bad \subseteq Nat
        BY <1>1
      <4> HIDE DEF Bad
      <4> QED BY <2>1, <4>1, LeastNumber
    <3>2. k \in 0 .. n /\ ~\E f : Chain(f, k)
      OBVIOUS
    <3>3. CASE k = 0
      <4>1. Chain([i \in 0 .. 0 |-> Resources], 0)
        <5>1. \A i \in 0 .. 0 : i = 0
          OBVIOUS
        <5> QED BY <5>1
      <4> QED BY <3>2, <3>3, <4>1
    <3>4. CASE k > 0
      <4>1. k - 1 \in 0 .. n /\ ~(k <= k - 1) /\ k - 1 \in 0 .. k - 1
        BY <1>1, <3>2, <3>4
      <4>2. PICK f : Chain(f, k - 1)
        BY <3>1, <4>1
      <4> DEFINE g == [i \in 0 .. k |-> IF i < k THEN f[i] ELSE Msgfree(f[k - 1], l[k])]
      <4>3. \A i \in 0 .. k - 1 : f[i] = IF i = 0 THEN Resources ELSE Msgfree(f[i - 1], l[i])
        <5> HIDE DEF g
        <5> QED BY <4>2
      <4>4. ASSUME NEW i \in 0 .. k
            PROVE  g[i] = IF i = 0 THEN Resources ELSE Msgfree(g[i - 1], l[i])
        <5>1. CASE i = 0
          BY <3>4, <4>1, <4>3, <5>1
        <5>2. CASE i > 0 /\ i < k
          <6>1. i \in 0 .. k - 1 /\ i - 1 \in 0 .. k /\ i - 1 < k
            BY <3>2, <5>2
          <6>2. g[i] = f[i] /\ g[i - 1] = f[i - 1]
            BY <5>2, <6>1
          <6> QED BY <4>3, <5>2, <6>1, <6>2
        <5>3. CASE i = k
          <6>1. k - 1 \in 0 .. k /\ k - 1 < k
            BY <3>2, <3>4
          <6>2. g[k] = Msgfree(f[k - 1], l[k]) /\ g[k - 1] = f[k - 1]
            BY <3>2, <6>1
          <6> QED BY <3>4, <5>3, <6>2
        <5> QED BY <3>2, <5>1, <5>2, <5>3
      <4>5. Chain(g, k)
        BY <4>4
      <4> QED BY <3>2, <4>5
    <3> QED BY <1>1, <3>2, <3>3, <3>4
  <2>2. n \in 0 .. n
    BY <1>1
  <2> QED BY <2>1, <2>2
<1>4. Chain(h, n)
  <2> HIDE DEF Chain
  <2> QED BY <1>3
<1> HIDE DEF h
<1>5. \A k \in 0 .. n : h[k] = IF k = 0 THEN Resources ELSE Msgfree(h[k - 1], l[k])
  BY <1>4
<1> DEFINE Bad == {k \in 0 .. n : ~Freed(Resources, h[k], Texts(l, k), k)}
<1>6. ASSUME Bad # {} PROVE FALSE
  <2>1. PICK k \in Bad : \A j \in Bad : k <= j
    <3>1. Bad \subseteq Nat
      BY <1>1
    <3> HIDE DEF Bad
    <3> QED BY <1>6, <3>1, LeastNumber
  <2>2. k \in 0 .. n /\ ~Freed(Resources, h[k], Texts(l, k), k)
    OBVIOUS
  <2>3. CASE k = 0
    <3>1. Texts(l, 0) = {}
      BY DEF Texts
    <3>2. h[0] = Resources
      BY <1>5, <2>2, <2>3
    <3> QED BY <2>2, <2>3, <3>1, <3>2, FreedNothing
  <2>4. CASE k > 0
    <3>1. k - 1 \in 0 .. n /\ k - 1 \in Nat /\ ~(k <= k - 1) /\ k \in 1 .. n
      BY <1>1, <2>2, <2>4
    <3>2. Freed(Resources, h[k - 1], Texts(l, k - 1), k - 1)
      BY <2>1, <3>1
    <3>3. h[k - 1] \in Account
      BY <3>2 DEF Freed
    <3>4. h[k] = Msgfree(h[k - 1], l[k])
      BY <1>5, <2>2, <2>4
    <3>5. l[k].ts \in Nat /\ l[k].spot \in Nat /\ Text(l[k]) \subseteq Segments
      BY <1>1, <3>1, MessageIs DEF l
    <3>6. Freed(h[k - 1], h[k], Text(l[k]), 1)
      BY <3>3, <3>4, <3>5, MsgfreeIs
    <3>7. Freed(Resources, h[k], Texts(l, k - 1) \cup Text(l[k]), (k - 1) + 1)
      BY <3>1, <3>2, <3>6, FreedTwice
    <3>8. (k - 1) + 1 = k
      BY <3>1
    <3>9. Texts(l, k) = Texts(l, k - 1) \cup Text(l[k])
      <4>1. \A i : i \in 1 .. k <=> i \in 1 .. k - 1 \/ i = k
        BY <3>1
      <4> QED BY <4>1 DEF Texts
    <3> QED BY <2>2, <3>7, <3>8, <3>9
  <2> QED BY <1>1, <2>2, <2>3, <2>4
<1>7. n \in 0 .. n
  BY <1>1
<1>8. Freed(Resources, h[n], Texts(l, n), n)
  BY <1>6, <1>7
<1> QED BY <1>2, <1>8 DEF l

-----------------------------------------------------------------------------
(* The inductive invariant.                                                *)

CallT == [cmd : {"none", "snd", "rcv", "rmid", "set"}, type : Int, size : Nat,
          nowait : BOOLEAN, id : Id, chan : Chan, ref : Nat,
          at : {"start", "again", "eintr", "eintr_que", "type", "text", "out", "set"}]
QueT == [alloc : BOOLEAN, seq : 0 .. MaxSeq, list : Seq(Message), qnum : Nat, cbytes : Nat,
         qbytes : Nat, rwait : BOOLEAN, wwait : BOOLEAN]
PoolT == [fp : Nat, map : SUBSET Segments, want : BOOLEAN]
Doing == {"user", "asleep", "run", "intr", "fault"}
Typed ==
    /\ que \in [Slots -> QueT] /\ lock \in [Slots -> BOOLEAN] /\ pool \in PoolT
    /\ stat \in [Proc -> Doing] /\ call \in [Proc -> CallT]

\* The counts are those of the list, and a queue that does not exist has
\* no message.
QueOK(q) ==
    /\ q.qnum = Len(q.list) /\ q.cbytes = Bytes(Sizes(q.list))
    /\ ~q.alloc => q.list = <<>>
Counted == \A s \in Slots : QueOK(que[s])

\* A list's texts do not overlap.
TextsOf(l) == Texts(l, Len(l))
Apart(l) == \A i, j \in 1 .. Len(l) : i # j => Text(l[i]) \cap Text(l[j]) = {}

\* The segments that a sender in copyin has, and its header.
Sends(st, c) == st = "fault" /\ c.at = "text"
SentText(st, c) == IF Sends(st, c) THEN Units(c.ref, Btoq(c.size)) ELSE {}
SentHeader(st, c) == IF Sends(st, c) THEN 1 ELSE 0

\* Who has segments: the queues and the senders.
Holder == ({"que"} \X Slots) \cup ({"snd"} \X Proc)
Held == [x \in Holder |-> IF x[1] = "que" THEN TextsOf(que[x[2]].list)
                                          ELSE SentText(stat[x[2]], call[x[2]])]

\* Each segment is free or has one holder.
Shares(h, m) ==
    /\ \A x \in Holder : h[x] \subseteq Segments \ m
    /\ \A x, y \in Holder : x # y => h[x] \cap h[y] = {}
    /\ Ample => \A a \in Segments : a \in m \/ \E x \in Holder : a \in h[x]
Shared == Shares(Held, pool.map) /\ \A s \in Slots : Apart(que[s].list)

\* The messages on queues of these lengths.
Listed(L) == {x \in Slots \X Nat : x[2] \in 1 .. L[x[1]]}
Lens == [s \in Slots |-> Len(que[s].list)]

\* Each header is free, on a queue or with a sender.
Headers ==
    /\ IsFiniteSet(Listed(Lens)) /\ IsFiniteSet(Sending)
    /\ pool.fp + Cardinality(Listed(Lens)) + Cardinality(Sending) = msgtql

\* Who waits for a page has its queue locked, alone; who sleeps on a lock
\* sleeps on that of its queue, and it is set.
Locks ==
    /\ \A p \in Proc : stat[p] = "fault" => lock[call[p].id[1]]
    /\ \A s \in Slots : lock[s] => \E p \in Proc : stat[p] = "fault" /\ call[p].id[1] = s
    /\ \A p, r \in Proc : stat[p] = "fault" /\ stat[r] = "fault" /\ call[p].id[1] = call[r].id[1]
                            => p = r
    /\ \A p \in Proc : stat[p] = "asleep" /\ call[p].chan[1] = "lock"
                            => call[p].chan = <<"lock", call[p].id[1]>> /\ lock[call[p].id[1]]

\* The arguments of a call.
Args(c) ==
    /\ c.cmd \in {"snd", "rcv", "rmid", "set"}
    /\ c.cmd = "snd" => c.type \in MsgTypes /\ c.size \in MsgSizes
    /\ c.cmd = "rcv" => c.type \in Selects
    /\ c.cmd = "set" => c.size \in Limits

\* What holds of call c on queue q while a page is awaited.
Names(c, q) == q.alloc /\ q.seq = c.id[2]
Copies(c, q) ==
    /\ Names(c, q)
    /\ \/ c.cmd = "snd" /\ c.at = "type"
       \/ /\ c.cmd = "snd" /\ c.at = "text" /\ c.ref \in Segments
          /\ c.size > 0 /\ c.size + q.cbytes <= q.qbytes
       \/ c.cmd = "rcv" /\ c.at = "out" /\ c.ref # 0 /\ c.ref = Findmsg(q.list, c.type)
       \/ c.cmd = "set" /\ c.at = "set"

\* And while it sleeps, with the pool w.
Sleeps(c, q, w) ==
    \/ c.chan[1] = "lock"
    \/ /\ c.chan = <<"qnum", c.id[1]>> /\ c.cmd = "rcv" /\ Names(c, q)
       /\ q.rwait /\ Findmsg(q.list, c.type) = 0
    \/ /\ c.chan = <<"que", c.id[1]>> /\ c.cmd = "snd" /\ Names(c, q)
       /\ q.wwait /\ (Superuser \/ c.size + q.cbytes > q.qbytes)
    \/ c.chan = <<"msgfp", 0>> /\ c.cmd = "snd" /\ w.fp = 0
    \/ c.chan = <<"msgmap", 0>> /\ c.cmd = "snd" /\ w.want /\ Fits(w.map, Btoq(c.size)) = {}

\* What a process does, and what holds meanwhile.
ProcOK(st, c, q, w) ==
    st # "user" =>
        /\ Args(c)
        /\ st = "fault" => Copies(c, q)
        /\ st # "fault" => c.at \in {"start", "again", "eintr", "eintr_que"}
        /\ st = "asleep" => Sleeps(c, q, w)
Procs == \A p \in Proc : ProcOK(stat[p], call[p], que[call[p].id[1]], pool)

IInv == Typed /\ Counted /\ Shared /\ Headers /\ Locks /\ Procs

-----------------------------------------------------------------------------
(* Segments and headers change hands.                                      *)

\* A queue with the texts L, a sender with P and the map M go over to L2, P2
\* and M2.
Moved(L, P, M, L2, P2, M2) ==
    /\ L2 \cup P2 \cup M2 \subseteq L \cup P \cup M
    /\ L2 \cap P2 = {} /\ L2 \cap M2 = {} /\ P2 \cap M2 = {}
    /\ Ample => L \cup P \cup M \subseteq L2 \cup P2 \cup M2

\* No segment is lost or held twice when those of two holders and the map are
\* moved among them.
LEMMA SharesMoved ==
    ASSUME NEW h, NEW m \in SUBSET Segments, Shares(h, m), NEW a \in Holder, NEW b \in Holder,
           a # b, NEW g, NEW m2,
           \A x \in Holder : x # a /\ x # b => g[x] = h[x],
           Moved(h[a], h[b], m, g[a], g[b], m2)
    PROVE  Shares(g, m2)
<1>1. /\ \A x \in Holder : h[x] \subseteq Segments \ m
      /\ \A x, y \in Holder : x # y => h[x] \cap h[y] = {}
      /\ Ample => \A u \in Segments : u \in m \/ \E x \in Holder : u \in h[x]
  BY DEF Shares
<1>2. /\ g[a] \cup g[b] \cup m2 \subseteq h[a] \cup h[b] \cup m
      /\ g[a] \cap g[b] = {} /\ g[a] \cap m2 = {} /\ g[b] \cap m2 = {}
      /\ Ample => h[a] \cup h[b] \cup m \subseteq g[a] \cup g[b] \cup m2
  BY DEF Moved
<1>3. ASSUME NEW x \in Holder, x # a, x # b
      PROVE  g[x] \cap g[a] = {} /\ g[x] \cap g[b] = {} /\ g[x] \cap m2 = {}
  <2>1. g[x] = h[x] /\ h[x] \cap h[a] = {} /\ h[x] \cap h[b] = {} /\ h[x] \cap m = {}
    BY <1>1, <1>3
  <2> QED BY <1>2, <2>1
<1>4. ASSUME NEW x \in Holder
      PROVE  g[x] \subseteq Segments \ m2
  <2>1. CASE x = a
    BY <1>1, <1>2, <2>1
  <2>2. CASE x = b
    BY <1>1, <1>2, <2>2
  <2>3. CASE x # a /\ x # b
    BY <1>1, <1>3, <2>3
  <2> QED BY <2>1, <2>2, <2>3
<1>5. ASSUME NEW x \in Holder, NEW y \in Holder, x # y
      PROVE  g[x] \cap g[y] = {}
  <2>1. CASE x \in {a, b} /\ y \in {a, b}
    BY <1>2, <1>5, <2>1
  <2>2. CASE x \notin {a, b} /\ y \in {a, b}
    BY <1>3, <2>2
  <2>3. CASE x \in {a, b} /\ y \notin {a, b}
    BY <1>3, <2>3
  <2>4. CASE x \notin {a, b} /\ y \notin {a, b}
    BY <1>1, <1>5, <2>4
  <2> QED BY <2>1, <2>2, <2>3, <2>4
<1>6. ASSUME Ample, NEW u \in Segments
      PROVE  u \in m2 \/ \E x \in Holder : u \in g[x]
  <2>1. CASE u \in h[a] \cup h[b] \cup m
    BY <1>2, <1>6, <2>1
  <2>2. CASE u \notin h[a] \cup h[b] \cup m
    <3>1. PICK x \in Holder : u \in h[x]
      BY <1>1, <1>6, <2>2
    <3>2. x # a /\ x # b
      BY <2>2, <3>1
    <3> QED BY <3>1, <3>2
  <2> QED BY <2>1, <2>2
<1> QED BY <1>4, <1>5, <1>6 DEF Shares

\* Another length of one list changes the number of messages by as much.
LEMMA ListedCount ==
    ASSUME NEW L \in [Slots -> Nat], IsFiniteSet(Listed(L)), NEW s \in Slots,
           NEW M \in [Slots -> Nat], \A i \in Slots : i # s => M[i] = L[i]
    PROVE  /\ IsFiniteSet(Listed(M))
           /\ Cardinality(Listed(L)) \in Nat /\ Cardinality(Listed(M)) \in Nat
           /\ Cardinality(Listed(M)) + L[s] = Cardinality(Listed(L)) + M[s]
           /\ L[s] <= Cardinality(Listed(L))
<1> DEFINE Rest == {x \in Listed(L) : x[1] # s}
           Part(k) == {s} \X (1 .. k)
<1>1. ASSUME NEW k \in Nat
      PROVE  IsFiniteSet(Part(k)) /\ Cardinality(Part(k)) = k
  <2> DEFINE f == [i \in 1 .. k |-> <<s, i>>]
  <2>1. IsFiniteSet(1 .. k) /\ Cardinality(1 .. k) = k
    <3>1. 1 \in Int /\ k \in Int
      OBVIOUS
    <3>2. /\ IsFiniteSet(1 .. k)
          /\ Cardinality(1 .. k) = IF 1 > k THEN 0 ELSE k - 1 + 1
      BY <3>1, FS_Interval
    <3>3. (IF 1 > k THEN 0 ELSE k - 1 + 1) = k
      OBVIOUS
    <3> QED BY <3>2, <3>3
  <2>2. f \in Bijection(1 .. k, Part(k))
    <3>1. f \in [1 .. k -> Part(k)]
      OBVIOUS
    <3>2. \A i, j \in 1 .. k : f[i] = f[j] => i = j
      OBVIOUS
    <3>3. \A y \in Part(k) : \E i \in 1 .. k : f[i] = y
      OBVIOUS
    <3> QED BY <3>1, <3>2, <3>3 DEF Bijection, Injection, IsInjective, Surjection
  <2>3. ExistsBijection(1 .. k, Part(k))
    BY <2>2 DEF ExistsBijection
  <2> HIDE DEF Part
  <2> QED BY <2>1, <2>3, FS_Bijection
<1>2. IsFiniteSet(Rest) /\ Cardinality(Rest) \in Nat
  <2>1. Rest \in SUBSET Listed(L)
    OBVIOUS
  <2> HIDE DEF Rest
  <2> QED BY <2>1, FS_Subset, FS_CardinalityType
<1>3. ASSUME NEW k \in Nat
      PROVE  /\ IsFiniteSet(Rest \cup Part(k))
             /\ Cardinality(Rest \cup Part(k)) = Cardinality(Rest) + k
  <2>1. Rest \cap Part(k) = {}
    BY DEF Listed
  <2> HIDE DEF Rest, Part
  <2>2. /\ IsFiniteSet(Rest \cup Part(k))
        /\ Cardinality(Rest \cup Part(k))
             = Cardinality(Rest) + Cardinality(Part(k)) - Cardinality(Rest \cap Part(k))
    BY <1>1, <1>2, FS_Union
  <2>3. Cardinality(Rest \cap Part(k)) = 0
    BY <2>1, FS_EmptySet
  <2> QED BY <1>1, <1>2, <2>2, <2>3
<1>4. Listed(L) = Rest \cup Part(L[s])
  BY DEF Listed
<1>5. Listed(M) = Rest \cup Part(M[s])
  BY DEF Listed
<1>6. L[s] \in Nat /\ M[s] \in Nat
  OBVIOUS
<1> HIDE DEF Rest, Part
<1>7. Cardinality(Listed(L)) = Cardinality(Rest) + L[s]
  BY <1>3, <1>4, <1>6
<1>8. IsFiniteSet(Listed(M)) /\ Cardinality(Listed(M)) = Cardinality(Rest) + M[s]
  BY <1>3, <1>5, <1>6
<1> QED BY <1>2, <1>6, <1>7, <1>8

\* A process begins or ends to send, or does neither.
LEMMA SendingCount ==
    ASSUME IsFiniteSet(Sending), NEW p \in Proc,
           \A r \in Proc : r # p => (Sends(stat'[r], call'[r]) <=> Sends(stat[r], call[r]))
    PROVE  /\ IsFiniteSet(Sending')
           /\ Cardinality(Sending) \in Nat /\ Cardinality(Sending') \in Nat
           /\ Cardinality(Sending') + SentHeader(stat[p], call[p])
                = Cardinality(Sending) + SentHeader(stat'[p], call'[p])
<1> DEFINE Rest == Sending \ {p}
<1>1. /\ Sending = {r \in Proc : Sends(stat[r], call[r])}
      /\ Sending' = {r \in Proc : Sends(stat'[r], call'[r])}
  BY DEF Sending, Sends
<1>2. IsFiniteSet(Rest) /\ Cardinality(Rest) \in Nat
  BY FS_RemoveElement, FS_CardinalityType
<1>3. Sending = IF Sends(stat[p], call[p]) THEN Rest \cup {p} ELSE Rest
  BY <1>1
<1>4. Sending' = IF Sends(stat'[p], call'[p]) THEN Rest \cup {p} ELSE Rest
  BY <1>1
<1>5. p \notin Rest
  OBVIOUS
<1> HIDE DEF Rest
<1>6. IsFiniteSet(Rest \cup {p}) /\ Cardinality(Rest \cup {p}) = Cardinality(Rest) + 1
  BY <1>2, <1>5, FS_AddElement
<1>7. Cardinality(Sending) = Cardinality(Rest) + SentHeader(stat[p], call[p])
  BY <1>2, <1>3, <1>6 DEF SentHeader
<1>8. /\ IsFiniteSet(Sending')
      /\ Cardinality(Sending') = Cardinality(Rest) + SentHeader(stat'[p], call'[p])
  BY <1>2, <1>4, <1>6 DEF SentHeader
<1>9. SentHeader(stat[p], call[p]) \in {0, 1} /\ SentHeader(stat'[p], call'[p]) \in {0, 1}
  BY DEF SentHeader
<1> QED BY <1>2, <1>7, <1>8, <1>9

-----------------------------------------------------------------------------
(* A run of p on queue s ends.                                             *)

\* No other process waits for a page of a call on s, and p for no page of
\* a call on another queue.
Ready(p, s) ==
    /\ \A r \in Proc : r # p /\ stat[r] = "fault" => call[r].id[1] # s
    /\ stat[p] = "fault" => call[p].id[1] = s

\* Out, Wait and Fault are of this form.
Settles(p, s, C, st, d) ==
    /\ lock' = [lock EXCEPT ![s] = (st = "fault")]
    /\ stat' = [Woken(C \cup {<<"lock", s>>}) EXCEPT ![p] = st]
    /\ call' = [call EXCEPT ![p] = d]

\* Whom a change of a queue, or of the pool, could let go on is in C.
QueSteady(q, v, C, s) ==
    /\ q.alloc /\ q.rwait =>
         \/ <<"qnum", s>> \in C
         \/ /\ v.alloc /\ v.seq = q.seq /\ v.rwait
            /\ \A t \in Int : Findmsg(q.list, t) = 0 => Findmsg(v.list, t) = 0
    /\ q.alloc /\ q.wwait =>
         \/ <<"que", s>> \in C
         \/ /\ v.alloc /\ v.seq = q.seq /\ v.wwait
            /\ v.cbytes >= q.cbytes /\ (Superuser \/ v.qbytes <= q.qbytes)
PoolSteady(w, v, C) ==
    /\ w.fp = 0 => <<"msgfp", 0>> \in C \/ v.fp = 0
    /\ w.want => <<"msgmap", 0>> \in C \/ (v.want /\ v.map \subseteq w.map)

\* What each process does after the run.
LEMMA SettledStat ==
    ASSUME Typed, NEW p \in Proc, NEW s \in Slots, NEW C, NEW st, NEW d,
           Settles(p, s, C, st, d)
    PROVE  /\ stat'[p] = st /\ call'[p] = d
           /\ lock'[s] = (st = "fault") /\ \A i \in Slots : i # s => lock'[i] = lock[i]
           /\ \A r \in Proc : r # p =>
                /\ call'[r] = call[r]
                /\ stat'[r] = IF /\ stat[r] = "asleep"
                                 /\ call[r].chan \in C \/ call[r].chan = <<"lock", s>>
                              THEN "run" ELSE stat[r]
<1>1. /\ lock \in [Slots -> BOOLEAN] /\ stat \in [Proc -> Doing] /\ call \in [Proc -> CallT]
  BY DEF Typed
<1> DEFINE W == Woken(C \cup {<<"lock", s>>})
<1>2. /\ lock' = [lock EXCEPT ![s] = (st = "fault")] /\ stat' = [W EXCEPT ![p] = st]
      /\ call' = [call EXCEPT ![p] = d]
  BY DEF Settles
<1>3. W = [r \in Proc |-> IF /\ stat[r] = "asleep"
                             /\ call[r].chan \in C \/ call[r].chan = <<"lock", s>>
                          THEN "run" ELSE stat[r]]
  BY DEF Woken
<1> HIDE DEF W
<1>4. stat'[p] = st /\ \A r \in Proc : r # p => stat'[r] = W[r]
  BY <1>2, <1>3
<1>5. call'[p] = d /\ \A r \in Proc : r # p => call'[r] = call[r]
  BY <1>1, <1>2
<1>6. lock'[s] = (st = "fault") /\ \A i \in Slots : i # s => lock'[i] = lock[i]
  BY <1>1, <1>2
<1> QED BY <1>3, <1>4, <1>5, <1>6

\* The variables keep their types.
LEMMA SettledTyped ==
    ASSUME Typed, NEW p \in Proc, NEW s \in Slots, NEW C, NEW st \in Doing, NEW d \in CallT,
           Settles(p, s, C, st, d), NEW q \in QueT, que' = [que EXCEPT ![s] = q], pool' \in PoolT
    PROVE  Typed'
<1>1. /\ que \in [Slots -> QueT] /\ lock \in [Slots -> BOOLEAN] /\ stat \in [Proc -> Doing]
      /\ call \in [Proc -> CallT]
  BY DEF Typed
<1>2. que' \in [Slots -> QueT]
  BY <1>1
<1>3. lock' \in [Slots -> BOOLEAN] /\ call' \in [Proc -> CallT]
  BY <1>1 DEF Settles
<1>4. Woken(C \cup {<<"lock", s>>}) \in [Proc -> Doing]
  BY <1>1 DEF Woken, Doing
<1>5. stat' \in [Proc -> Doing]
  BY <1>4 DEF Settles
<1> QED BY <1>2, <1>3, <1>5 DEF Typed

\* The lock of s is free, or p's; its sleepers are awake.
LEMMA SettledLocks ==
    ASSUME Typed, Locks, NEW p \in Proc, NEW s \in Slots, Ready(p, s), NEW C,
           NEW st \in {"user", "asleep", "fault"}, NEW d, Settles(p, s, C, st, d),
           st # "user" => d.id[1] = s, st = "asleep" => d.chan[1] # "lock"
    PROVE  Locks'
<1>1. /\ \A r \in Proc : stat[r] = "fault" => lock[call[r].id[1]]
      /\ \A i \in Slots : lock[i] => \E r \in Proc : stat[r] = "fault" /\ call[r].id[1] = i
      /\ \A r, v \in Proc : stat[r] = "fault" /\ stat[v] = "fault"
                              /\ call[r].id[1] = call[v].id[1] => r = v
      /\ \A r \in Proc : stat[r] = "asleep" /\ call[r].chan[1] = "lock"
                            => call[r].chan = <<"lock", call[r].id[1]>> /\ lock[call[r].id[1]]
  BY DEF Locks
<1>2. /\ stat'[p] = st /\ call'[p] = d
      /\ lock'[s] = (st = "fault") /\ \A i \in Slots : i # s => lock'[i] = lock[i]
      /\ \A r \in Proc : r # p =>
           /\ call'[r] = call[r]
           /\ stat'[r] = IF /\ stat[r] = "asleep"
                            /\ call[r].chan \in C \/ call[r].chan = <<"lock", s>>
                         THEN "run" ELSE stat[r]
  BY SettledStat
<1>3. /\ \A r \in Proc : r # p /\ stat[r] = "fault" => call[r].id[1] # s
      /\ stat[p] = "fault" => call[p].id[1] = s
  BY DEF Ready
<1>4. \A r \in Proc : call[r].id[1] \in Slots
  BY DEF Typed, CallT, Id
<1>5. \A r \in Proc : r # p /\ stat'[r] = "fault" => stat[r] = "fault"
  BY <1>2
<1>6. ASSUME NEW r \in Proc, stat'[r] = "fault"
      PROVE  lock'[call'[r].id[1]]
  <2>1. CASE r = p
    BY <1>2, <1>6, <2>1
  <2>2. CASE r # p
    BY <1>1, <1>2, <1>3, <1>4, <1>5, <1>6, <2>2
  <2> QED BY <2>1, <2>2
<1>7. ASSUME NEW i \in Slots, lock'[i]
      PROVE  \E r \in Proc : stat'[r] = "fault" /\ call'[r].id[1] = i
  <2>1. CASE i = s
    BY <1>2, <1>7, <2>1
  <2>2. CASE i # s
    <3>1. PICK r \in Proc : stat[r] = "fault" /\ call[r].id[1] = i
      BY <1>1, <1>2, <1>7, <2>2
    <3>2. r # p
      BY <1>3, <2>2, <3>1
    <3> QED BY <1>2, <3>1, <3>2
  <2> QED BY <2>1, <2>2
<1>8. ASSUME NEW r \in Proc, NEW v \in Proc, stat'[r] = "fault", stat'[v] = "fault",
             call'[r].id[1] = call'[v].id[1]
      PROVE  r = v
  <2>1. CASE r # p /\ v # p
    BY <1>1, <1>2, <1>5, <1>8, <2>1
  <2>2. CASE r = p /\ v # p
    BY <1>2, <1>3, <1>5, <1>8, <2>2
  <2>3. CASE r # p /\ v = p
    BY <1>2, <1>3, <1>5, <1>8, <2>3
  <2> QED BY <2>1, <2>2, <2>3
<1>9. ASSUME NEW r \in Proc, stat'[r] = "asleep", call'[r].chan[1] = "lock"
      PROVE  call'[r].chan = <<"lock", call'[r].id[1]>> /\ lock'[call'[r].id[1]]
  <2>1. r # p
    BY <1>2, <1>9
  <2>2. stat[r] = "asleep" /\ call'[r] = call[r] /\ call[r].chan # <<"lock", s>>
    BY <1>2, <1>9, <2>1
  <2>3. call[r].chan = <<"lock", call[r].id[1]>> /\ lock[call[r].id[1]] /\ call[r].id[1] # s
    BY <1>1, <1>9, <2>2
  <2> QED BY <1>2, <1>4, <2>2, <2>3
<1> QED BY <1>6, <1>7, <1>8, <1>9 DEF Locks

\* With fewer free segments, less fits.
LEMMA FitsLess ==
    ASSUME NEW m, NEW k, k \subseteq m, NEW n, Fits(m, n) = {}
    PROVE  Fits(k, n) = {}
BY DEF Fits

\* What holds of the others goes on to hold: they wait for a page on another
\* queue, sleep for the same lack, or have been woken.
LEMMA OthersKept ==
    ASSUME Typed, Procs, NEW p \in Proc, NEW s \in Slots, Ready(p, s), NEW C, NEW st, NEW d,
           Settles(p, s, C, st, d), NEW q \in QueT, que' = [que EXCEPT ![s] = q],
           QueSteady(que[s], q, C, s), PoolSteady(pool, pool', C), NEW r \in Proc, r # p
    PROVE  ProcOK(stat'[r], call'[r], que'[call'[r].id[1]], pool')
<1> DEFINE c == call[r]
           i == call[r].id[1]
<1>1. que \in [Slots -> QueT] /\ c \in CallT /\ stat[r] \in Doing
  BY DEF Typed
<1>2. i \in Slots /\ c.size \in Nat /\ c.type \in Int
  BY <1>1 DEF CallT, Id
<1>3. /\ call'[r] = c
      /\ stat'[r] = IF stat[r] = "asleep" /\ (c.chan \in C \/ c.chan = <<"lock", s>>)
                    THEN "run" ELSE stat[r]
  BY SettledStat
<1>4. que'[i] = IF i = s THEN q ELSE que[i]
  BY <1>1, <1>2
<1>5. ProcOK(stat[r], c, que[i], pool)
  BY DEF Procs
<1> HIDE DEF c, i
<1>6. SUFFICES ProcOK(stat'[r], c, que'[i], pool')
  BY <1>3 DEF c, i
<1>7. CASE stat[r] \in {"user", "run", "intr"}
  BY <1>3, <1>5, <1>7 DEF ProcOK
<1>8. CASE stat[r] = "fault"
  <2>1. i # s
    BY <1>8 DEF Ready, i
  <2> QED BY <1>3, <1>4, <1>5, <1>8, <2>1 DEF ProcOK
<1>9. CASE stat[r] = "asleep"
  <2>1. Args(c) /\ c.at \in {"start", "again", "eintr", "eintr_que"} /\ Sleeps(c, que[i], pool)
    BY <1>5, <1>9 DEF ProcOK
  <2>2. CASE c.chan \in C \/ c.chan = <<"lock", s>>
    BY <1>3, <1>9, <2>1, <2>2 DEF ProcOK
  <2>3. CASE ~(c.chan \in C \/ c.chan = <<"lock", s>>)
    <3>1. SUFFICES Sleeps(c, que'[i], pool')
      BY <1>3, <1>9, <2>1, <2>3 DEF ProcOK
    <3>2. CASE c.chan[1] = "lock"
      BY <3>2 DEF Sleeps
    <3>3. CASE /\ c.chan = <<"qnum", c.id[1]>> /\ c.cmd = "rcv" /\ Names(c, que[i])
               /\ que[i].rwait /\ Findmsg(que[i].list, c.type) = 0
      <4>1. CASE i = s
        <5>1. que[s].alloc /\ que[s].rwait /\ c.chan = <<"qnum", s>>
          BY <3>3, <4>1 DEF Names, i, c
        <5>2. /\ q.alloc /\ q.seq = que[s].seq /\ q.rwait
              /\ Findmsg(que[s].list, c.type) = 0 => Findmsg(q.list, c.type) = 0
          BY <1>2, <2>3, <5>1 DEF QueSteady
        <5> QED BY <1>4, <3>3, <4>1, <5>2 DEF Sleeps, Names
      <4>2. CASE i # s
        BY <1>4, <3>3, <4>2 DEF Sleeps
      <4> QED BY <4>1, <4>2
    <3>4. CASE /\ c.chan = <<"que", c.id[1]>> /\ c.cmd = "snd" /\ Names(c, que[i])
               /\ que[i].wwait /\ (Superuser \/ c.size + que[i].cbytes > que[i].qbytes)
      <4>1. CASE i = s
        <5>1. que[s].alloc /\ que[s].wwait /\ c.chan = <<"que", s>>
          BY <3>4, <4>1 DEF Names, i, c
        <5>2. /\ q.alloc /\ q.seq = que[s].seq /\ q.wwait
              /\ q.cbytes >= que[s].cbytes /\ (Superuser \/ q.qbytes <= que[s].qbytes)
          BY <2>3, <5>1 DEF QueSteady
        <5>3. /\ q.cbytes \in Nat /\ q.qbytes \in Nat
              /\ que[s].cbytes \in Nat /\ que[s].qbytes \in Nat
          BY <1>1 DEF QueT
        <5>4. Superuser \/ c.size + q.cbytes > q.qbytes
          BY <1>2, <3>4, <4>1, <5>2, <5>3
        <5>5. Names(c, q)
          BY <3>4, <4>1, <5>2 DEF Names
        <5> QED BY <1>4, <3>4, <4>1, <5>2, <5>4, <5>5 DEF Sleeps
      <4>2. CASE i # s
        BY <1>4, <3>4, <4>2 DEF Sleeps
      <4> QED BY <4>1, <4>2
    <3>5. CASE c.chan = <<"msgfp", 0>> /\ c.cmd = "snd" /\ pool.fp = 0
      BY <2>3, <3>5 DEF Sleeps, PoolSteady
    <3>6. CASE /\ c.chan = <<"msgmap", 0>> /\ c.cmd = "snd" /\ pool.want
               /\ Fits(pool.map, Btoq(c.size)) = {}
      <4>1. pool'.want /\ pool'.map \subseteq pool.map
        BY <2>3, <3>6 DEF PoolSteady
      <4>2. Fits(pool'.map, Btoq(c.size)) = {}
        BY <3>6, <4>1, FitsLess
      <4> QED BY <3>6, <4>1, <4>2 DEF Sleeps
    <3> QED BY <2>1, <3>2, <3>3, <3>4, <3>5, <3>6 DEF Sleeps
  <2> QED BY <2>2, <2>3
<1> QED BY <1>1, <1>7, <1>8, <1>9 DEF Doing

\* A process that is not the one that ran sends, or not, as before.
LEMMA SettledSenders ==
    ASSUME Typed, NEW p \in Proc, NEW s \in Slots, NEW C, NEW st, NEW d,
           Settles(p, s, C, st, d), NEW r \in Proc, r # p
    PROVE  /\ Sends(stat'[r], call'[r]) <=> Sends(stat[r], call[r])
           /\ SentText(stat'[r], call'[r]) = SentText(stat[r], call[r])
<1>1. /\ call'[r] = call[r]
      /\ stat'[r] = "fault" <=> stat[r] = "fault"
  BY SettledStat
<1> QED BY <1>1 DEF Sends, SentText

\* The segments after the run.
LEMMA SettledShared ==
    ASSUME Typed, Shared, NEW p \in Proc, NEW s \in Slots, NEW C, NEW st, NEW d,
           Settles(p, s, C, st, d), NEW q \in QueT, que' = [que EXCEPT ![s] = q], Apart(q.list),
           Moved(TextsOf(que[s].list), SentText(stat[p], call[p]), pool.map,
                 TextsOf(q.list), SentText(st, d), pool'.map)
    PROVE  Shared'
<1> DEFINE a == <<"que", s>>
           b == <<"snd", p>>
           h == Held
           g == Held'
<1>1. que \in [Slots -> QueT] /\ pool.map \in SUBSET Segments
  BY DEF Typed, PoolT
<1>2. \A i \in Slots : que'[i] = IF i = s THEN q ELSE que[i]
  BY <1>1
<1>3. a \in Holder /\ b \in Holder /\ a # b
  BY DEF Holder
<1>4. stat'[p] = st /\ call'[p] = d
  BY SettledStat
<1>5. h[a] = TextsOf(que[s].list) /\ h[b] = SentText(stat[p], call[p])
  BY <1>3 DEF Held
<1>6. g[a] = TextsOf(q.list) /\ g[b] = SentText(st, d)
  BY <1>2, <1>3, <1>4 DEF Held
<1>7. ASSUME NEW x \in Holder, x # a, x # b
      PROVE  g[x] = h[x]
  <2>1. CASE x \in {"que"} \X Slots
    <3>1. x[1] = "que" /\ x[2] \in Slots /\ x[2] # s
      BY <1>7, <2>1
    <3>2. que'[x[2]] = que[x[2]]
      BY <1>2, <3>1
    <3> QED BY <3>1, <3>2 DEF Held
  <2>2. CASE x \in {"snd"} \X Proc
    <3>1. x[1] # "que" /\ x[2] \in Proc /\ x[2] # p
      BY <1>7, <2>2
    <3>2. SentText(stat'[x[2]], call'[x[2]]) = SentText(stat[x[2]], call[x[2]])
      BY <3>1, SettledSenders
    <3> QED BY <3>1, <3>2 DEF Held
  <2> QED BY <2>1, <2>2 DEF Holder
<1>8. Shares(h, pool.map)
  BY DEF Shared
<1> HIDE DEF a, b, h, g
<1>9. Moved(h[a], h[b], pool.map, g[a], g[b], pool'.map)
  BY <1>5, <1>6
<1>10. Shares(g, pool'.map)
  BY <1>1, <1>3, <1>7, <1>8, <1>9, SharesMoved
<1>11. \A i \in Slots : Apart(que'[i].list)
  BY <1>2 DEF Shared
<1> QED BY <1>10, <1>11 DEF Shared, g

\* The headers after the run.
LEMMA SettledHeaders ==
    ASSUME Typed, Headers, NEW p \in Proc, NEW s \in Slots, NEW C, NEW st, NEW d,
           Settles(p, s, C, st, d), NEW q \in QueT, que' = [que EXCEPT ![s] = q],
           pool' \in PoolT,
           pool'.fp + Len(q.list) + SentHeader(st, d)
             = pool.fp + Len(que[s].list) + SentHeader(stat[p], call[p])
    PROVE  Headers'
<1>1. que \in [Slots -> QueT] /\ pool.fp \in Nat /\ pool'.fp \in Nat
  BY DEF Typed, PoolT
<1>2. \A i \in Slots : que'[i] = IF i = s THEN q ELSE que[i]
  BY <1>1
<1>3. Len(q.list) \in Nat /\ \A i \in Slots : Len(que[i].list) \in Nat
  BY <1>1 DEF QueT
<1> DEFINE L == Lens
           M == Lens'
<1>4. L = [i \in Slots |-> Len(que[i].list)] /\ M = [i \in Slots |-> Len(que'[i].list)]
  BY DEF Lens
<1> HIDE DEF L, M
<1>5. /\ L \in [Slots -> Nat] /\ L[s] = Len(que[s].list)
      /\ M \in [Slots -> Nat] /\ M[s] = Len(q.list) /\ \A i \in Slots : i # s => M[i] = L[i]
  BY <1>2, <1>3, <1>4
<1>6. /\ IsFiniteSet(Listed(L)) /\ IsFiniteSet(Sending)
      /\ pool.fp + Cardinality(Listed(L)) + Cardinality(Sending) = msgtql
  BY DEF Headers, L
<1>7. /\ IsFiniteSet(Listed(M))
      /\ Cardinality(Listed(L)) \in Nat /\ Cardinality(Listed(M)) \in Nat
      /\ Cardinality(Listed(M)) + L[s] = Cardinality(Listed(L)) + M[s]
  BY <1>5, <1>6, ListedCount
<1>8. stat'[p] = st /\ call'[p] = d
  BY SettledStat
<1>9. \A r \in Proc : r # p => (Sends(stat'[r], call'[r]) <=> Sends(stat[r], call[r]))
  BY SettledSenders
<1>10. /\ IsFiniteSet(Sending')
       /\ Cardinality(Sending) \in Nat /\ Cardinality(Sending') \in Nat
       /\ Cardinality(Sending') + SentHeader(stat[p], call[p])
            = Cardinality(Sending) + SentHeader(st, d)
  BY <1>6, <1>8, <1>9, SendingCount
<1>11. SentHeader(stat[p], call[p]) \in Nat /\ SentHeader(st, d) \in Nat
  BY DEF SentHeader
<1>12. pool'.fp + Cardinality(Listed(M)) + Cardinality(Sending') = msgtql
  <2>1. PICK f \in Nat, f2 \in Nat : f = pool.fp /\ f2 = pool'.fp
    BY <1>1
  <2>2. PICK a \in Nat, a2 \in Nat : a = Cardinality(Listed(L)) /\ a2 = Cardinality(Listed(M))
    BY <1>7
  <2>3. PICK b \in Nat, b2 \in Nat : b = Cardinality(Sending) /\ b2 = Cardinality(Sending')
    BY <1>10
  <2>4. PICK n \in Nat, n2 \in Nat : n = L[s] /\ n2 = M[s]
    BY <1>5
  <2>5. PICK k \in Nat, k2 \in Nat : k = SentHeader(stat[p], call[p]) /\ k2 = SentHeader(st, d)
    BY <1>11
  <2>6. f2 + n2 + k2 = f + n + k
    BY <1>5, <2>1, <2>4, <2>5
  <2>7. a2 + n = a + n2
    BY <1>7, <2>2, <2>4
  <2>8. b2 + k = b + k2
    BY <1>10, <2>3, <2>5
  <2>9. f + a + b = msgtql
    BY <1>6, <2>1, <2>2, <2>3
  <2>10. f2 + a2 + b2 = f + a + b
    BY <2>6, <2>7, <2>8
  <2> QED BY <2>1, <2>2, <2>3, <2>9, <2>10
<1>13. Listed(Lens)' = Listed(M)
  BY DEF Listed, M
<1> QED BY <1>7, <1>10, <1>12, <1>13 DEF Headers

\* The invariant holds after a run that leaves queue s as q, when what it
\* moves is moved among queue, caller and pool.
LEMMA SettledInvariant ==
    ASSUME IInv, NEW p \in Proc, NEW s \in Slots, Ready(p, s), NEW C,
           NEW st \in {"user", "asleep", "fault"}, NEW d \in CallT, Settles(p, s, C, st, d),
           st # "user" => d.id[1] = s, st = "asleep" => d.chan[1] # "lock",
           NEW q \in QueT, que' = [que EXCEPT ![s] = q], pool' \in PoolT,
           QueOK(q), Apart(q.list), QueSteady(que[s], q, C, s), PoolSteady(pool, pool', C),
           ProcOK(st, d, q, pool'),
           Moved(TextsOf(que[s].list), SentText(stat[p], call[p]), pool.map,
                 TextsOf(q.list), SentText(st, d), pool'.map),
           pool'.fp + Len(q.list) + SentHeader(st, d)
             = pool.fp + Len(que[s].list) + SentHeader(stat[p], call[p])
    PROVE  IInv'
<1>1. Typed /\ Counted /\ Shared /\ Headers /\ Locks /\ Procs
  BY DEF IInv
<1>2. st \in Doing
  BY DEF Doing
<1>3. Typed'
  BY <1>1, <1>2, SettledTyped
<1>4. que \in [Slots -> QueT]
  BY <1>1 DEF Typed
<1>5. \A i \in Slots : que'[i] = IF i = s THEN q ELSE que[i]
  BY <1>4
<1>6. Counted'
  BY <1>1, <1>5 DEF Counted
<1>7. Shared'
  BY <1>1, SettledShared
<1>8. Headers'
  BY <1>1, SettledHeaders
<1>9. Locks'
  BY <1>1, SettledLocks
<1>10. Procs'
  <2>1. stat'[p] = st /\ call'[p] = d
    BY <1>1, SettledStat
  <2>2. ProcOK(stat'[p], call'[p], que'[call'[p].id[1]], pool')
    <3>1. CASE st = "user"
      BY <2>1, <3>1 DEF ProcOK
    <3>2. CASE st # "user"
      BY <1>5, <2>1, <3>2
    <3> QED BY <3>1, <3>2
  <2>3. \A r \in Proc : r # p => ProcOK(stat'[r], call'[r], que'[call'[r].id[1]], pool')
    BY <1>1, OthersKept
  <2> QED BY <2>2, <2>3 DEF Procs
<1> QED BY <1>3, <1>6, <1>7, <1>8, <1>9, <1>10 DEF IInv

-----------------------------------------------------------------------------
(* Runs that move no message, header or segment.                           *)

\* p runs with call c on a queue that nobody else has locked.
Running(p, c) == c \in CallT /\ Args(c) /\ Ready(p, c.id[1]) /\ ~Sends(stat[p], call[p])

\* What is known of a queue and of the pool.
LEMMA Here ==
    ASSUME IInv, NEW s \in Slots
    PROVE  /\ que \in [Slots -> QueT] /\ que[s] \in QueT /\ QueOK(que[s])
           /\ pool \in PoolT /\ pool.fp \in Nat /\ pool.map \in SUBSET Segments
           /\ pool.want \in BOOLEAN
           /\ Apart(que[s].list) /\ que[s].list \in Seq(Message)
           /\ TextsOf(que[s].list) \subseteq Segments
           /\ TextsOf(que[s].list) \cap pool.map = {}
<1>1. que \in [Slots -> QueT] /\ pool \in PoolT
  BY DEF IInv, Typed
<1>2. que[s] \in QueT /\ QueOK(que[s]) /\ Apart(que[s].list)
  BY <1>1 DEF IInv, Counted, Shared
<1>3. <<"que", s>> \in Holder /\ Held[<<"que", s>>] = TextsOf(que[s].list)
  BY DEF Held, Holder
<1>4. TextsOf(que[s].list) \subseteq Segments \ pool.map
  BY <1>3 DEF IInv, Shared, Shares
<1>5. pool.fp \in Nat /\ pool.map \in SUBSET Segments /\ pool.want \in BOOLEAN
  BY <1>1 DEF PoolT
<1>6. que[s].list \in Seq(Message)
  BY <1>2 DEF QueT
<1> QED BY <1>1, <1>2, <1>4, <1>5, <1>6

\* A call's slot and arguments.
LEMMA CallIs ==
    ASSUME NEW c \in CallT
    PROVE  /\ c.id \in Id /\ c.id[1] \in Slots /\ c.type \in Int /\ c.size \in Nat
           /\ c.nowait \in BOOLEAN /\ c.ref \in Nat
<1>1. c.id \in Id
  BY DEF CallT
<1> QED BY <1>1 DEF CallT, Id

\* Nothing is moved.
LEMMA QuietInvariant ==
    ASSUME IInv, NEW p \in Proc, NEW c, Running(p, c), NEW s, s = c.id[1], NEW C,
           NEW st \in {"user", "asleep", "fault"}, NEW d \in CallT, Settles(p, s, C, st, d),
           ~Sends(st, d), st # "user" => d.id[1] = s, st = "asleep" => d.chan[1] # "lock",
           NEW q \in QueT, que' = [que EXCEPT ![s] = q],
           q.list = que[s].list, q.qnum = que[s].qnum, q.cbytes = que[s].cbytes,
           q.alloc = que[s].alloc,
           pool' \in PoolT, pool'.fp = pool.fp, pool'.map = pool.map,
           QueSteady(que[s], q, C, s), PoolSteady(pool, pool', C), ProcOK(st, d, q, pool')
    PROVE  IInv'
<1>1. s \in Slots /\ Ready(p, s)
  BY CallIs DEF Running
<1>2. /\ QueOK(que[s]) /\ Apart(que[s].list) /\ TextsOf(que[s].list) \cap pool.map = {}
      /\ pool.fp \in Nat /\ Len(que[s].list) \in Nat
  BY <1>1, Here
<1>3. QueOK(q) /\ Apart(q.list)
  BY <1>2 DEF QueOK
<1>4. /\ SentText(stat[p], call[p]) = {} /\ SentHeader(stat[p], call[p]) = 0
      /\ SentText(st, d) = {} /\ SentHeader(st, d) = 0
  BY DEF Running, SentText, SentHeader
<1>5. Moved(TextsOf(que[s].list), SentText(stat[p], call[p]), pool.map,
            TextsOf(q.list), SentText(st, d), pool'.map)
  <2> DEFINE L == TextsOf(que[s].list)
             M == pool.map
  <2>1. L \cap M = {}
    BY <1>2
  <2> HIDE DEF L, M
  <2>2. Moved(L, {}, M, L, {}, M)
    BY <2>1 DEF Moved
  <2> QED BY <1>4, <2>2 DEF L, M
<1>6. pool'.fp + Len(q.list) + SentHeader(st, d)
        = pool.fp + Len(que[s].list) + SentHeader(stat[p], call[p])
  BY <1>4
<1> QED BY <1>1, <1>3, <1>5, <1>6, SettledInvariant

\* A change of nothing steadies all.
LEMMA SteadySame ==
    ASSUME NEW q \in QueT, NEW w, NEW C, NEW s
    PROVE  QueSteady(q, q, C, s) /\ PoolSteady(w, w, C)
<1>1. q.cbytes \in Nat /\ q.qbytes \in Nat
  BY DEF QueT
<1> QED BY <1>1 DEF QueSteady, PoolSteady

\* The call of a process in user mode.
LEMMA IdleCall == Idle \in CallT
<1>1. 0 \in Slots /\ 0 \in 0 .. MaxSeq
  BY MsgSpaceAssumption DEF Slots
<1>2. <<0, 0>> \in Id /\ <<"msgfp", 0>> \in Chan
  BY <1>1 DEF Id, Chan
<1> QED BY <1>2 DEF Idle, CallT

\* The ends of a run as runs that settle.
LEMMA EndsSettle ==
    ASSUME NEW p, NEW c \in CallT, NEW C
    PROVE  /\ Out(p, c, C) => Settles(p, c.id[1], C, "user", Idle)
           /\ \A at, ch : Wait(p, c, at, ch, C)
                => Settles(p, c.id[1], C, "asleep", [c EXCEPT !.at = at, !.chan = ch])
           /\ \A at, ref : Fault(p, c, at, ref)
                => Settles(p, c.id[1], {}, "fault", [c EXCEPT !.at = at, !.ref = ref])
<1>1. ("user" = "fault") = FALSE /\ ("asleep" = "fault") = FALSE /\ ("fault" = "fault") = TRUE
  OBVIOUS
<1>2. {} \cup {<<"lock", c.id[1]>>} = {<<"lock", c.id[1]>>}
  OBVIOUS
<1> QED BY <1>1, <1>2 DEF Out, Wait, Fault, Unlock, Settles

\* p returns and nothing changes.
LEMMA OutInvariant ==
    ASSUME IInv, NEW p \in Proc, NEW c, Running(p, c), NEW C, Out(p, c, C),
           UNCHANGED <<que, pool>>
    PROVE  IInv'
<1> DEFINE s == c.id[1]
<1>1. c \in CallT /\ s \in Slots
  BY CallIs DEF Running
<1>2. Settles(p, s, C, "user", Idle)
  BY <1>1, EndsSettle
<1>3. que \in [Slots -> QueT] /\ que[s] \in QueT /\ pool \in PoolT
  BY <1>1, Here
<1>4. que' = [que EXCEPT ![s] = que[s]] /\ pool' = pool
  BY <1>1, <1>3
<1>5. QueSteady(que[s], que[s], C, s) /\ PoolSteady(pool, pool', C)
  BY <1>3, <1>4, SteadySame
<1>6. ProcOK("user", Idle, que[s], pool') /\ ~Sends("user", Idle)
  BY DEF ProcOK, Sends
<1> HIDE DEF s
<1> QED BY <1>2, <1>3, <1>4, <1>5, <1>6, IdleCall, QuietInvariant DEF s

\* The call that has gone to sleep on ch.
Asking(c, ch) == [c EXCEPT !.at = "again", !.chan = ch]

\* p returns, or sleeps for what it lacks; the queue is then q.
LEMMA OutOrWaitInvariant ==
    ASSUME IInv, NEW p \in Proc, NEW c, Running(p, c), NEW s, s = c.id[1], NEW C,
           NEW ch \in Chan, ch[1] # "lock", OutOrWait(p, c, ch, C),
           NEW q \in QueT, que' = [que EXCEPT ![s] = q],
           q.list = que[s].list, q.qnum = que[s].qnum, q.cbytes = que[s].cbytes,
           q.alloc = que[s].alloc,
           pool' \in PoolT, pool'.fp = pool.fp, pool'.map = pool.map,
           QueSteady(que[s], q, C, s), PoolSteady(pool, pool', C),
           ~c.nowait => Sleeps(Asking(c, ch), q, pool')
    PROVE  IInv'
<1>1. c \in CallT /\ Args(c)
  BY DEF Running
<1>2. CASE c.nowait
  <2>1. Settles(p, s, C, "user", Idle)
    BY <1>1, <1>2, EndsSettle DEF OutOrWait
  <2>2. ProcOK("user", Idle, q, pool') /\ ~Sends("user", Idle)
    BY DEF ProcOK, Sends
  <2> QED BY <2>1, <2>2, IdleCall, QuietInvariant
<1>3. CASE ~c.nowait
  <2> DEFINE d == Asking(c, ch)
  <2>1. Settles(p, s, C, "asleep", d)
    BY <1>1, <1>3, EndsSettle DEF OutOrWait, Asking
  <2>2. /\ d \in CallT /\ d.id = c.id /\ d.chan = ch /\ d.at = "again"
        /\ d.cmd = c.cmd /\ d.type = c.type /\ d.size = c.size
    BY <1>1 DEF CallT, Asking
  <2>3. Sleeps(d, q, pool')
    BY <1>3
  <2> HIDE DEF d
  <2>4. Args(d)
    BY <1>1, <2>2 DEF Args
  <2>5. ProcOK("asleep", d, q, pool') /\ ~Sends("asleep", d)
    BY <2>2, <2>3, <2>4 DEF ProcOK, Sends
  <2>6. d.id[1] = s /\ d.chan[1] # "lock"
    BY <2>2
  <2> QED BY <2>1, <2>2, <2>5, <2>6, QuietInvariant
<1> QED BY <1>2, <1>3

\* p waits for a page, and nothing but the lock changes.
LEMMA FaultInvariant ==
    ASSUME IInv, NEW p \in Proc, NEW c, Running(p, c), NEW s, s = c.id[1],
           NEW at \in {"type", "out", "set"}, NEW ref \in Nat, Fault(p, c, at, ref),
           Copies([c EXCEPT !.at = at, !.ref = ref], que[s]), UNCHANGED <<que, pool>>
    PROVE  IInv'
<1> DEFINE d == [c EXCEPT !.at = at, !.ref = ref]
<1>1. c \in CallT /\ s \in Slots /\ Args(c)
  BY CallIs DEF Running
<1>2. Settles(p, s, {}, "fault", d)
  BY <1>1, EndsSettle
<1>3. que \in [Slots -> QueT] /\ que[s] \in QueT /\ pool \in PoolT
  BY <1>1, Here
<1>4. que' = [que EXCEPT ![s] = que[s]] /\ pool' = pool
  BY <1>1, <1>3
<1>5. QueSteady(que[s], que[s], {}, s) /\ PoolSteady(pool, pool', {})
  BY <1>3, <1>4, SteadySame
<1>6. /\ d \in CallT /\ d.id = c.id /\ d.at = at /\ d.ref = ref
      /\ d.cmd = c.cmd /\ d.type = c.type /\ d.size = c.size
  BY <1>1 DEF CallT
<1>7. Copies(d, que[s])
  OBVIOUS
<1> HIDE DEF d
<1>8. Args(d)
  BY <1>1, <1>6 DEF Args
<1>9. ProcOK("fault", d, que[s], pool') /\ ~Sends("fault", d)
  BY <1>6, <1>7, <1>8 DEF ProcOK, Sends
<1>10. /\ "fault" \in {"user", "asleep", "fault"} /\ d \in CallT
       /\ ("fault" # "user" => d.id[1] = s) /\ ("fault" = "asleep" => d.chan[1] # "lock")
  BY <1>6
<1>11. /\ que[s].list = que[s].list /\ que[s].qnum = que[s].qnum
       /\ que[s].cbytes = que[s].cbytes /\ que[s].alloc = que[s].alloc
       /\ pool' \in PoolT /\ pool'.fp = pool.fp /\ pool'.map = pool.map
       /\ que[s] \in QueT /\ que' = [que EXCEPT ![s] = que[s]]
  BY <1>3, <1>4
<1> DEFINE C == {}
           q == que[s]
           st == "fault"
<1>12. /\ Settles(p, s, C, st, d) /\ QueSteady(que[s], q, C, s) /\ PoolSteady(pool, pool', C)
       /\ ProcOK(st, d, q, pool') /\ ~Sends(st, d)
  BY <1>2, <1>5, <1>9
<1>13. /\ st \in {"user", "asleep", "fault"} /\ d \in CallT
       /\ (st # "user" => d.id[1] = s) /\ (st = "asleep" => d.chan[1] # "lock")
       /\ q.list = que[s].list /\ q.qnum = que[s].qnum
       /\ q.cbytes = que[s].cbytes /\ q.alloc = que[s].alloc
       /\ pool' \in PoolT /\ pool'.fp = pool.fp /\ pool'.map = pool.map
       /\ q \in QueT /\ que' = [que EXCEPT ![s] = q]
  BY <1>10, <1>11
<1> HIDE DEF C, q, st
<1>14. Running(p, c) /\ s = c.id[1] /\ IInv
  OBVIOUS
<1> QED BY ONLY p \in Proc, <1>12, <1>13, <1>14, QuietInvariant

-----------------------------------------------------------------------------
(* msgsnd.                                                                 *)

\* p runs msgsnd with call c on a queue that it may use.
Sender(p, c) ==
    /\ c \in CallT /\ Args(c) /\ c.cmd = "snd" /\ Ready(p, c.id[1]) /\ que[c.id[1]].alloc

\* Of the pool and of what p has, a header and the segments U are for a
\* message; w is left.
Takes(p, U, w) ==
    /\ U \cap w.map = {} /\ U \cup w.map = SentText(stat[p], call[p]) \cup pool.map
    /\ w.fp \in Nat /\ w.fp + 1 = pool.fp + SentHeader(stat[p], call[p])
    /\ pool.fp = 0 => w.fp = 0
    /\ w.want = pool.want /\ w.map \subseteq pool.map

\* The texts of a longer list.
LEMMA TextsAppended ==
    ASSUME NEW l \in Seq(Message), Apart(l), NEW m \in Message, TextsOf(l) \cap Text(m) = {}
    PROVE  Apart(Append(l, m)) /\ TextsOf(Append(l, m)) = TextsOf(l) \cup Text(m)
<1> DEFINE r == Append(l, m)
           n == Len(l)
<1>1. n \in Nat /\ Len(r) = n + 1 /\ r[n + 1] = m /\ \A k \in 1 .. n : r[k] = l[k]
  BY ListAppended
<1> HIDE DEF r, n
<1>2. 1 .. Len(r) = 1 .. n \cup {n + 1} /\ n + 1 \notin 1 .. n
  BY <1>1
<1>3. TextsOf(l) = UNION {Text(l[k]) : k \in 1 .. n}
  BY DEF TextsOf, Texts, n
<1>4. TextsOf(r) = UNION {Text(r[k]) : k \in 1 .. Len(r)}
  BY DEF TextsOf, Texts
<1>5. \A k \in 1 .. n : Text(r[k]) = Text(l[k]) /\ Text(r[k]) \subseteq TextsOf(l)
  BY <1>1, <1>3
<1>6. Text(r[n + 1]) = Text(m)
  BY <1>1
<1>7. TextsOf(r) = TextsOf(l) \cup Text(m)
  <2>1. ASSUME NEW x \in TextsOf(r)
        PROVE  x \in TextsOf(l) \cup Text(m)
    BY <1>2, <1>4, <1>5, <1>6
  <2>2. ASSUME NEW x \in TextsOf(l)
        PROVE  x \in TextsOf(r)
    <3>1. PICK k \in 1 .. n : x \in Text(l[k])
      BY <1>3
    <3> QED BY <1>2, <1>4, <1>5, <3>1
  <2>3. ASSUME NEW x \in Text(m)
        PROVE  x \in TextsOf(r)
    BY <1>2, <1>4, <1>6
  <2> QED BY <2>1, <2>2, <2>3
<1>8. ASSUME NEW i \in 1 .. Len(r), NEW j \in 1 .. Len(r), i # j
      PROVE  Text(r[i]) \cap Text(r[j]) = {}
  <2>1. CASE i \in 1 .. n /\ j \in 1 .. n
    BY <1>5, <1>8, <2>1 DEF Apart, n
  <2>2. CASE i = n + 1 /\ j \in 1 .. n
    BY <1>5, <1>6, <2>2
  <2>3. CASE i \in 1 .. n /\ j = n + 1
    BY <1>5, <1>6, <2>3
  <2> QED BY <1>2, <1>8, <2>1, <2>2, <2>3
<1> QED BY <1>7, <1>8 DEF Apart, r

\* What p has is none of the pool's or the queue's.
LEMMA SenderHas ==
    ASSUME IInv, NEW p \in Proc, NEW s \in Slots
    PROVE  /\ SentText(stat[p], call[p]) \subseteq Segments
           /\ SentText(stat[p], call[p]) \cap pool.map = {}
           /\ SentText(stat[p], call[p]) \cap TextsOf(que[s].list) = {}
           /\ SentHeader(stat[p], call[p]) \in {0, 1}
<1>1. <<"que", s>> \in Holder /\ <<"snd", p>> \in Holder /\ <<"que", s>> # <<"snd", p>>
  BY DEF Holder
<1>2. /\ Held[<<"que", s>>] = TextsOf(que[s].list)
      /\ Held[<<"snd", p>>] = SentText(stat[p], call[p])
  BY <1>1 DEF Held
<1>3. Shares(Held, pool.map)
  BY DEF IInv, Shared
<1>4. Held[<<"snd", p>>] \subseteq Segments \ pool.map
  BY <1>1, <1>3 DEF Shares
<1>5. Held[<<"que", s>>] \cap Held[<<"snd", p>>] = {}
  BY <1>1, <1>3 DEF Shares
<1> QED BY <1>2, <1>4, <1>5 DEF SentHeader

\* A queue whose list, counts and readers' mark change.
Grown(q, r, l, n, b) == q = [r EXCEPT !.list = l, !.qnum = n, !.cbytes = b, !.rwait = FALSE]

\* It is a header again.
LEMMA QueGrown ==
    ASSUME NEW r \in QueT, NEW l \in Seq(Message), NEW n \in Nat, NEW b \in Nat,
           NEW q, Grown(q, r, l, n, b)
    PROVE  /\ q \in QueT /\ q.list = l /\ q.qnum = n /\ q.cbytes = b /\ ~q.rwait
           /\ q.wwait = r.wwait /\ q.alloc = r.alloc /\ q.seq = r.seq /\ q.qbytes = r.qbytes
<1>1. /\ r.cbytes \in Nat /\ r.qbytes \in Nat /\ r.qnum \in Nat
      /\ r.alloc \in BOOLEAN /\ r.seq \in 0 .. MaxSeq /\ r.wwait \in BOOLEAN
      /\ r = [alloc |-> r.alloc, seq |-> r.seq, list |-> r.list, qnum |-> r.qnum,
              cbytes |-> r.cbytes, qbytes |-> r.qbytes, rwait |-> r.rwait, wwait |-> r.wwait]
  BY DEF QueT
<1>2. q = [alloc |-> r.alloc, seq |-> r.seq, list |-> l, qnum |-> n, cbytes |-> b,
           qbytes |-> r.qbytes, rwait |-> FALSE, wwait |-> r.wwait]
  BY <1>1 DEF Grown
<1> QED BY <1>1, <1>2 DEF QueT

\* The message goes on the queue.
LEMMA EnqueueInvariant ==
    ASSUME IInv, NEW p \in Proc, NEW c, Sender(p, c), NEW a \in 0 .. msgseg, NEW w \in PoolT,
           Takes(p, Units(a, Btoq(c.size)), w), Enqueue(p, c, a, w)
    PROVE  IInv'
<1> DEFINE s == c.id[1]
           C == IF que[s].rwait THEN {<<"qnum", s>>} ELSE {}
           m == [type |-> c.type, ts |-> c.size, spot |-> a]
           q == [que[s] EXCEPT !.list = Append(que[s].list, m), !.qnum = que[s].qnum + 1,
                               !.cbytes = que[s].cbytes + c.size, !.rwait = FALSE]
           U == Units(a, Btoq(c.size))
           P == SentText(stat[p], call[p])
           L == TextsOf(que[s].list)
<1>1. /\ c \in CallT /\ Args(c) /\ c.cmd = "snd" /\ Ready(p, s) /\ que[s].alloc
      /\ s \in Slots /\ c.size \in Nat
  BY CallIs DEF Sender
<1>2. /\ que \in [Slots -> QueT] /\ que[s] \in QueT /\ QueOK(que[s])
      /\ pool.fp \in Nat /\ Apart(que[s].list) /\ que[s].list \in Seq(Message)
      /\ L \cap pool.map = {} /\ L \subseteq Segments
  BY <1>1, Here
<1>3. P \cap L = {} /\ SentHeader(stat[p], call[p]) \in {0, 1}
  BY <1>1, SenderHas
<1>4. m \in Message /\ Text(m) = U /\ m.ts = c.size
  BY <1>1 DEF Message, Text, Args
<1>5. L \cap Text(m) = {}
  BY <1>2, <1>3, <1>4 DEF Takes
<1>6. /\ Apart(Append(que[s].list, m)) /\ TextsOf(Append(que[s].list, m)) = L \cup U
      /\ Append(que[s].list, m) \in Seq(Message)
      /\ Len(Append(que[s].list, m)) = Len(que[s].list) + 1 /\ Len(que[s].list) \in Nat
      /\ Bytes(Sizes(Append(que[s].list, m))) = Bytes(Sizes(que[s].list)) + c.size
  BY <1>2, <1>4, <1>5, TextsAppended, ListAppended
<1> HIDE DEF s, C, U, P, L, m
<1>7. /\ q \in QueT /\ q.list = Append(que[s].list, m) /\ q.qnum = que[s].qnum + 1
      /\ q.cbytes = que[s].cbytes + c.size /\ ~q.rwait /\ q.wwait = que[s].wwait
      /\ q.alloc = que[s].alloc /\ q.seq = que[s].seq /\ q.qbytes = que[s].qbytes
      /\ que[s].cbytes \in Nat /\ que[s].qbytes \in Nat /\ que[s].qnum \in Nat
  <2>1. que[s].cbytes \in Nat /\ que[s].qbytes \in Nat /\ que[s].qnum \in Nat
    BY <1>2 DEF QueT
  <2>2. que[s].qnum + 1 \in Nat /\ que[s].cbytes + c.size \in Nat
    BY <1>1, <2>1
  <2>3. PICK n \in Nat, b \in Nat : n = que[s].qnum + 1 /\ b = que[s].cbytes + c.size
    BY <2>2
  <2>4. PICK l \in Seq(Message) : l = Append(que[s].list, m)
    BY <1>6
  <2>5. Grown(q, que[s], l, n, b)
    BY <2>3, <2>4 DEF Grown
  <2> HIDE DEF q
  <2>6. /\ q \in QueT /\ q.list = l /\ q.qnum = n
        /\ q.cbytes = b /\ ~q.rwait /\ q.wwait = que[s].wwait
        /\ q.alloc = que[s].alloc /\ q.seq = que[s].seq /\ q.qbytes = que[s].qbytes
    BY <1>2, <2>5, QueGrown
  <2> QED BY <2>1, <2>3, <2>4, <2>6
<1>8. que' = [que EXCEPT ![s] = q]
  BY <1>1, <1>2 DEF Enqueue, s, m, QueT
<1>9. pool' = w /\ Settles(p, s, C, "user", Idle)
  BY <1>1, EndsSettle DEF Enqueue, s, C
<1> HIDE DEF q
<1>10. QueOK(q)
  BY <1>1, <1>2, <1>6, <1>7 DEF QueOK
<1>11. Apart(q.list) /\ TextsOf(q.list) = L \cup U
  BY <1>6, <1>7
<1>12. QueSteady(que[s], q, C, s)
  BY <1>1, <1>7 DEF QueSteady, C
<1>13. PoolSteady(pool, pool', C)
  BY <1>9 DEF PoolSteady, Takes
<1>14. ProcOK("user", Idle, q, pool') /\ SentText("user", Idle) = {} /\ SentHeader("user", Idle) = 0
  BY DEF ProcOK, SentText, SentHeader, Sends
<1>15. /\ U \cap w.map = {} /\ U \cup w.map = P \cup pool.map
       /\ w.fp \in Nat /\ w.fp + 1 = pool.fp + SentHeader(stat[p], call[p])
  BY DEF Takes, P, U
<1>16. Moved(L, P, pool.map, TextsOf(q.list), SentText("user", Idle), pool'.map)
  <2>1. L \cap w.map = {}
    BY <1>2, <1>3, <1>15
  <2>2. (L \cup U) \cap w.map = {} /\ (L \cup U) \cup {} \cup w.map = L \cup P \cup pool.map
    BY <1>15, <2>1
  <2> QED BY <1>9, <1>11, <1>14, <2>2 DEF Moved
<1>17. pool'.fp + Len(q.list) + SentHeader("user", Idle)
         = pool.fp + Len(que[s].list) + SentHeader(stat[p], call[p])
  <2>1. PICK k \in Nat : k = SentHeader(stat[p], call[p])
    BY <1>3
  <2>2. PICK n \in Nat : n = Len(que[s].list)
    BY <1>6
  <2>3. PICK f \in Nat, g \in Nat : f = pool.fp /\ g = w.fp
    BY <1>2, <1>15
  <2>4. g + 1 = f + k /\ Len(q.list) = n + 1
    BY <1>6, <1>7, <1>15, <2>1, <2>2, <2>3
  <2>5. g + (n + 1) = f + n + k
    BY ONLY <2>4, g \in Nat, f \in Nat, k \in Nat, n \in Nat
  <2>6. w.fp + (Len(que[s].list) + 1) = pool.fp + Len(que[s].list) + SentHeader(stat[p], call[p])
    BY <2>1, <2>2, <2>3, <2>5
  <2>7. w.fp + (Len(que[s].list) + 1) + 0 = w.fp + (Len(que[s].list) + 1)
    BY <1>15, <1>6
  <2> QED BY <1>6, <1>7, <1>9, <1>14, <2>6, <2>7
<1>18. Idle \in CallT
  BY IdleCall
<1> QED BY <1>1, <1>8, <1>9, <1>7, <1>10, <1>11, <1>12, <1>13, <1>14, <1>16, <1>17, <1>18,
           SettledInvariant DEF L, P

\* Copyin fails: text and header go back.
LEMMA TextFaultsInvariant ==
    ASSUME IInv, NEW p \in Proc, NEW c, Sender(p, c), NEW w \in Account,
           Units(c.ref, Btoq(c.size)) \subseteq Segments,
           Takes(p, Units(c.ref, Btoq(c.size)), w), TextFaults(p, c, w)
    PROVE  IInv'
<1> DEFINE s == c.id[1]
           m == [ts |-> c.size, spot |-> c.ref]
           v == Msgfree(w, m)
           C == v.chans
           q == que[s]
           U == Units(c.ref, Btoq(c.size))
           P == SentText(stat[p], call[p])
           L == TextsOf(que[s].list)
<1>1. /\ c \in CallT /\ Ready(p, s) /\ s \in Slots /\ c.size \in Nat /\ c.ref \in Nat
  BY CallIs DEF Sender
<1>2. /\ que \in [Slots -> QueT] /\ q \in QueT /\ QueOK(q)
      /\ pool.fp \in Nat /\ Apart(q.list) /\ q.list \in Seq(Message)
      /\ L \cap pool.map = {}
  BY <1>1, Here
<1>3. P \cap L = {} /\ SentHeader(stat[p], call[p]) \in {0, 1}
  BY <1>1, SenderHas
<1>4. Text(m) = U /\ m.ts \in Nat /\ m.spot \in Nat
  BY <1>1 DEF Text
<1>5. Freed(w, v, U, 1)
  <2> HIDE DEF m
  <2> QED BY <1>4, MsgfreeIs
<1>6. pool' = Pool(v) /\ Settles(p, s, C, "user", Idle) /\ UNCHANGED que
  BY <1>1, EndsSettle DEF TextFaults
<1>7. que' = [que EXCEPT ![s] = q]
  BY <1>1, <1>2, <1>6
<1> HIDE DEF v, m
<1>8. /\ v \in Account /\ v.fp = w.fp + 1
      /\ w.map \subseteq v.map /\ v.map \subseteq w.map \cup U
      /\ Ample => v.map = w.map \cup U
      /\ w.fp = 0 /\ 1 > 0 => <<"msgfp", 0>> \in C
      /\ \/ v.want = w.want /\ v.map = w.map
         \/ ~v.want /\ (w.want => <<"msgmap", 0>> \in C)
  BY <1>5 DEF Freed
<1>9. pool' \in PoolT /\ pool'.fp = v.fp /\ pool'.map = v.map /\ pool'.want = v.want
  BY <1>6, <1>8 DEF Pool, PoolT, Account
<1>10. /\ U \cap w.map = {} /\ U \cup w.map = P \cup pool.map
       /\ w.fp \in Nat /\ w.fp + 1 = pool.fp + SentHeader(stat[p], call[p])
       /\ pool.fp = 0 => w.fp = 0
       /\ w.want = pool.want /\ w.map \subseteq pool.map
  BY DEF Takes
<1> HIDE DEF q, C, P, U, L
<1>11. PoolSteady(pool, pool', C)
  BY <1>8, <1>9, <1>10 DEF PoolSteady
<1>12. QueSteady(que[s], q, C, s)
  BY <1>2, SteadySame DEF q
<1>13. /\ ProcOK("user", Idle, q, pool') /\ SentText("user", Idle) = {}
       /\ SentHeader("user", Idle) = 0 /\ Idle \in CallT
  BY IdleCall DEF ProcOK, SentText, SentHeader, Sends
<1>14. Moved(L, P, pool.map, L, {}, pool'.map)
  <2>1. L \cap pool'.map = {}
    BY <1>2, <1>3, <1>8, <1>9, <1>10
  <2>2. L \cup {} \cup pool'.map \subseteq L \cup P \cup pool.map
    BY <1>8, <1>9, <1>10
  <2>3. Ample => L \cup P \cup pool.map \subseteq L \cup {} \cup pool'.map
    BY <1>8, <1>9, <1>10
  <2> QED BY <2>1, <2>2, <2>3 DEF Moved
<1>15. pool'.fp + Len(q.list) + 0 = pool.fp + Len(q.list) + SentHeader(stat[p], call[p])
  <2>1. PICK k \in Nat : k = SentHeader(stat[p], call[p])
    BY <1>3
  <2>2. PICK n \in Nat : n = Len(q.list)
    BY <1>2
  <2>3. PICK f \in Nat, g \in Nat : f = pool.fp /\ g = w.fp
    BY <1>2, <1>10
  <2>4. pool'.fp = g + 1 /\ g + 1 = f + k
    BY <1>8, <1>9, <1>10, <2>1, <2>3
  <2>5. (g + 1) + n + 0 = f + n + k
    BY ONLY <2>4, g \in Nat, f \in Nat, k \in Nat, n \in Nat
  <2> QED BY <2>1, <2>2, <2>3, <2>4, <2>5
<1>16. pool'.fp + Len(q.list) + SentHeader("user", Idle)
         = pool.fp + Len(que[s].list) + SentHeader(stat[p], call[p])
  BY <1>13, <1>15 DEF q
<1>17. Moved(TextsOf(que[s].list), P, pool.map, TextsOf(q.list), SentText("user", Idle), pool'.map)
  BY <1>13, <1>14 DEF L, q
<1> QED BY <1>1, <1>2, <1>6, <1>7, <1>9, <1>11, <1>12, <1>13, <1>16, <1>17, SettledInvariant DEF P

\* Copyin waits for a page: the sender has header and text.
LEMMA TextWaitsInvariant ==
    ASSUME IInv, NEW p \in Proc, NEW c, Sender(p, c), NEW a \in Segments, NEW w \in PoolT,
           c.size > 0, c.size + que[c.id[1]].cbytes <= que[c.id[1]].qbytes,
           que[c.id[1]].seq = c.id[2], ~Sends(stat[p], call[p]),
           Takes(p, Units(a, Btoq(c.size)), w), Fault(p, c, "text", a), pool' = w, UNCHANGED que
    PROVE  IInv'
<1> DEFINE s == c.id[1]
           d == [c EXCEPT !.at = "text", !.ref = a]
           q == que[s]
           U == Units(a, Btoq(c.size))
           L == TextsOf(que[s].list)
<1>1. /\ c \in CallT /\ Args(c) /\ c.cmd = "snd" /\ Ready(p, s) /\ q.alloc
      /\ s \in Slots /\ c.size \in Nat
  BY CallIs DEF Sender
<1>2. /\ que \in [Slots -> QueT] /\ q \in QueT /\ QueOK(q)
      /\ pool.fp \in Nat /\ Apart(q.list) /\ q.list \in Seq(Message)
      /\ L \cap pool.map = {}
  BY <1>1, Here
<1>3. Settles(p, s, {}, "fault", d)
  BY <1>1, EndsSettle
<1>4. que' = [que EXCEPT ![s] = q]
  BY <1>1, <1>2
<1>5. /\ d \in CallT /\ d.id = c.id /\ d.at = "text" /\ d.ref = a
      /\ d.cmd = c.cmd /\ d.type = c.type /\ d.size = c.size
  <2>1. a \in Nat
    BY DEF Segments
  <2> QED BY <1>1, <2>1 DEF CallT
<1> HIDE DEF d
<1>6. Args(d)
  BY <1>1, <1>5 DEF Args
<1>7. Copies(d, q)
  BY <1>1, <1>5 DEF Copies, Names
<1>8. ProcOK("fault", d, q, pool')
  BY <1>6, <1>7 DEF ProcOK
<1>9. /\ SentText("fault", d) = U /\ SentHeader("fault", d) = 1
      /\ SentText(stat[p], call[p]) = {} /\ SentHeader(stat[p], call[p]) = 0
  BY <1>5 DEF SentText, SentHeader, Sends
<1>10. /\ U \cap w.map = {} /\ U \cup w.map = pool.map
       /\ w.fp \in Nat /\ w.fp + 1 = pool.fp + 0
       /\ pool.fp = 0 => w.fp = 0
       /\ w.want = pool.want /\ w.map \subseteq pool.map
  BY <1>9 DEF Takes
<1> HIDE DEF q, U, L
<1>11. PoolSteady(pool, pool', {})
  BY <1>10 DEF PoolSteady
<1>12. QueSteady(que[s], q, {}, s)
  BY <1>2, SteadySame DEF q
<1>13. Moved(L, {}, pool.map, L, U, pool'.map)
  <2>1. L \cap U = {} /\ L \cap pool'.map = {} /\ U \cap pool'.map = {}
    BY <1>2, <1>10
  <2>2. L \cup U \cup pool'.map = L \cup {} \cup pool.map
    BY <1>10
  <2> QED BY <2>1, <2>2 DEF Moved
<1>14. pool'.fp + Len(q.list) + 1 = pool.fp + Len(q.list) + 0
  <2>1. PICK n \in Nat : n = Len(q.list)
    BY <1>2
  <2>2. PICK f \in Nat, g \in Nat : f = pool.fp /\ g = w.fp
    BY <1>2, <1>10
  <2>3. g + 1 = f
    BY <1>10, <2>2
  <2>4. g + n + 1 = f + n + 0
    BY ONLY <2>3, g \in Nat, f \in Nat, n \in Nat
  <2> QED BY <2>1, <2>2, <2>4
<1>15. pool'.fp + Len(q.list) + SentHeader("fault", d)
         = pool.fp + Len(que[s].list) + SentHeader(stat[p], call[p])
  BY <1>9, <1>14 DEF q
<1>16. Moved(TextsOf(que[s].list), SentText(stat[p], call[p]), pool.map,
             TextsOf(q.list), SentText("fault", d), pool'.map)
  BY <1>9, <1>13 DEF L, q
<1> DEFINE st == "fault"
           C == {}
<1>17. /\ st \in {"user", "asleep", "fault"} /\ (st # "user" => d.id[1] = s)
       /\ (st = "asleep" => d.chan[1] # "lock") /\ Settles(p, s, C, st, d)
       /\ ProcOK(st, d, q, pool') /\ QueSteady(que[s], q, C, s) /\ PoolSteady(pool, pool', C)
       /\ Moved(TextsOf(que[s].list), SentText(stat[p], call[p]), pool.map,
                TextsOf(q.list), SentText(st, d), pool'.map)
       /\ pool'.fp + Len(q.list) + SentHeader(st, d)
            = pool.fp + Len(que[s].list) + SentHeader(stat[p], call[p])
  BY <1>3, <1>5, <1>8, <1>11, <1>12, <1>15, <1>16
<1>18. IInv /\ Ready(p, s) /\ s \in Slots /\ q \in QueT /\ que' = [que EXCEPT ![s] = q]
       /\ pool' \in PoolT /\ QueOK(q) /\ Apart(q.list) /\ d \in CallT
  BY <1>1, <1>2, <1>4, <1>5
<1> HIDE DEF st, C, s
<1> QED BY ONLY p \in Proc, <1>17, <1>18, SettledInvariant

\* All that msgsnd needs is there, and the text is copied in.
LEMMA CopyinInvariant ==
    ASSUME IInv, NEW p \in Proc, NEW c, Sender(p, c), NEW a \in Segments, NEW w \in Account,
           c.size > 0, c.size + que[c.id[1]].cbytes <= que[c.id[1]].qbytes,
           que[c.id[1]].seq = c.id[2], ~Sends(stat[p], call[p]),
           Units(a, Btoq(c.size)) \subseteq Segments,
           Takes(p, Units(a, Btoq(c.size)), w), Copyin(p, c, a, w)
    PROVE  IInv'
<1> DEFINE v == Pool(w)
           b == [c EXCEPT !.ref = a]
           U == Units(a, Btoq(c.size))
<1>1. c \in CallT /\ a \in 0 .. msgseg
  BY DEF Sender, Segments
<1>2. v \in PoolT /\ v.fp = w.fp /\ v.map = w.map /\ v.want = w.want
  BY DEF Pool, PoolT, Account
<1>3. Takes(p, U, v)
  BY <1>2 DEF Takes
<1>4. CASE Fault(p, c, "text", a) /\ pool' = v /\ UNCHANGED que
  BY <1>2, <1>3, <1>4, TextWaitsInvariant
<1>5. CASE Enqueue(p, c, a, v)
  BY <1>1, <1>2, <1>3, <1>5, EnqueueInvariant
<1>6. CASE TextFaults(p, b, w)
  <2>1. /\ b \in CallT /\ b.id = c.id /\ b.ref = a
        /\ b.cmd = c.cmd /\ b.type = c.type /\ b.size = c.size
    BY <1>1 DEF CallT
  <2> HIDE DEF b
  <2>2. Sender(p, b)
    BY <2>1 DEF Sender, Args
  <2>3. Units(b.ref, Btoq(b.size)) \subseteq Segments /\ Takes(p, Units(b.ref, Btoq(b.size)), w)
    BY <2>1
  <2> QED BY <1>6, <2>2, <2>3, TextFaultsInvariant
<1> QED BY <1>4, <1>5, <1>6 DEF Copyin

\* The resources are an account of the pool.
LEMMA ResourcesAre ==
    ASSUME IInv
    PROVE  /\ Resources \in Account /\ Resources.fp = pool.fp /\ Resources.map = pool.map
           /\ Resources.want = pool.want /\ Resources.chans = {}
BY DEF Resources, Account, IInv, Typed, PoolT

\* What holds of a wait for something.
LEMMA WaitInvariant ==
    ASSUME IInv, NEW p \in Proc, NEW c, Running(p, c), NEW C,
           NEW ch \in Chan, ch[1] # "lock", OutOrWait(p, c, ch, C),
           UNCHANGED que, pool' \in PoolT, pool'.fp = pool.fp, pool'.map = pool.map,
           PoolSteady(pool, pool', C),
           ~c.nowait => Sleeps(Asking(c, ch), que[c.id[1]], pool')
    PROVE  IInv'
<1> DEFINE s == c.id[1]
           q == que[s]
<1>1. s \in Slots
  BY CallIs DEF Running
<1>2. que \in [Slots -> QueT] /\ q \in QueT
  BY <1>1, Here
<1>3. que' = [que EXCEPT ![s] = q]
  BY <1>1, <1>2
<1>4. QueSteady(que[s], q, C, s)
  BY <1>2, SteadySame
<1>5. q.list = que[s].list /\ q.qnum = que[s].qnum /\ q.cbytes = que[s].cbytes
      /\ q.alloc = que[s].alloc
  OBVIOUS
<1>6. ~c.nowait => Sleeps(Asking(c, ch), q, pool')
  OBVIOUS
<1>7. s = c.id[1]
  OBVIOUS
<1> HIDE DEF s, q
<1> QED BY <1>2, <1>3, <1>4, <1>5, <1>6, <1>7, OutOrWaitInvariant DEF q

\* A queue whose mark for writers, or for readers, changes.
MarkedW(q, r, b) == q = [r EXCEPT !.wwait = b]
MarkedR(q, r, b) == q = [r EXCEPT !.rwait = b]

\* Such a queue, but for the mark, is the same.
LEMMA QueMarked ==
    ASSUME NEW r \in QueT, NEW b \in BOOLEAN, NEW q, MarkedW(q, r, b) \/ MarkedR(q, r, b)
    PROVE  /\ q \in QueT /\ q.list = r.list /\ q.qnum = r.qnum /\ q.cbytes = r.cbytes
           /\ q.alloc = r.alloc /\ q.seq = r.seq /\ q.qbytes = r.qbytes
           /\ MarkedW(q, r, b) => (q.wwait <=> b) /\ (q.rwait <=> r.rwait)
           /\ MarkedR(q, r, b) => (q.rwait <=> b) /\ (q.wwait <=> r.wwait)
<1>1. /\ r.cbytes \in Nat /\ r.qbytes \in Nat /\ r.qnum \in Nat /\ r.list \in Seq(Message)
      /\ r.alloc \in BOOLEAN /\ r.seq \in 0 .. MaxSeq /\ r.wwait \in BOOLEAN /\ r.rwait \in BOOLEAN
      /\ r = [alloc |-> r.alloc, seq |-> r.seq, list |-> r.list, qnum |-> r.qnum,
              cbytes |-> r.cbytes, qbytes |-> r.qbytes, rwait |-> r.rwait, wwait |-> r.wwait]
  BY DEF QueT
<1>2. ASSUME MarkedW(q, r, b)
      PROVE  q = [alloc |-> r.alloc, seq |-> r.seq, list |-> r.list, qnum |-> r.qnum,
                  cbytes |-> r.cbytes, qbytes |-> r.qbytes, rwait |-> r.rwait, wwait |-> b]
  BY <1>1, <1>2 DEF MarkedW
<1>3. ASSUME MarkedR(q, r, b)
      PROVE  q = [alloc |-> r.alloc, seq |-> r.seq, list |-> r.list, qnum |-> r.qnum,
                  cbytes |-> r.cbytes, qbytes |-> r.qbytes, rwait |-> b, wwait |-> r.wwait]
  BY <1>1, <1>3 DEF MarkedR
<1>4. ASSUME MarkedW(q, r, b)
      PROVE  /\ q \in QueT /\ q.list = r.list /\ q.qnum = r.qnum /\ q.cbytes = r.cbytes
             /\ q.alloc = r.alloc /\ q.seq = r.seq /\ q.qbytes = r.qbytes
             /\ (q.wwait <=> b) /\ (q.rwait <=> r.rwait)
  BY <1>1, <1>2, <1>4 DEF QueT
<1>5. ASSUME MarkedR(q, r, b)
      PROVE  /\ q \in QueT /\ q.list = r.list /\ q.qnum = r.qnum /\ q.cbytes = r.cbytes
             /\ q.alloc = r.alloc /\ q.seq = r.seq /\ q.qbytes = r.qbytes
             /\ (q.rwait <=> b) /\ (q.wwait <=> r.wwait)
  BY <1>1, <1>3, <1>5 DEF QueT
<1> QED BY <1>4, <1>5

\* The queue has no room.
LEMMA FullInvariant ==
    ASSUME IInv, NEW p \in Proc, NEW c, Sender(p, c), Running(p, c),
           que[c.id[1]].seq = c.id[2],
           c.size + que[c.id[1]].cbytes > que[c.id[1]].qbytes,
           que' = [que EXCEPT ![c.id[1]].wwait = @ \/ ~c.nowait],
           OutOrWait(p, c, <<"que", c.id[1]>>, {}), UNCHANGED pool
    PROVE  IInv'
<1> DEFINE s == c.id[1]
           q == [que[s] EXCEPT !.wwait = que[s].wwait \/ ~c.nowait]
           ch == <<"que", s>>
           d == Asking(c, ch)
<1>1. /\ c \in CallT /\ c.cmd = "snd" /\ que[s].alloc /\ s \in Slots /\ c.nowait \in BOOLEAN
  BY CallIs DEF Sender
<1>2. que \in [Slots -> QueT] /\ que[s] \in QueT /\ pool \in PoolT
  BY <1>1, Here
<1>3. que' = [que EXCEPT ![s] = q]
  BY <1>1, <1>2 DEF QueT
<1>4. que[s].wwait \in BOOLEAN /\ que[s].rwait \in BOOLEAN
      /\ que[s].cbytes \in Nat /\ que[s].qbytes \in Nat
  BY <1>2 DEF QueT
<1>5. PICK b \in BOOLEAN : b = (que[s].wwait \/ ~c.nowait)
  BY <1>1, <1>4
<1>6. MarkedW(q, que[s], b)
  BY <1>5 DEF MarkedW
<1>7. ch \in Chan /\ ch[1] # "lock"
  BY <1>1 DEF Chan
<1>8. /\ d.id = c.id /\ d.chan = ch /\ d.cmd = c.cmd /\ d.size = c.size
  BY <1>1 DEF CallT, Asking
<1> HIDE DEF q, d
<1>9. /\ q \in QueT /\ q.list = que[s].list /\ q.qnum = que[s].qnum /\ q.cbytes = que[s].cbytes
      /\ q.alloc = que[s].alloc /\ q.seq = que[s].seq /\ q.qbytes = que[s].qbytes
      /\ (q.wwait <=> b) /\ (q.rwait <=> que[s].rwait)
  BY <1>2, <1>6, QueMarked
<1>10. QueSteady(que[s], q, {}, s)
  BY <1>1, <1>4, <1>5, <1>9 DEF QueSteady
<1>11. PoolSteady(pool, pool', {})
  BY DEF PoolSteady
<1>12. ~c.nowait => Sleeps(d, q, pool')
  BY <1>1, <1>5, <1>8, <1>9 DEF Sleeps, Names
<1>13. pool' \in PoolT /\ pool'.fp = pool.fp /\ pool'.map = pool.map
  BY <1>2
<1>14. s = c.id[1]
  OBVIOUS
<1> DEFINE C == {}
<1>15. OutOrWait(p, c, ch, C) /\ QueSteady(que[s], q, C, s) /\ PoolSteady(pool, pool', C)
  BY <1>10, <1>11
<1>16. IInv /\ Running(p, c)
  OBVIOUS
<1> HIDE DEF s, ch, C
<1> QED BY ONLY p \in Proc, <1>3, <1>7, <1>9, <1>12, <1>13, <1>14, <1>15, <1>16,
           OutOrWaitInvariant DEF d

\* The segments where a text of n bytes goes.
LEMMA FitIs ==
    ASSUME NEW m \in SUBSET Segments, NEW n, NEW a, FirstFit(m, n, a)
    PROVE  a \in Segments /\ Units(a, n) \subseteq Segments /\ Units(a, n) \subseteq m
BY DEF FirstFit, Fits

\* Space, header and text of a message are looked for.
LEMMA GetresInvariant ==
    ASSUME IInv, NEW p \in Proc, NEW c, Sender(p, c), Running(p, c),
           que[c.id[1]].seq = c.id[2], Getres(p, c)
    PROVE  IInv'
<1> DEFINE s == c.id[1]
           full == c.size + que[s].cbytes > que[s].qbytes
           taken == [Resources EXCEPT !.fp = @ - 1]
           fits == {a \in pool.map : FirstFit(pool.map, Btoq(c.size), a)}
<1>1. /\ c \in CallT /\ Args(c) /\ c.cmd = "snd" /\ s \in Slots
      /\ c.size \in Nat /\ c.nowait \in BOOLEAN /\ ~Sends(stat[p], call[p])
  BY CallIs DEF Sender, Running
<1>2. /\ que[s] \in QueT /\ pool \in PoolT /\ pool.fp \in Nat /\ pool.map \in SUBSET Segments
      /\ pool.want \in BOOLEAN
  BY <1>1, Here
<1>3. /\ SentText(stat[p], call[p]) = {} /\ SentHeader(stat[p], call[p]) = 0
  BY <1>1 DEF SentText, SentHeader
<1>4. que[s].cbytes \in Nat /\ que[s].qbytes \in Nat
  BY <1>2 DEF QueT
<1>5. ASSUME pool.fp > 0
      PROVE  /\ taken \in Account /\ taken.fp = pool.fp - 1 /\ taken.map = pool.map
             /\ taken.want = pool.want /\ taken.chans = {}
             /\ taken = [fp |-> pool.fp - 1, map |-> pool.map, want |-> pool.want, chans |-> {}]
  <2>1. taken = [fp |-> pool.fp - 1, map |-> pool.map, want |-> pool.want, chans |-> {}]
    BY DEF Resources
  <2>2. pool.fp - 1 \in Nat /\ {} \in SUBSET Chan
    BY <1>2, <1>5
  <2> HIDE DEF taken
  <2> QED BY <1>2, <2>1, <2>2 DEF Account
<1> HIDE DEF taken, full, fits
<1>6. ASSUME full, que' = [que EXCEPT ![s].wwait = @ \/ ~c.nowait],
             OutOrWait(p, c, <<"que", s>>, {}), UNCHANGED pool
      PROVE  IInv'
  BY <1>6, FullInvariant DEF full
<1>7. ASSUME ~full, pool.fp = 0, OutOrWait(p, c, <<"msgfp", 0>>, {}), UNCHANGED <<que, pool>>
      PROVE  IInv'
  <2> DEFINE ch == <<"msgfp", 0>>
             d == Asking(c, ch)
             C == {}
  <2>1. ch \in Chan /\ ch[1] # "lock"
    BY DEF Chan
  <2>2. d.chan = ch /\ d.cmd = c.cmd
    BY <1>1 DEF CallT, Asking
  <2> HIDE DEF d
  <2>3. Sleeps(d, que[s], pool')
    BY <1>1, <1>7, <2>2 DEF Sleeps
  <2>4. pool' \in PoolT /\ pool'.fp = pool.fp /\ pool'.map = pool.map
    BY <1>2, <1>7
  <2>5. PoolSteady(pool, pool', C) /\ OutOrWait(p, c, ch, C) /\ UNCHANGED que
    BY <1>7 DEF PoolSteady
  <2> HIDE DEF ch, C
  <2> QED BY <2>1, <2>3, <2>4, <2>5, WaitInvariant DEF d
<1>8. ASSUME ~full, pool.fp > 0, c.size = 0, Enqueue(p, c, 0, Pool(taken))
      PROVE  IInv'
  <2> DEFINE w == Pool(taken)
  <2>1. w \in PoolT /\ w.fp = pool.fp - 1 /\ w.map = pool.map /\ w.want = pool.want
    BY <1>5, <1>8 DEF Pool, PoolT, Account
  <2> HIDE DEF w
  <2>2. Btoq(c.size) = 0
    BY <1>8, BtoqIs
  <2>3. Units(0, Btoq(c.size)) = {}
    BY <2>2 DEF Units
  <2>4. w.fp \in Nat /\ w.fp + 1 = pool.fp /\ pool.fp # 0
    BY <1>2, <1>8, <2>1
  <2>5. Takes(p, Units(0, Btoq(c.size)), w)
    BY <1>2, <1>3, <2>1, <2>3, <2>4 DEF Takes
  <2>6. 0 \in 0 .. msgseg
    BY MsgAssumption
  <2> QED BY <1>8, <2>1, <2>5, <2>6, EnqueueInvariant DEF w
<1>9. ASSUME ~full, pool.fp > 0, c.size > 0, fits = {},
             pool' = [pool EXCEPT !.want = @ \/ ~c.nowait],
             OutOrWait(p, c, <<"msgmap", 0>>, Putback(taken).chans), UNCHANGED que
      PROVE  IInv'
  <2> DEFINE ch == <<"msgmap", 0>>
             d == Asking(c, ch)
             C == Putback(taken).chans
  <2>1. ch \in Chan /\ ch[1] # "lock"
    BY DEF Chan
  <2>2. d.chan = ch /\ d.cmd = c.cmd /\ d.size = c.size
    BY <1>1 DEF CallT, Asking
  <2>3. PICK b \in BOOLEAN : b = (pool.want \/ ~c.nowait)
    BY <1>1, <1>2
  <2>4. pool' = [fp |-> pool.fp, map |-> pool.map, want |-> b]
    BY <1>2, <1>9, <2>3 DEF PoolT
  <2>5. pool' \in PoolT /\ pool'.fp = pool.fp /\ pool'.map = pool.map /\ (pool'.want <=> b)
    BY <1>2, <2>4 DEF PoolT
  <2>6. Fits(pool.map, Btoq(c.size)) = {}
    BY <1>2, <1>9, FirstFitExists DEF fits
  <2> HIDE DEF d
  <2>7. ~c.nowait => Sleeps(d, que[s], pool')
    BY <1>1, <2>2, <2>3, <2>5, <2>6 DEF Sleeps
  <2> HIDE DEF C
  <2>8. PoolSteady(pool, pool', C) /\ OutOrWait(p, c, ch, C) /\ UNCHANGED que
    BY <1>2, <1>9, <2>3, <2>5 DEF PoolSteady, C
  <2> HIDE DEF ch
  <2> QED BY <2>1, <2>5, <2>7, <2>8, WaitInvariant DEF d
<1>10. ASSUME ~full, pool.fp > 0, c.size > 0, NEW a \in fits,
              Copyin(p, c, a, [taken EXCEPT !.map = @ \ Units(a, Btoq(c.size))])
       PROVE  IInv'
  <2> DEFINE U == Units(a, Btoq(c.size))
             w == [taken EXCEPT !.map = @ \ U]
  <2>1. /\ a \in Segments /\ U \subseteq Segments /\ U \subseteq pool.map
    BY <1>2, <1>10, FitIs DEF fits
  <2>2. w = [fp |-> pool.fp - 1, map |-> pool.map \ U, want |-> pool.want, chans |-> {}]
    BY <1>5, <1>10
  <2> HIDE DEF w
  <2>3. /\ w.fp = pool.fp - 1 /\ w.map = pool.map \ U /\ w.want = pool.want
        /\ pool.fp - 1 \in Nat
    BY <1>2, <1>10, <2>2
  <2>4. w \in Account
    BY <1>2, <2>2, <2>3 DEF Account
  <2>5. w.fp \in Nat /\ w.fp + 1 = pool.fp + 0 /\ pool.fp # 0
    BY <1>2, <1>10, <2>3
  <2>6. Takes(p, U, w)
    BY <1>3, <2>1, <2>3, <2>5 DEF Takes
  <2>7. c.size + que[c.id[1]].cbytes <= que[c.id[1]].qbytes
    BY <1>1, <1>4, <1>10 DEF full
  <2> QED BY <1>1, <1>10, <2>1, <2>4, <2>6, <2>7, CopyinInvariant DEF w
<1> QED BY <1>6, <1>7, <1>8, <1>9, <1>10 DEF Getres, full, taken, fits

-----------------------------------------------------------------------------
(* msgrcv and IPC_RMID.                                                    *)

\* The texts of a shorter list.
LEMMA TextsReduced ==
    ASSUME NEW l \in Seq(Message), Apart(l), NEW i \in 1 .. Len(l)
    PROVE  /\ Apart(RemoveAt(l, i)) /\ TextsOf(RemoveAt(l, i)) \cap Text(l[i]) = {}
           /\ TextsOf(RemoveAt(l, i)) \cup Text(l[i]) = TextsOf(l)
<1> DEFINE r == RemoveAt(l, i)
           n == Len(l)
           Old(k) == IF k < i THEN k ELSE k + 1
<1>1. /\ n \in Nat /\ i \in 1 .. n /\ Len(r) = n - 1
      /\ \A k \in 1 .. n - 1 : r[k] = IF k < i THEN l[k] ELSE l[k + 1]
  <2>1. /\ Len(l) \in Nat /\ Len(r) = Len(l) - 1
        /\ \A k \in 1 .. Len(l) - 1 : r[k] = IF k < i THEN l[k] ELSE l[k + 1]
    BY ListReduced
  <2> HIDE DEF r
  <2> QED BY <2>1
<1> HIDE DEF r, n
<1>2. 1 .. Len(r) = 1 .. n - 1
  BY <1>1
<1>3. \A k \in 1 .. n - 1 : Old(k) \in 1 .. n /\ Old(k) # i /\ r[k] = l[Old(k)]
  BY <1>1
<1>4. \A j, k \in 1 .. n - 1 : j # k => Old(j) # Old(k)
  BY <1>1
<1>5. \A j \in 1 .. n : j # i => \E k \in 1 .. n - 1 : Old(k) = j
  <2> TAKE j \in 1 .. n
  <2> HAVE j # i
  <2>1. CASE j < i
    <3>1. j \in 1 .. n - 1 /\ Old(j) = j
      BY <1>1, <2>1
    <3> QED BY <3>1
  <2>2. CASE ~(j < i)
    <3>1. j - 1 \in 1 .. n - 1 /\ Old(j - 1) = j
      BY <1>1, <2>2
    <3> QED BY <3>1
  <2> QED BY <2>1, <2>2
<1> HIDE DEF Old
<1>6. TextsOf(l) = UNION {Text(l[k]) : k \in 1 .. n}
  BY DEF TextsOf, Texts, n
<1>7. TextsOf(r) = UNION {Text(r[k]) : k \in 1 .. n - 1}
  BY <1>2 DEF TextsOf, Texts
<1>8. \A j, k \in 1 .. n : j # k => Text(l[j]) \cap Text(l[k]) = {}
  BY DEF Apart, n
<1>9. Apart(r)
  <2> SUFFICES ASSUME NEW j \in 1 .. n - 1, NEW k \in 1 .. n - 1, j # k
               PROVE  Text(r[j]) \cap Text(r[k]) = {}
    BY <1>2 DEF Apart
  <2> QED BY <1>3, <1>4, <1>8
<1>10. ASSUME NEW x \in TextsOf(r)
       PROVE  x \in TextsOf(l) /\ x \notin Text(l[i])
  <2>1. PICK k \in 1 .. n - 1 : x \in Text(r[k])
    BY <1>7
  <2>2. x \in Text(l[Old(k)]) /\ Old(k) \in 1 .. n /\ Old(k) # i
    BY <1>3, <2>1
  <2>3. Text(l[Old(k)]) \cap Text(l[i]) = {}
    BY <1>1, <1>8, <2>2
  <2> QED BY <1>6, <2>2, <2>3
<1>11. ASSUME NEW x \in TextsOf(l), x \notin Text(l[i])
       PROVE  x \in TextsOf(r)
  <2>1. PICK j \in 1 .. n : x \in Text(l[j])
    BY <1>6
  <2>2. PICK k \in 1 .. n - 1 : Old(k) = j
    BY <1>5, <1>11, <2>1
  <2>3. r[k] = l[j]
    BY <1>3, <2>2
  <2> QED BY <1>7, <2>1, <2>3
<1>12. Text(l[i]) \subseteq TextsOf(l)
  BY <1>1, <1>6
<1>13. TextsOf(r) \cap Text(l[i]) = {} /\ TextsOf(r) \cup Text(l[i]) = TextsOf(l)
  BY <1>10, <1>11, <1>12
<1> QED BY <1>9, <1>13 DEF r

\* Without one message, no more is found.
LEMMA StillNone ==
    ASSUME NEW l \in Seq(Message), NEW i \in 1 .. Len(l), NEW t \in Int, Findmsg(l, t) = 0
    PROVE  Findmsg(RemoveAt(l, i), t) = 0
<1> DEFINE r == RemoveAt(l, i)
           f == Findmsg(r, t)
           g == Findmsg(l, t)
<1>1. /\ r \in Seq(Message) /\ Len(r) = Len(l) - 1 /\ Len(l) \in Nat
      /\ \A k \in 1 .. Len(l) - 1 : r[k] = IF k < i THEN l[k] ELSE l[k + 1]
  BY ListReduced
<1>2. g = 0
  OBVIOUS
<1> HIDE DEF r
<1>3. \/ f = 0
      \/ f \in 1 .. Len(r) /\ Fitting(r[f], t)
  BY <1>1, FindmsgIs
<1>4. \A k \in 1 .. Len(l) : ~Fitting(l[k], t)
  <2> HIDE DEF g
  <2>1. g = Findmsg(l, t)
    BY DEF g
  <2> QED BY <1>2, <2>1, FindmsgIs
<1> HIDE DEF f, g
<1>5. ASSUME f \in 1 .. Len(r), Fitting(r[f], t)
      PROVE  FALSE
  <2>1. f \in 1 .. Len(l) /\ f + 1 \in 1 .. Len(l)
    BY <1>1, <1>5
  <2>2. r[f] = l[f] \/ r[f] = l[f + 1]
    BY <1>1, <1>5
  <2> QED BY <1>4, <1>5, <2>1, <2>2
<1> QED BY <1>3, <1>5 DEF f, r

\* A queue whose list, counts and writers' mark change.
Shrunk(q, r, l, n, b) == q = [r EXCEPT !.list = l, !.qnum = n, !.cbytes = b, !.wwait = FALSE]

\* It is a header again.
LEMMA QueShrunk ==
    ASSUME NEW r \in QueT, NEW l \in Seq(Message), NEW n \in Nat, NEW b \in Nat,
           NEW q, Shrunk(q, r, l, n, b)
    PROVE  /\ q \in QueT /\ q.list = l /\ q.qnum = n /\ q.cbytes = b /\ ~q.wwait
           /\ q.rwait = r.rwait /\ q.alloc = r.alloc /\ q.seq = r.seq /\ q.qbytes = r.qbytes
<1>1. /\ r.cbytes \in Nat /\ r.qbytes \in Nat /\ r.qnum \in Nat
      /\ r.alloc \in BOOLEAN /\ r.seq \in 0 .. MaxSeq /\ r.rwait \in BOOLEAN
      /\ r = [alloc |-> r.alloc, seq |-> r.seq, list |-> r.list, qnum |-> r.qnum,
              cbytes |-> r.cbytes, qbytes |-> r.qbytes, rwait |-> r.rwait, wwait |-> r.wwait]
  BY DEF QueT
<1>2. q = [alloc |-> r.alloc, seq |-> r.seq, list |-> l, qnum |-> n, cbytes |-> b,
           qbytes |-> r.qbytes, rwait |-> r.rwait, wwait |-> FALSE]
  BY <1>1 DEF Shrunk
<1> QED BY <1>1, <1>2 DEF QueT

\* What has gone back to the pool is steady when its sleepers are woken.
LEMMA FreedSteady ==
    ASSUME IInv, NEW v, NEW U, NEW k \in Nat, Freed(Resources, v, U, k), pool' = Pool(v), NEW C,
           v.chans \subseteq C, k = 0 => pool.fp # 0 \/ v.fp = 0
    PROVE  /\ pool' \in PoolT /\ pool'.fp = pool.fp + k /\ PoolSteady(pool, pool', C)
           /\ pool.map \subseteq pool'.map /\ pool'.map \subseteq pool.map \cup U
           /\ Ample => pool'.map = pool.map \cup U
<1>1. /\ Resources.fp = pool.fp /\ Resources.map = pool.map
      /\ Resources.want = pool.want /\ Resources.chans = {}
  BY ResourcesAre
<1>2. /\ v \in Account /\ v.fp = pool.fp + k
      /\ pool.map \subseteq v.map /\ v.map \subseteq pool.map \cup U
      /\ Ample => v.map = pool.map \cup U
      /\ pool.fp = 0 /\ k > 0 => <<"msgfp", 0>> \in v.chans
      /\ \/ v.want = pool.want /\ v.map = pool.map
         \/ ~v.want /\ (pool.want => <<"msgmap", 0>> \in v.chans)
  BY <1>1 DEF Freed
<1>3. pool' \in PoolT /\ pool'.fp = v.fp /\ pool'.map = v.map /\ pool'.want = v.want
  BY <1>2 DEF Pool, PoolT, Account
<1>4. k = 0 \/ k > 0
  OBVIOUS
<1>5. PoolSteady(pool, pool', C)
  BY <1>2, <1>3, <1>4 DEF PoolSteady
<1> QED BY <1>2, <1>3, <1>5

\* A message is copied out.
LEMMA TakeInvariant ==
    ASSUME IInv, NEW p \in Proc, NEW c, c \in CallT, Ready(p, c.id[1]), ~Sends(stat[p], call[p]),
           que[c.id[1]].alloc, NEW i \in 1 .. Len(que[c.id[1]].list), Take(p, c, i)
    PROVE  IInv'
<1> DEFINE s == c.id[1]
           l == que[s].list
           m == l[i]
           k == RemoveAt(l, i)
           w == Msgfree(Resources, m)
           C == w.chans \cup (IF que[s].wwait THEN {<<"que", s>>} ELSE {})
           q == [que[s] EXCEPT !.list = k, !.qnum = que[s].qnum - 1,
                               !.cbytes = que[s].cbytes - m.ts, !.wwait = FALSE]
<1>1. s \in Slots /\ c \in CallT
  BY CallIs
<1>2. /\ que \in [Slots -> QueT] /\ que[s] \in QueT /\ QueOK(que[s]) /\ pool.fp \in Nat
      /\ Apart(l) /\ l \in Seq(Message) /\ TextsOf(l) \subseteq Segments
      /\ TextsOf(l) \cap pool.map = {}
  BY <1>1, Here
<1>3. m \in Message /\ m.ts \in Nat /\ m.spot \in Nat
  BY <1>2, MessageIs
<1>4. Text(m) \subseteq TextsOf(l) /\ Apart(k)
      /\ TextsOf(k) \cap Text(m) = {} /\ TextsOf(k) \cup Text(m) = TextsOf(l)
  BY <1>2, TextsReduced
<1>5. Freed(Resources, w, Text(m), 1)
  <2>1. Text(m) \subseteq Segments
    BY <1>2, <1>4
  <2> HIDE DEF m
  <2> QED BY <1>3, <2>1, MsgfreeIs, ResourcesAre
<1>6. que' = [que EXCEPT ![s] = q]
  <2> HIDE DEF k, m
  <2> QED BY <1>1, <1>2 DEF Take, k, m, l, QueT
<1>7. pool' = Pool(w) /\ Settles(p, s, C, "user", Idle)
  BY <1>1, EndsSettle DEF Take
<1>8. /\ k \in Seq(Message) /\ Len(k) = Len(l) - 1 /\ Len(l) \in Nat /\ Len(l) - 1 \in Nat
      /\ Bytes(Sizes(k)) \in Nat /\ Bytes(Sizes(k)) + m.ts = Bytes(Sizes(l))
  <2>1. PICK z \in Seq(Message) : z = l
    BY <1>2
  <2>2. i \in 1 .. Len(z) /\ Len(z) \in Nat
    BY <2>1
  <2>3. /\ RemoveAt(z, i) \in Seq(Message) /\ Len(RemoveAt(z, i)) = Len(z) - 1
        /\ Bytes(Sizes(RemoveAt(z, i))) \in Nat
        /\ Bytes(Sizes(RemoveAt(z, i))) + z[i].ts = Bytes(Sizes(z))
    BY <2>2, ListReduced
  <2>4. Len(z) - 1 \in Nat
    BY <2>2
  <2> HIDE DEF l
  <2> QED BY <2>1, <2>2, <2>3, <2>4
<1> HIDE DEF w, k, m, C
<1>9. /\ pool' \in PoolT /\ pool'.fp = pool.fp + 1 /\ PoolSteady(pool, pool', C)
      /\ pool.map \subseteq pool'.map /\ pool'.map \subseteq pool.map \cup Text(m)
      /\ Ample => pool'.map = pool.map \cup Text(m)
  <2>1. PICK j \in Nat : j = 1
    OBVIOUS
  <2>2. Freed(Resources, w, Text(m), j) /\ w.chans \subseteq C /\ j # 0
    BY <1>5, <2>1 DEF C
  <2>3. pool' = Pool(w)
    BY <1>7
  <2>4. /\ pool' \in PoolT /\ pool'.fp = pool.fp + j /\ PoolSteady(pool, pool', C)
        /\ pool.map \subseteq pool'.map /\ pool'.map \subseteq pool.map \cup Text(m)
        /\ Ample => pool'.map = pool.map \cup Text(m)
    BY <2>2, <2>3, FreedSteady
  <2> QED BY <2>1, <2>4
<1>10. /\ que[s].qnum = Len(l) /\ que[s].cbytes = Bytes(Sizes(l))
  BY <1>2 DEF QueOK
<1>11. PICK n \in Nat, b \in Nat : n = Len(k) /\ b = Bytes(Sizes(k))
  BY <1>8
<1>12. que[s].qnum - 1 = n /\ que[s].cbytes - m.ts = b
  BY <1>3, <1>8, <1>10, <1>11
<1>13. PICK r \in Seq(Message) : r = k
  BY <1>8
<1>14. Shrunk(q, que[s], r, n, b)
  BY <1>12, <1>13 DEF Shrunk
<1> HIDE DEF q
<1>15. /\ q \in QueT /\ q.list = r /\ q.qnum = n /\ q.cbytes = b /\ ~q.wwait
       /\ q.rwait = que[s].rwait /\ q.alloc = que[s].alloc /\ q.seq = que[s].seq
       /\ q.qbytes = que[s].qbytes
  <2>1. que[s] \in QueT
    BY <1>2
  <2> HIDE DEF s
  <2> QED BY ONLY <1>14, <2>1, r \in Seq(Message), n \in Nat, b \in Nat, QueShrunk
<1>16. QueOK(q) /\ Apart(q.list)
  BY <1>4, <1>11, <1>13, <1>15 DEF QueOK
<1>17. QueSteady(que[s], q, C, s)
  <2>1. \A t \in Int : Findmsg(que[s].list, t) = 0 => Findmsg(q.list, t) = 0
    BY <1>2, <1>13, <1>15, StillNone DEF k, l
  <2> QED BY <1>15, <2>1 DEF QueSteady, C
<1>18. /\ SentText(stat[p], call[p]) = {} /\ SentHeader(stat[p], call[p]) = 0
       /\ SentText("user", Idle) = {} /\ SentHeader("user", Idle) = 0 /\ Idle \in CallT
       /\ ProcOK("user", Idle, q, pool')
  BY IdleCall DEF SentText, SentHeader, Sends, ProcOK
<1>19. Moved(TextsOf(l), {}, pool.map, TextsOf(k), {}, pool'.map)
  <2> DEFINE L == TextsOf(l)
             K == TextsOf(k)
             M == pool'.map
  <2>1. K \cap M = {} /\ K \cup M \subseteq L \cup pool.map
    BY <1>2, <1>4, <1>9
  <2>2. Ample => L \cup pool.map \subseteq K \cup M
    BY <1>4, <1>9
  <2> HIDE DEF L, K, M
  <2> QED BY <2>1, <2>2 DEF Moved, L, K, M
<1>20. Moved(TextsOf(que[s].list), SentText(stat[p], call[p]), pool.map,
             TextsOf(q.list), SentText("user", Idle), pool'.map)
  BY <1>13, <1>15, <1>18, <1>19
<1>21. pool'.fp + Len(q.list) + SentHeader("user", Idle)
         = pool.fp + Len(que[s].list) + SentHeader(stat[p], call[p])
  <2>1. PICK f \in Nat, h \in Nat : f = pool.fp /\ h = Len(l)
    BY <1>2, <1>8
  <2>2. Len(q.list) = n /\ n = h - 1 /\ pool'.fp = f + 1
    BY <1>8, <1>9, <1>11, <1>13, <1>15, <2>1
  <2>3. (f + 1) + n + 0 = f + h + 0
    BY ONLY <2>2, f \in Nat, h \in Nat, n \in Nat
  <2> QED BY <1>18, <2>1, <2>2, <2>3
<1> HIDE DEF s
<1>22. s = c.id[1]
  BY DEF s
<1> QED BY <1>1, <1>6, <1>7, <1>9, <1>15, <1>16, <1>17, <1>18, <1>20, <1>21, <1>22, SettledInvariant

\* The queue without its messages.
Gone(q, r, n) == q = [r EXCEPT !.alloc = FALSE, !.seq = n, !.list = <<>>, !.qnum = 0,
                               !.cbytes = 0, !.rwait = FALSE, !.wwait = FALSE]

\* It is a header again.
LEMMA QueGone ==
    ASSUME NEW r \in QueT, NEW n \in 0 .. MaxSeq, NEW q, Gone(q, r, n)
    PROVE  q \in QueT /\ q.list = <<>> /\ q.qnum = 0 /\ q.cbytes = 0 /\ ~q.alloc
<1>1. /\ r.qbytes \in Nat
      /\ r = [alloc |-> r.alloc, seq |-> r.seq, list |-> r.list, qnum |-> r.qnum,
              cbytes |-> r.cbytes, qbytes |-> r.qbytes, rwait |-> r.rwait, wwait |-> r.wwait]
  BY DEF QueT
<1>2. q = [alloc |-> FALSE, seq |-> n, list |-> <<>>, qnum |-> 0, cbytes |-> 0,
           qbytes |-> r.qbytes, rwait |-> FALSE, wwait |-> FALSE]
  BY <1>1 DEF Gone
<1>3. <<>> \in Seq(Message) /\ 0 \in Nat
  OBVIOUS
<1> QED BY <1>1, <1>2, <1>3 DEF QueT

\* A queue is removed.
LEMMA RmidInvariant ==
    ASSUME IInv, NEW p \in Proc, NEW c, c \in CallT, Ready(p, c.id[1]), ~Sends(stat[p], call[p]),
           Rmid(p, c)
    PROVE  IInv'
<1> DEFINE s == c.id[1]
           l == que[s].list
           w == Emptied(s)
           C == w.chans \cup Waiters(s)
           q == Removed(que[s])
           U == TextsOf(l)
<1>1. s \in Slots /\ c \in CallT
  BY CallIs
<1>2. /\ que \in [Slots -> QueT] /\ que[s] \in QueT /\ QueOK(que[s]) /\ pool.fp \in Nat
      /\ Apart(l) /\ l \in Seq(Message) /\ U \subseteq Segments /\ U \cap pool.map = {}
  BY <1>1, Here
<1>3. Len(l) \in Nat /\ que[s].seq \in 0 .. MaxSeq /\ que[s].qnum = Len(l)
  BY <1>2 DEF QueT, QueOK
<1>4. Freed(Resources, w, U, Len(l))
  <2>1. \A i \in 1 .. Len(l) : Text(l[i]) \subseteq U
    BY DEF TextsOf, Texts
  <2>2. \A i \in 1 .. Len(l) : Text(l[i]) \subseteq Segments
    BY <1>2, <2>1
  <2>3. Resources \in Account
    BY ResourcesAre
  <2> QED BY <1>2, <2>2, <2>3, EmptiedIs DEF TextsOf
<1>5. que' = [que EXCEPT ![s] = q] /\ que[s].seq < MaxSeq
  BY <1>1, <1>2 DEF Rmid
<1>6. pool' = Pool(w) /\ Settles(p, s, C, "user", Idle)
  BY <1>1, EndsSettle DEF Rmid
<1> HIDE DEF w, U
<1>7. PICK k \in Nat, n \in 0 .. MaxSeq : k = Len(l) /\ n = que[s].seq + 1
  <2>1. PICK z \in Nat : z = que[s].seq
    BY <1>3
  <2>2. z + 1 \in 0 .. MaxSeq
    BY <1>5, <2>1, MsgSpaceAssumption
  <2>3. que[s].seq + 1 = z + 1
    BY <2>1
  <2>4. PICK y \in 0 .. MaxSeq : y = que[s].seq + 1
    BY <2>2, <2>3
  <2> QED BY <1>3, <2>4
<1>8. Gone(q, que[s], n)
  <2>1. que[s].qnum - Len(que[s].list) = 0
    BY <1>3
  <2> QED BY <1>7, <2>1 DEF Removed, Gone
<1> HIDE DEF q, C
<1>9. q \in QueT /\ q.list = <<>> /\ q.qnum = 0 /\ q.cbytes = 0 /\ ~q.alloc
  <2>1. que[s] \in QueT
    BY <1>2
  <2> HIDE DEF s
  <2> QED BY ONLY <1>8, <2>1, n \in 0 .. MaxSeq, QueGone
<1>10. /\ pool' \in PoolT /\ pool'.fp = pool.fp + k /\ pool'.map \subseteq pool.map \cup U
       /\ Ample => pool'.map = pool.map \cup U
       /\ PoolSteady(pool, pool', C)
  <2>1. Freed(Resources, w, U, k) /\ w.chans \subseteq C
    BY <1>4, <1>7 DEF C
  <2>2. CASE k = 0
    <3>1. w.fp = pool.fp + 0
      BY <2>1, <2>2, ResourcesAre DEF Freed
    <3>2. pool.fp # 0 \/ w.fp = 0
      BY <1>2, <3>1
    <3> QED BY <1>6, <2>1, <3>2, FreedSteady
  <2>3. CASE k # 0
    BY <1>6, <2>1, <2>3, FreedSteady
  <2> QED BY <2>2, <2>3
<1>11. QueOK(q) /\ Apart(q.list) /\ TextsOf(q.list) = {} /\ Len(q.list) = 0
  <2>1. Len(q.list) = 0 /\ 1 .. 0 = {}
    BY <1>9
  <2>2. QueOK(q)
    BY <1>9, <2>1, EmptyList DEF QueOK
  <2> QED BY <2>1, <2>2 DEF Apart, TextsOf, Texts
<1>12. QueSteady(que[s], q, C, s)
  BY DEF QueSteady, C, Waiters
<1>13. /\ SentText(stat[p], call[p]) = {} /\ SentHeader(stat[p], call[p]) = 0
       /\ SentText("user", Idle) = {} /\ SentHeader("user", Idle) = 0 /\ Idle \in CallT
       /\ ProcOK("user", Idle, q, pool')
  BY IdleCall DEF SentText, SentHeader, Sends, ProcOK
<1>14. Moved(TextsOf(que[s].list), SentText(stat[p], call[p]), pool.map,
             TextsOf(q.list), SentText("user", Idle), pool'.map)
  <2>1. Moved(U, {}, pool.map, {}, {}, pool'.map)
    <3> DEFINE M == pool.map
               N == pool'.map
    <3>1. N \subseteq M \cup U /\ (Ample => N = M \cup U)
      BY <1>10
    <3> HIDE DEF M, N
    <3> QED BY <3>1 DEF Moved, M, N
  <2> QED BY <1>11, <1>13, <2>1 DEF U
<1>15. pool'.fp + Len(q.list) + SentHeader("user", Idle)
         = pool.fp + Len(que[s].list) + SentHeader(stat[p], call[p])
  <2>1. PICK f \in Nat : f = pool.fp
    BY <1>2
  <2>2. (f + k) + 0 + 0 = f + k + 0
    BY ONLY f \in Nat, k \in Nat
  <2> QED BY <1>7, <1>10, <1>11, <1>13, <2>1, <2>2
<1> HIDE DEF s
<1>16. s = c.id[1]
  BY DEF s
<1> QED BY <1>1, <1>5, <1>6, <1>9, <1>10, <1>11, <1>12, <1>13, <1>14, <1>15, <1>16, SettledInvariant

-----------------------------------------------------------------------------
(* The other runs.                                                         *)

\* A signal ended the sleep of msgsnd.
LEMMA EintrInvariant ==
    ASSUME IInv, NEW p \in Proc, NEW c, Running(p, c), Eintr(p, c)
    PROVE  IInv'
<1>1. CASE c.at # "eintr_que"
  BY <1>1, OutInvariant DEF Eintr
<1>2. CASE c.at = "eintr_que"
  <2> DEFINE s == c.id[1]
             C == {<<"que", s>>}
             q == [que[s] EXCEPT !.wwait = FALSE]
  <2>1. c \in CallT /\ s \in Slots
    BY CallIs DEF Running
  <2>2. que \in [Slots -> QueT] /\ que[s] \in QueT /\ pool \in PoolT
    BY <2>1, Here
  <2>3. que' = [que EXCEPT ![s] = q] /\ pool' = pool
    BY <1>2, <2>1, <2>2 DEF Eintr, QueT
  <2>4. Settles(p, s, C, "user", Idle)
    BY <1>2, <2>1, EndsSettle DEF Eintr
  <2>5. PICK b \in BOOLEAN : b = FALSE
    OBVIOUS
  <2>6. MarkedW(q, que[s], b)
    BY <2>5 DEF MarkedW
  <2> HIDE DEF q
  <2>7. /\ q \in QueT /\ q.list = que[s].list /\ q.qnum = que[s].qnum
        /\ q.cbytes = que[s].cbytes /\ q.alloc = que[s].alloc /\ q.seq = que[s].seq
        /\ (q.rwait <=> que[s].rwait)
    BY <2>2, <2>6, QueMarked
  <2>8. QueSteady(que[s], q, C, s) /\ PoolSteady(pool, pool', C)
    BY <2>2, <2>3, <2>7 DEF QueSteady, PoolSteady
  <2>9. ProcOK("user", Idle, q, pool') /\ ~Sends("user", Idle) /\ Idle \in CallT
    BY IdleCall DEF ProcOK, Sends
  <2>10. pool' \in PoolT /\ pool'.fp = pool.fp /\ pool'.map = pool.map /\ s = c.id[1]
    BY <2>2, <2>3
  <2> HIDE DEF s, C
  <2> QED BY <2>3, <2>4, <2>7, <2>8, <2>9, <2>10, QuietInvariant
<1> QED BY <1>1, <1>2

\* A queue whose limit changes.
Limited(q, r, n) == q = [r EXCEPT !.qbytes = n]

\* It is a header again.
LEMMA QueLimited ==
    ASSUME NEW r \in QueT, NEW n \in Nat, NEW q, Limited(q, r, n)
    PROVE  /\ q \in QueT /\ q.list = r.list /\ q.qnum = r.qnum /\ q.cbytes = r.cbytes
           /\ q.alloc = r.alloc /\ q.seq = r.seq /\ q.rwait = r.rwait /\ q.wwait = r.wwait
           /\ q.qbytes = n
<1>1. /\ r.cbytes \in Nat /\ r.qbytes \in Nat /\ r.qnum \in Nat /\ r.list \in Seq(Message)
      /\ r.alloc \in BOOLEAN /\ r.seq \in 0 .. MaxSeq /\ r.wwait \in BOOLEAN /\ r.rwait \in BOOLEAN
      /\ r = [alloc |-> r.alloc, seq |-> r.seq, list |-> r.list, qnum |-> r.qnum,
              cbytes |-> r.cbytes, qbytes |-> r.qbytes, rwait |-> r.rwait, wwait |-> r.wwait]
  BY DEF QueT
<1>2. q = [alloc |-> r.alloc, seq |-> r.seq, list |-> r.list, qnum |-> r.qnum,
           cbytes |-> r.cbytes, qbytes |-> n, rwait |-> r.rwait, wwait |-> r.wwait]
  BY <1>1 DEF Limited
<1> QED BY <1>1, <1>2 DEF QueT

\* A limit is set: senders go on to sleep unless somebody may raise it.
LEMMA SetLimitInvariant ==
    ASSUME IInv, NEW p \in Proc, NEW c, Running(p, c), SetLimit(p, c)
    PROVE  IInv'
<1> DEFINE s == c.id[1]
           C == {}
           q == [que[s] EXCEPT !.qbytes = c.size]
<1>1. c \in CallT /\ s \in Slots /\ c.size \in Nat
  BY CallIs DEF Running
<1>2. que \in [Slots -> QueT] /\ que[s] \in QueT /\ pool \in PoolT
  BY <1>1, Here
<1>3. que' = [que EXCEPT ![s] = q] /\ pool' = pool
  BY <1>1, <1>2 DEF SetLimit, QueT
<1>4. Settles(p, s, C, "user", Idle)
  BY <1>1, EndsSettle DEF SetLimit
<1>5. PICK n \in Nat : n = c.size
  BY <1>1
<1>6. Limited(q, que[s], n)
  BY <1>5 DEF Limited
<1> HIDE DEF q
<1>7. /\ q \in QueT /\ q.list = que[s].list /\ q.qnum = que[s].qnum /\ q.cbytes = que[s].cbytes
      /\ q.alloc = que[s].alloc /\ q.seq = que[s].seq /\ q.rwait = que[s].rwait
      /\ q.wwait = que[s].wwait /\ q.qbytes = n
  BY <1>2, <1>6, QueLimited
<1>8. que[s].cbytes \in Nat /\ (n <= que[s].qbytes \/ Superuser)
  BY <1>2, <1>5 DEF QueT, SetLimit
<1>9. QueSteady(que[s], q, C, s) /\ PoolSteady(pool, pool', C)
  BY <1>2, <1>3, <1>7, <1>8 DEF QueSteady, PoolSteady
<1>10. ProcOK("user", Idle, q, pool') /\ ~Sends("user", Idle) /\ Idle \in CallT
  BY IdleCall DEF ProcOK, Sends
<1>11. pool' \in PoolT /\ pool'.fp = pool.fp /\ pool'.map = pool.map /\ s = c.id[1]
  BY <1>2, <1>3
<1> HIDE DEF s, C
<1> QED BY <1>3, <1>4, <1>7, <1>9, <1>10, <1>11, QuietInvariant

\* p runs with call c, and the queue is there.
Serving(p, c) == Running(p, c) /\ Names(c, que[c.id[1]])

\* IPC_SET.
LEMMA MsgsetInvariant ==
    ASSUME IInv, NEW p \in Proc, NEW c, Serving(p, c), c.cmd = "set", Msgset(p, c)
    PROVE  IInv'
<1>1. Running(p, c) /\ c \in CallT
  BY DEF Serving, Running
<1>2. CASE Fault(p, c, "set", 0) /\ UNCHANGED <<que, pool>>
  <2> DEFINE d == [c EXCEPT !.at = "set", !.ref = 0]
  <2>1. d.id = c.id /\ d.cmd = c.cmd /\ d.at = "set"
    BY <1>1 DEF CallT
  <2> HIDE DEF d
  <2>2. Copies(d, que[c.id[1]])
    BY <2>1 DEF Serving, Names, Copies
  <2> QED BY <1>1, <1>2, <2>2, FaultInvariant DEF d
<1>3. CASE SetLimit(p, c)
  BY <1>1, <1>3, SetLimitInvariant
<1>4. CASE SetFails(p, c)
  BY <1>1, <1>4, OutInvariant DEF SetFails
<1> QED BY <1>2, <1>3, <1>4 DEF Msgset

\* msgsnd.
LEMMA MsgsndInvariant ==
    ASSUME IInv, NEW p \in Proc, NEW c, Serving(p, c), c.cmd = "snd", Msgsnd(p, c)
    PROVE  IInv'
<1>1. Running(p, c) /\ c \in CallT
  BY DEF Serving, Running
<1>2. CASE Fault(p, c, "type", 0) /\ UNCHANGED <<que, pool>>
  <2> DEFINE d == [c EXCEPT !.at = "type", !.ref = 0]
  <2>1. d.id = c.id /\ d.cmd = c.cmd /\ d.at = "type"
    BY <1>1 DEF CallT
  <2> HIDE DEF d
  <2>2. Copies(d, que[c.id[1]])
    BY <2>1 DEF Serving, Names, Copies
  <2> QED BY <1>1, <1>2, <2>2, FaultInvariant DEF d
<1>3. CASE Out(p, c, {}) /\ UNCHANGED <<que, pool>>
  BY <1>1, <1>3, OutInvariant
<1>4. CASE Getres(p, c)
  <2>1. Sender(p, c) /\ que[c.id[1]].seq = c.id[2]
    BY DEF Serving, Running, Names, Sender
  <2> QED BY <1>1, <1>4, <2>1, GetresInvariant
<1> QED BY <1>2, <1>3, <1>4 DEF Msgsnd

\* No message is found.
LEMMA NoneInvariant ==
    ASSUME IInv, NEW p \in Proc, NEW c, Serving(p, c), c.cmd = "rcv",
           Findmsg(que[c.id[1]].list, c.type) = 0,
           que' = [que EXCEPT ![c.id[1]].rwait = @ \/ ~c.nowait],
           OutOrWait(p, c, <<"qnum", c.id[1]>>, {}), UNCHANGED pool
    PROVE  IInv'
<1> DEFINE s == c.id[1]
           q == [que[s] EXCEPT !.rwait = que[s].rwait \/ ~c.nowait]
           ch == <<"qnum", s>>
           d == Asking(c, ch)
<1>1. Running(p, c) /\ c \in CallT /\ Names(c, que[s]) /\ s \in Slots /\ c.nowait \in BOOLEAN
  BY CallIs DEF Serving, Running
<1>2. que \in [Slots -> QueT] /\ que[s] \in QueT /\ pool \in PoolT
  BY <1>1, Here
<1>3. que' = [que EXCEPT ![s] = q]
  BY <1>1, <1>2 DEF QueT
<1>4. que[s].wwait \in BOOLEAN /\ que[s].rwait \in BOOLEAN
      /\ que[s].cbytes \in Nat /\ que[s].qbytes \in Nat
  BY <1>2 DEF QueT
<1>5. PICK b \in BOOLEAN : b = (que[s].rwait \/ ~c.nowait)
  BY <1>1, <1>4
<1>6. MarkedR(q, que[s], b)
  BY <1>5 DEF MarkedR
<1>7. ch \in Chan /\ ch[1] # "lock"
  BY <1>1 DEF Chan
<1>8. /\ d.id = c.id /\ d.chan = ch /\ d.cmd = c.cmd /\ d.type = c.type
  BY <1>1 DEF CallT, Asking
<1> HIDE DEF q, d
<1>9. /\ q \in QueT /\ q.list = que[s].list /\ q.qnum = que[s].qnum /\ q.cbytes = que[s].cbytes
      /\ q.alloc = que[s].alloc /\ q.seq = que[s].seq /\ q.qbytes = que[s].qbytes
      /\ (q.rwait <=> b) /\ (q.wwait <=> que[s].wwait)
  BY <1>2, <1>6, QueMarked
<1>10. QueSteady(que[s], q, {}, s)
  BY <1>1, <1>4, <1>5, <1>9 DEF QueSteady
<1>11. PoolSteady(pool, pool', {})
  BY DEF PoolSteady
<1>12. ~c.nowait => Sleeps(d, q, pool')
  BY <1>1, <1>5, <1>8, <1>9 DEF Sleeps, Names
<1>13. pool' \in PoolT /\ pool'.fp = pool.fp /\ pool'.map = pool.map
  BY <1>2
<1>14. s = c.id[1]
  OBVIOUS
<1> DEFINE C == {}
<1>15. OutOrWait(p, c, ch, C) /\ QueSteady(que[s], q, C, s) /\ PoolSteady(pool, pool', C)
  BY <1>10, <1>11
<1>16. IInv /\ Running(p, c)
  BY <1>1
<1> HIDE DEF s, ch, C
<1> QED BY ONLY p \in Proc, <1>3, <1>7, <1>9, <1>12, <1>13, <1>14, <1>15, <1>16,
           OutOrWaitInvariant DEF d

\* msgrcv.
LEMMA MsgrcvInvariant ==
    ASSUME IInv, NEW p \in Proc, NEW c, Serving(p, c), c.cmd = "rcv", Msgrcv(p, c)
    PROVE  IInv'
<1> DEFINE s == c.id[1]
           i == Findmsg(que[s].list, c.type)
<1>1. /\ Running(p, c) /\ c \in CallT /\ Names(c, que[s]) /\ s \in Slots /\ c.type \in Int
      /\ Ready(p, s) /\ ~Sends(stat[p], call[p])
  BY CallIs DEF Serving, Running
<1>2. que[s].list \in Seq(Message)
  BY <1>1, Here
<1> HIDE DEF i
<1>3. i = 0 \/ i \in 1 .. Len(que[s].list)
  BY <1>1, <1>2, FindmsgIs DEF i
<1>4. CASE /\ i = 0 /\ que' = [que EXCEPT ![s].rwait = @ \/ ~c.nowait]
           /\ OutOrWait(p, c, <<"qnum", s>>, {}) /\ UNCHANGED pool
  BY <1>4, NoneInvariant DEF i
<1>5. CASE Out(p, c, {}) /\ UNCHANGED <<que, pool>>
  BY <1>1, <1>5, OutInvariant
<1>6. CASE i # 0 /\ Fault(p, c, "out", i) /\ UNCHANGED <<que, pool>>
  <2> DEFINE d == [c EXCEPT !.at = "out", !.ref = i]
  <2>1. d.id = c.id /\ d.cmd = c.cmd /\ d.type = c.type /\ d.at = "out" /\ d.ref = i
    BY <1>1 DEF CallT
  <2> HIDE DEF d
  <2>2. Copies(d, que[s])
    BY <1>1, <1>6, <2>1 DEF Names, Copies, i
  <2>3. i \in Nat
    BY <1>3
  <2>4. PICK j \in Nat : j = i
    BY <2>3
  <2>5. /\ Fault(p, c, "out", j) /\ UNCHANGED <<que, pool>>
        /\ Copies([c EXCEPT !.at = "out", !.ref = j], que[s])
    BY <1>6, <2>2, <2>4 DEF d
  <2>6. "out" \in {"type", "out", "set"}
    OBVIOUS
  <2> QED BY <1>1, <2>5, <2>6, FaultInvariant
<1>7. CASE i # 0 /\ Take(p, c, i)
  BY <1>1, <1>3, <1>7, TakeInvariant DEF Names
<1> QED BY <1>4, <1>5, <1>6, <1>7 DEF Msgrcv, i

\* p, which waits for no page, goes on in st with call d; nothing else
\* changes.
LEMMA LocalInvariant ==
    ASSUME IInv, NEW p \in Proc, stat[p] # "fault",
           NEW st \in {"user", "asleep", "run", "intr"}, NEW d \in CallT,
           stat' = [stat EXCEPT ![p] = st], call' = [call EXCEPT ![p] = d],
           UNCHANGED <<que, lock, pool>>,
           ProcOK(st, d, que[d.id[1]], pool),
           st = "asleep" /\ d.chan[1] = "lock" => d.chan = <<"lock", d.id[1]>> /\ lock[d.id[1]]
    PROVE  IInv'
<1>1. /\ que \in [Slots -> QueT] /\ lock \in [Slots -> BOOLEAN] /\ pool \in PoolT
      /\ stat \in [Proc -> Doing] /\ call \in [Proc -> CallT]
  BY DEF IInv, Typed
<1>2. st \in Doing /\ st # "fault"
  BY DEF Doing
<1>3. /\ stat'[p] = st /\ call'[p] = d
      /\ \A r \in Proc : r # p => stat'[r] = stat[r] /\ call'[r] = call[r]
  BY <1>1
<1>4. Typed'
  BY <1>1, <1>2 DEF Typed
<1>5. Counted'
  BY DEF IInv, Counted
<1>6. \A r \in Proc : Sends(stat'[r], call'[r]) <=> Sends(stat[r], call[r])
  BY <1>2, <1>3 DEF Sends
<1>7. \A r \in Proc : SentText(stat'[r], call'[r]) = SentText(stat[r], call[r])
  BY <1>2, <1>3 DEF SentText, Sends
<1>8. Shared'
  <2>1. Held' = Held
    <3>1. \A x \in Holder : x[1] = "que" \/ x[2] \in Proc
      BY DEF Holder
    <3>2. \A x \in Holder : x[1] # "que" =>
            SentText(stat'[x[2]], call'[x[2]]) = SentText(stat[x[2]], call[x[2]])
      BY <1>7, <3>1
    <3>3. \A x \in Holder : Held'[x] = Held[x]
      BY <3>2 DEF Held
    <3> QED BY <3>3 DEF Held
  <2> QED BY <2>1 DEF IInv, Shared, Shares
<1>9. Headers'
  <2>1. Sending' = Sending
    BY <1>6 DEF Sending, Sends
  <2> QED BY <2>1 DEF IInv, Headers, Listed, Lens
<1>10. \A r \in Proc : stat'[r] = "fault" <=> stat[r] = "fault"
  BY <1>2, <1>3
<1>11. \A r \in Proc : stat[r] = "fault" => call'[r] = call[r]
  BY <1>3
<1>12. Locks'
  <2>1. Locks
    BY DEF IInv
  <2>2. \A r \in Proc : stat'[r] = "fault" => lock'[call'[r].id[1]]
    BY <1>10, <1>11, <2>1 DEF Locks
  <2>3. \A i \in Slots : lock'[i] => \E r \in Proc : stat'[r] = "fault" /\ call'[r].id[1] = i
    BY <1>10, <1>11, <2>1 DEF Locks
  <2>4. \A r, v \in Proc : stat'[r] = "fault" /\ stat'[v] = "fault"
                             /\ call'[r].id[1] = call'[v].id[1] => r = v
    BY <1>10, <1>11, <2>1 DEF Locks
  <2>5. ASSUME NEW r \in Proc, stat'[r] = "asleep", call'[r].chan[1] = "lock"
        PROVE  call'[r].chan = <<"lock", call'[r].id[1]>> /\ lock'[call'[r].id[1]]
    <3>1. CASE r = p
      BY <1>3, <2>5, <3>1
    <3>2. CASE r # p
      BY <1>3, <2>1, <2>5, <3>2 DEF Locks
    <3> QED BY <3>1, <3>2
  <2> QED BY <2>2, <2>3, <2>4, <2>5 DEF Locks
<1>13. Procs'
  <2>1. ProcOK(stat'[p], call'[p], que'[call'[p].id[1]], pool')
    BY <1>3
  <2>2. ASSUME NEW r \in Proc, r # p
        PROVE  ProcOK(stat'[r], call'[r], que'[call'[r].id[1]], pool')
    <3>1. ProcOK(stat[r], call[r], que[call[r].id[1]], pool)
      BY DEF IInv, Procs
    <3> QED BY <1>3, <2>2, <3>1
  <2> QED BY <2>1, <2>2 DEF Procs
<1> QED BY <1>4, <1>5, <1>8, <1>9, <1>12, <1>13 DEF IInv

-----------------------------------------------------------------------------
(* Steps.                                                                  *)

\* A call that is not waiting for a page.
Fresh(c) == c \in CallT /\ Args(c) /\ c.at \in {"start", "again", "eintr", "eintr_que"}

\* p has the lock of an existing queue.
LEMMA ServeInvariant ==
    ASSUME IInv, NEW p \in Proc, NEW c, Serving(p, c), Fresh(c), Serve(p, c)
    PROVE  IInv'
<1>1. Running(p, c) /\ c.cmd \in {"snd", "rcv", "rmid", "set"}
  BY DEF Serving, Fresh, Args
<1>2. \/ Eintr(p, c)
      \/ c.cmd = "snd" /\ Msgsnd(p, c)
      \/ c.cmd = "rcv" /\ Msgrcv(p, c)
      \/ c.cmd = "rmid" /\ Rmid(p, c)
      \/ c.cmd = "set" /\ Msgset(p, c)
  BY <1>1 DEF Serve, Fresh
<1>3. CASE Eintr(p, c)
  BY <1>1, <1>3, EintrInvariant
<1>4. CASE c.cmd = "snd" /\ Msgsnd(p, c)
  BY <1>4, MsgsndInvariant
<1>5. CASE c.cmd = "rcv" /\ Msgrcv(p, c)
  BY <1>5, MsgrcvInvariant
<1>6. CASE c.cmd = "rmid" /\ Rmid(p, c)
  BY <1>1, <1>6, RmidInvariant DEF Running
<1>7. CASE c.cmd = "set" /\ Msgset(p, c)
  BY <1>7, MsgsetInvariant
<1> QED BY <1>2, <1>3, <1>4, <1>5, <1>6, <1>7

\* p looks for the queue of its call, and waits for its lock.
LEMMA AttemptInvariant ==
    ASSUME IInv, NEW p \in Proc, stat[p] # "fault", NEW c, Fresh(c), Attempt(p, c)
    PROVE  IInv'
<1> DEFINE s == c.id[1]
<1>1. c \in CallT /\ Args(c) /\ s \in Slots
  BY CallIs DEF Fresh
<1>2. CASE /\ lock[s] /\ stat' = [stat EXCEPT ![p] = "asleep"]
           /\ call' = [call EXCEPT ![p] = [c EXCEPT !.chan = <<"lock", s>>]]
           /\ UNCHANGED <<que, lock, pool>>
  <2> DEFINE d == [c EXCEPT !.chan = <<"lock", s>>]
             st == "asleep"
  <2>1. <<"lock", s>> \in Chan
    BY <1>1 DEF Chan
  <2>2. /\ d \in CallT /\ d.chan = <<"lock", s>> /\ d.id = c.id /\ d.cmd = c.cmd
        /\ d.type = c.type /\ d.size = c.size /\ d.at = c.at
    BY <1>1, <2>1 DEF CallT
  <2>3. call' = [call EXCEPT ![p] = d] /\ stat' = [stat EXCEPT ![p] = st]
    BY <1>2
  <2> HIDE DEF d
  <2>4. Args(d)
    BY <1>1, <2>2 DEF Args
  <2>5. Sleeps(d, que[s], pool)
    BY <2>2 DEF Sleeps
  <2>6. ProcOK(st, d, que[d.id[1]], pool)
    BY <2>2, <2>4, <2>5 DEF ProcOK, Fresh
  <2>7. d.chan = <<"lock", d.id[1]>> /\ lock[d.id[1]]
    BY <1>2, <2>2
  <2>8. st \in {"user", "asleep", "run", "intr"}
    OBVIOUS
  <2>9. UNCHANGED <<que, lock, pool>>
    BY <1>2
  <2> HIDE DEF st
  <2> QED BY <2>2, <2>3, <2>6, <2>7, <2>8, <2>9, LocalInvariant
<1>3. ASSUME ~lock[s]
      PROVE  Running(p, c)
  <2>1. \A r \in Proc : stat[r] = "fault" => lock[call[r].id[1]]
    BY DEF IInv, Locks
  <2>2. Ready(p, s)
    BY <1>3, <2>1 DEF Ready
  <2>3. ~Sends(stat[p], call[p])
    BY DEF Sends
  <2> QED BY <1>1, <2>2, <2>3 DEF Running
<1>4. CASE ~lock[s] /\ Out(p, c, {}) /\ UNCHANGED <<que, pool>>
  BY <1>3, <1>4, OutInvariant
<1>5. CASE ~lock[s] /\ Msgconv(c.id) /\ Serve(p, c)
  <2>1. Serving(p, c)
    BY <1>3, <1>5 DEF Serving, Msgconv, Names
  <2> QED BY <1>5, <2>1, ServeInvariant
<1> QED BY <1>2, <1>4, <1>5 DEF Attempt

\* A call, when it begins.
LEMMA EnterIs ==
    ASSUME NEW id \in Id, NEW r \in Calls
    PROVE  Fresh(Enter(r, id))
<1> DEFINE c == Enter(r, id)
<1>1. /\ r \in Call
      /\ r.cmd = "snd" => r.type \in MsgTypes /\ r.size \in MsgSizes
      /\ r.cmd = "rcv" => r.type \in Selects
      /\ r.cmd = "set" => r.size \in Limits
  BY MsgAssumption
<1>2. /\ r.cmd \in {"snd", "rcv", "rmid", "set"} /\ r.type \in Int /\ r.size \in Nat
      /\ r.nowait \in BOOLEAN
  BY <1>1 DEF Call
<1>3. c = [cmd |-> r.cmd, type |-> r.type, size |-> r.size, nowait |-> r.nowait, id |-> id,
           at |-> "start", chan |-> <<"msgfp", 0>>, ref |-> 0]
  <2>1. c = [Idle EXCEPT !.cmd = r.cmd, !.type = r.type, !.size = r.size,
                         !.nowait = r.nowait, !.id = id]
    BY DEF Enter
  <2>2. Idle = [cmd |-> "none", type |-> 0, size |-> 0, nowait |-> FALSE, id |-> <<0, 0>>,
                at |-> "start", chan |-> <<"msgfp", 0>>, ref |-> 0]
    BY DEF Idle
  <2> HIDE DEF c
  <2> QED BY <2>1, <2>2
<1> HIDE DEF c
<1>4. <<"msgfp", 0>> \in Chan
  BY DEF Chan
<1>5. c \in CallT
  BY <1>2, <1>3, <1>4 DEF CallT
<1>6. c.cmd = r.cmd /\ c.type = r.type /\ c.size = r.size /\ c.at = "start"
  BY <1>3
<1> QED BY <1>1, <1>2, <1>5, <1>6 DEF Fresh, Args, c

\* A call begins.
LEMMA BeginInvariant ==
    ASSUME IInv, NEW p \in Proc, NEW id \in Id, NEW r \in Calls, Begin(p, id, r)
    PROVE  IInv'
<1>1. PICK c : c = Enter(r, id)
  OBVIOUS
<1>2. Fresh(c)
  BY <1>1, EnterIs
<1>3. stat[p] # "fault" /\ Attempt(p, c)
  BY <1>1 DEF Begin
<1> QED BY <1>2, <1>3, AttemptInvariant

\* What is known of the call of a process.
LEMMA CallOf ==
    ASSUME IInv, NEW p \in Proc, stat[p] # "user"
    PROVE  /\ call[p] \in CallT /\ Args(call[p]) /\ call[p].id[1] \in Slots
           /\ ProcOK(stat[p], call[p], que[call[p].id[1]], pool)
           /\ stat[p] # "fault" => Fresh(call[p])
           /\ stat[p] = "fault" => Copies(call[p], que[call[p].id[1]])
                                   /\ Ready(p, call[p].id[1])
<1>1. call[p] \in CallT
  BY DEF IInv, Typed
<1>2. ProcOK(stat[p], call[p], que[call[p].id[1]], pool)
  BY DEF IInv, Procs
<1>3. call[p].id[1] \in Slots
  BY <1>1, CallIs
<1>4. Args(call[p]) /\ (stat[p] # "fault" => Fresh(call[p]))
  BY <1>1, <1>2 DEF ProcOK, Fresh
<1>5. stat[p] = "fault" => Copies(call[p], que[call[p].id[1]])
  BY <1>2 DEF ProcOK
<1>6. stat[p] = "fault" => Ready(p, call[p].id[1])
  BY DEF IInv, Locks, Ready
<1> QED BY <1>1, <1>2, <1>3, <1>4, <1>5, <1>6

\* A sleep ends with a signal.
LEMMA InterruptedInvariant ==
    ASSUME IInv, NEW p \in Proc, Interrupted(p)
    PROVE  IInv'
<1> DEFINE c == call[p]
<1>1. stat[p] = "intr"
  BY DEF Interrupted
<1>2. Fresh(c)
  BY <1>1, CallOf
<1>3. ASSUME NEW at \in {"eintr", "eintr_que"}, Attempt(p, [c EXCEPT !.at = at])
      PROVE  IInv'
  <2> DEFINE d == [c EXCEPT !.at = at]
  <2>1. /\ d \in CallT /\ d.cmd = c.cmd /\ d.type = c.type /\ d.size = c.size /\ d.at = at
    BY <1>2 DEF Fresh, CallT
  <2> HIDE DEF d
  <2>2. Fresh(d)
    BY <1>2, <2>1 DEF Fresh, Args
  <2>3. Attempt(p, d)
    BY <1>3 DEF d
  <2> QED BY <1>1, <2>2, <2>3, AttemptInvariant
<1>4. CASE /\ stat' = [stat EXCEPT ![p] = "user"] /\ call' = [call EXCEPT ![p] = Idle]
           /\ UNCHANGED <<que, lock, pool>>
  <2> DEFINE st == "user"
             d == Idle
  <2>1. st \in {"user", "asleep", "run", "intr"} /\ stat' = [stat EXCEPT ![p] = st]
        /\ call' = [call EXCEPT ![p] = d] /\ d \in CallT /\ st # "asleep"
        /\ stat[p] # "fault" /\ UNCHANGED <<que, lock, pool>>
    BY <1>1, <1>4, IdleCall
  <2>2. ProcOK(st, d, que[d.id[1]], pool)
    BY DEF ProcOK
  <2> HIDE DEF st, d
  <2> QED BY <2>1, <2>2, LocalInvariant
<1>5. \/ /\ stat' = [stat EXCEPT ![p] = "user"] /\ call' = [call EXCEPT ![p] = Idle]
         /\ UNCHANGED <<que, lock, pool>>
      \/ \E at \in {"eintr", "eintr_que"} : Attempt(p, [c EXCEPT !.at = at])
  BY DEF Interrupted
<1> QED BY <1>3, <1>4, <1>5

\* A process is signalled, or stopped and continued.
LEMMA SignalInvariant ==
    ASSUME IInv, NEW p \in Proc, Signal(p) \/ StopCont(p)
    PROVE  IInv'
<1> DEFINE d == call[p]
<1>1. PICK st \in {"run", "intr"} : stat' = [stat EXCEPT ![p] = st]
  BY DEF Signal, StopCont
<1>2. stat[p] # "user" /\ stat[p] # "fault" /\ UNCHANGED <<que, lock, pool>> /\ call' = call
  BY DEF Signal, StopCont
<1>3. Fresh(d)
  BY <1>2, CallOf
<1>4. ProcOK(st, d, que[d.id[1]], pool)
  BY <1>1, <1>3 DEF ProcOK, Fresh
<1>5. call' = [call EXCEPT ![p] = d]
  BY <1>2 DEF IInv, Typed
<1>6. d \in CallT /\ st \in {"user", "asleep", "run", "intr"} /\ st # "asleep"
  BY <1>3 DEF Fresh
<1> HIDE DEF d
<1> QED BY <1>1, <1>2, <1>4, <1>5, <1>6, LocalInvariant

\* The page has come.
LEMMA PageInInvariant ==
    ASSUME IInv, NEW p \in Proc, PageIn(p)
    PROVE  IInv'
<1> DEFINE c == call[p]
           s == c.id[1]
<1>1. stat[p] = "fault"
  BY DEF PageIn
<1>2. /\ c \in CallT /\ Args(c) /\ s \in Slots /\ Copies(c, que[s]) /\ Ready(p, s)
      /\ c.type \in Int /\ c.size \in Nat
  BY <1>1, CallOf, CallIs
<1>3. Names(c, que[s])
  BY <1>2 DEF Copies
<1>4. c.at # "text" => ~Sends(stat[p], call[p])
  BY DEF Sends
<1>5. c.at # "text" => Running(p, c) /\ Serving(p, c)
  BY <1>2, <1>3, <1>4 DEF Running, Serving
<1>6. que[s].list \in Seq(Message) /\ pool \in PoolT /\ pool.fp \in Nat
  BY <1>2, Here
<1>7. CASE c.at = "type" /\ Getres(p, c)
  <2>1. c.cmd = "snd"
    BY <1>2, <1>7 DEF Copies
  <2>2. Sender(p, c) /\ que[s].seq = c.id[2]
    BY <1>2, <1>3, <2>1 DEF Sender, Names
  <2> QED BY <1>5, <1>7, <2>2, GetresInvariant
<1>8. CASE c.at = "text" /\ (Enqueue(p, c, c.ref, pool) \/ TextFaults(p, c, Resources))
  <2> DEFINE U == Units(c.ref, Btoq(c.size))
  <2>1. c.cmd = "snd" /\ c.ref \in Segments
    BY <1>2, <1>8 DEF Copies
  <2>2. SentText(stat[p], call[p]) = U /\ SentHeader(stat[p], call[p]) = 1
    BY <1>1, <1>8 DEF SentText, SentHeader, Sends
  <2>3. U \subseteq Segments /\ U \cap pool.map = {}
    BY <1>2, <2>2, SenderHas
  <2> HIDE DEF U
  <2>4. Takes(p, U, pool)
    BY <1>6, <2>2, <2>3 DEF Takes
  <2>5. Sender(p, c)
    BY <1>2, <1>3, <2>1 DEF Sender, Names
  <2>6. CASE Enqueue(p, c, c.ref, pool)
    <3>1. c.ref \in 0 .. msgseg
      BY <2>1 DEF Segments
    <3> HIDE DEF c
    <3> QED BY <1>6, <2>4, <2>5, <2>6, <3>1, EnqueueInvariant DEF U
  <2>7. CASE TextFaults(p, c, Resources)
    <3>1. Resources \in Account /\ Takes(p, U, Resources)
      BY <2>4, ResourcesAre DEF Takes
    <3> HIDE DEF c
    <3> QED BY <2>3, <2>5, <2>7, <3>1, TextFaultsInvariant DEF U
  <2> QED BY <1>8, <2>6, <2>7
<1>9. CASE c.at = "out" /\ Take(p, c, c.ref)
  <2>1. c.ref # 0 /\ c.ref = Findmsg(que[s].list, c.type)
    BY <1>2, <1>9 DEF Copies
  <2>2. c.ref \in 1 .. Len(que[s].list)
    BY <1>2, <1>6, <2>1, FindmsgIs
  <2> HIDE DEF c
  <2> QED BY <1>2, <1>3, <1>4, <1>9, <2>2, TakeInvariant DEF Names, c
<1>10. CASE c.at = "set" /\ SetLimit(p, c)
  BY <1>5, <1>10, SetLimitInvariant
<1>11. CASE c.at # "text" /\ Out(p, c, {}) /\ UNCHANGED <<que, pool>>
  BY <1>5, <1>11, OutInvariant
<1> QED BY <1>7, <1>8, <1>9, <1>10, <1>11 DEF PageIn

\* A queue is made.
LEMMA MsggetInvariant ==
    ASSUME IInv, NEW p \in Proc, NEW s \in Slots, Msgget(p, s)
    PROVE  IInv'
<1> DEFINE r == que[s]
           q == [r EXCEPT !.alloc = TRUE, !.list = <<>>, !.qnum = 0, !.qbytes = msgmnb,
                          !.rwait = FALSE, !.wwait = FALSE]
<1>1. /\ que \in [Slots -> QueT] /\ r \in QueT /\ QueOK(r)
  BY Here
<1>2. ~r.alloc /\ r.list = <<>> /\ r.cbytes = Bytes(Sizes(<<>>)) /\ r.cbytes = 0
  BY <1>1, EmptyList DEF QueOK, Msgget
<1>3. que' = [que EXCEPT ![s] = q] /\ UNCHANGED <<lock, pool, stat, call>>
  BY <1>1 DEF Msgget, QueT
<1>4. q = [alloc |-> TRUE, seq |-> r.seq, list |-> <<>>, qnum |-> 0, cbytes |-> r.cbytes,
           qbytes |-> msgmnb, rwait |-> FALSE, wwait |-> FALSE]
  <2>1. r = [alloc |-> r.alloc, seq |-> r.seq, list |-> r.list, qnum |-> r.qnum,
             cbytes |-> r.cbytes, qbytes |-> r.qbytes, rwait |-> r.rwait, wwait |-> r.wwait]
    BY <1>1 DEF QueT
  <2>2. q = [r EXCEPT !.alloc = TRUE, !.list = <<>>, !.qnum = 0, !.qbytes = msgmnb,
                      !.rwait = FALSE, !.wwait = FALSE]
    OBVIOUS
  <2> HIDE DEF r, q
  <2> QED BY <2>1, <2>2
<1> HIDE DEF q
<1>5. msgmnb \in Nat /\ <<>> \in Seq(Message) /\ r.seq \in 0 .. MaxSeq /\ r.cbytes \in Nat
  BY <1>1, MsgSpaceAssumption DEF QueT
<1>6. q \in QueT /\ q.list = <<>> /\ q.qnum = 0 /\ q.cbytes = r.cbytes
  BY <1>4, <1>5 DEF QueT
<1>7. QueOK(q) /\ Len(q.list) = 0 /\ Len(r.list) = 0 /\ q.list = r.list
  BY <1>2, <1>6 DEF QueOK
<1>8. \A i \in Slots : que'[i] = IF i = s THEN q ELSE que[i]
  BY <1>1, <1>3
<1>9. Typed'
  BY <1>1, <1>3, <1>6 DEF IInv, Typed
<1>10. Counted'
  BY <1>7, <1>8 DEF IInv, Counted
<1>11. \A i \in Slots : que'[i].list = que[i].list
  BY <1>7, <1>8
<1>12. Shared'
  <2>1. Held' = Held
    <3>1. \A x \in Holder : x[1] = "que" => x[2] \in Slots
      BY DEF Holder
    <3>2. \A x \in Holder : Held'[x] = Held[x]
      BY <1>3, <1>11, <3>1 DEF Held
    <3> QED BY <3>2 DEF Held
  <2> QED BY <1>3, <1>11, <2>1 DEF IInv, Shared, Shares
<1>13. Headers'
  <2>1. Lens' = Lens
    BY <1>11 DEF Lens
  <2>2. Sending' = Sending
    BY <1>3 DEF Sending
  <2>3. Listed(Lens)' = Listed(Lens)
    BY <2>1 DEF Listed
  <2> QED BY <1>3, <2>2, <2>3 DEF IInv, Headers
<1>14. Locks'
  BY <1>3 DEF IInv, Locks
<1>15. Procs'
  <2> SUFFICES ASSUME NEW v \in Proc
               PROVE  ProcOK(stat[v], call[v], que'[call[v].id[1]], pool)
    BY <1>3 DEF Procs
  <2>1. ProcOK(stat[v], call[v], que[call[v].id[1]], pool) /\ call[v].id[1] \in Slots
    BY CallIs DEF IInv, Procs, Typed
  <2>2. CASE call[v].id[1] # s
    BY <1>8, <2>1, <2>2
  <2>3. CASE call[v].id[1] = s
    <3>1. ~Copies(call[v], r) /\ ~Names(call[v], r)
      BY <1>2 DEF Copies, Names
    <3>2. stat[v] = "asleep" => Sleeps(call[v], que'[s], pool)
      BY <2>1, <2>3, <3>1 DEF ProcOK, Sleeps
    <3> QED BY <2>1, <2>3, <3>1, <3>2 DEF ProcOK
  <2> QED BY <2>2, <2>3
<1> QED BY <1>9, <1>10, <1>12, <1>13, <1>14, <1>15 DEF IInv

\* At the start.
LEMMA InitInvariant == Init => IInv
<1> SUFFICES ASSUME Init
             PROVE  IInv
  OBVIOUS
<1> DEFINE e == [alloc |-> FALSE, seq |-> 0, list |-> <<>>, qnum |-> 0,
                 cbytes |-> 0, qbytes |-> 0, rwait |-> FALSE, wwait |-> FALSE]
<1>1. /\ que = [s \in Slots |-> e] /\ lock = [s \in Slots |-> FALSE]
      /\ pool = [fp |-> msgtql, map |-> 1 .. msgseg, want |-> FALSE]
      /\ stat = [p \in Proc |-> "user"] /\ call = [p \in Proc |-> Idle]
  BY DEF Init
<1>2. e \in QueT
  <2>1. 0 \in 0 .. MaxSeq /\ <<>> \in Seq(Message)
    BY MsgSpaceAssumption
  <2> QED BY <2>1 DEF QueT
<1>3. pool \in PoolT /\ pool.fp = msgtql /\ pool.map = Segments /\ msgtql \in Nat
  BY <1>1, MsgAssumption DEF PoolT, Segments
<1>4. Typed
  BY <1>1, <1>2, <1>3, IdleCall DEF Typed, Doing
<1>5. e.list = <<>> /\ Len(e.list) = 0
  OBVIOUS
<1>6. QueOK(e)
  BY EmptyList DEF QueOK
<1> HIDE DEF e
<1>7. \A s \in Slots : que[s] = e
  BY <1>1
<1>8. \A p \in Proc : stat[p] = "user" /\ ~Sends(stat[p], call[p])
  BY <1>1 DEF Sends
<1>9. Counted
  BY <1>6, <1>7 DEF Counted
<1>10. Shared
  <2>1. \A i \in 1 .. Len(e.list) : FALSE
    BY <1>5
  <2>2. Apart(e.list) /\ TextsOf(e.list) = {}
    BY <2>1 DEF Apart, TextsOf, Texts
  <2>3. ASSUME NEW x \in Holder
        PROVE  Held[x] = {}
    <3>1. (x[1] = "que" /\ x[2] \in Slots) \/ (x[1] # "que" /\ x[2] \in Proc)
      BY DEF Holder
    <3>2. x[1] # "que" => SentText(stat[x[2]], call[x[2]]) = {}
      BY <1>8, <3>1 DEF SentText
    <3> QED BY <1>7, <2>2, <3>1, <3>2 DEF Held
  <2>4. Shares(Held, pool.map)
    BY <1>3, <2>3 DEF Shares
  <2> QED BY <1>7, <2>2, <2>4 DEF Shared
<1>11. Headers
  <2>1. Sending = {}
    BY <1>8 DEF Sending
  <2>2. Listed(Lens) = {}
    <3>1. \A s \in Slots : Lens[s] = 0
      BY <1>5, <1>7 DEF Lens
    <3> QED BY <3>1 DEF Listed
  <2>3. IsFiniteSet({}) /\ Cardinality({}) = 0
    BY FS_EmptySet
  <2>4. msgtql + 0 + 0 = msgtql
    BY <1>3
  <2> QED BY <1>3, <2>1, <2>2, <2>3, <2>4 DEF Headers
<1>12. Locks
  BY <1>1, <1>8 DEF Locks
<1>13. Procs
  BY <1>8 DEF Procs, ProcOK
<1> QED BY <1>4, <1>9, <1>10, <1>11, <1>12, <1>13 DEF IInv

\* Every step keeps the invariant.
LEMMA NextInvariant ==
    ASSUME IInv, [Next]_vars
    PROVE  IInv'
<1>1. CASE UNCHANGED vars
  <2>1. que' = que /\ lock' = lock /\ pool' = pool /\ stat' = stat /\ call' = call
    BY <1>1 DEF vars
  <2>2. Typed' /\ Counted'
    BY <2>1 DEF IInv, Typed, Counted
  <2>3. Shared'
    <3>1. Held' = Held
      BY <2>1 DEF Held
    <3> QED BY <2>1, <3>1 DEF IInv, Shared, Shares
  <2>4. Headers'
    <3>1. Lens' = Lens /\ Sending' = Sending
      BY <2>1 DEF Lens, Sending
    <3>2. Listed(Lens)' = Listed(Lens)
      BY <3>1 DEF Listed
    <3> QED BY <2>1, <3>1, <3>2 DEF IInv, Headers
  <2>5. Locks' /\ Procs'
    BY <2>1 DEF IInv, Locks, Procs
  <2> QED BY <2>2, <2>3, <2>4, <2>5 DEF IInv
<1>2. ASSUME NEW p \in Proc, NEW id \in Id, NEW r \in Calls, Begin(p, id, r)
      PROVE  IInv'
  BY <1>2, BeginInvariant
<1>3. ASSUME NEW p \in Proc, NEW s \in Slots, Msgget(p, s)
      PROVE  IInv'
  BY <1>3, MsggetInvariant
<1>4. ASSUME NEW p \in Proc, Again(p)
      PROVE  IInv'
  <2>1. stat[p] = "run" /\ Attempt(p, call[p])
    BY <1>4 DEF Again
  <2>2. stat[p] # "fault" /\ Fresh(call[p])
    BY <2>1, CallOf
  <2> QED BY <2>1, <2>2, AttemptInvariant
<1>5. ASSUME NEW p \in Proc, Interrupted(p)
      PROVE  IInv'
  BY <1>5, InterruptedInvariant
<1>6. ASSUME NEW p \in Proc, PageIn(p)
      PROVE  IInv'
  BY <1>6, PageInInvariant
<1>7. ASSUME NEW p \in Proc, Signal(p) \/ StopCont(p)
      PROVE  IInv'
  BY <1>7, SignalInvariant
<1> QED BY <1>1, <1>2, <1>3, <1>4, <1>5, <1>6, <1>7 DEF Next

\* So it holds always.
THEOREM Invariant == Spec => []IInv
<1>1. Init => IInv
  BY InitInvariant
<1>2. IInv /\ [Next]_vars => IInv'
  BY NextInvariant
<1> QED BY <1>1, <1>2, PTL DEF Spec

-----------------------------------------------------------------------------
(* What the invariant implies.                                             *)

\* No list is longer than there are headers.
LEMMA LengthsBounded ==
    ASSUME IInv, NEW s \in Slots
    PROVE  Len(que[s].list) \in Nat /\ Len(que[s].list) <= msgtql
<1>1. que \in [Slots -> QueT] /\ pool.fp \in Nat
  BY DEF IInv, Typed, PoolT
<1>2. \A i \in Slots : Len(que[i].list) \in Nat
  BY <1>1 DEF QueT
<1> DEFINE L == Lens
<1>3. L \in [Slots -> Nat] /\ L[s] = Len(que[s].list)
  BY <1>2 DEF Lens
<1>4. /\ IsFiniteSet(Listed(L)) /\ IsFiniteSet(Sending)
      /\ pool.fp + Cardinality(Listed(L)) + Cardinality(Sending) = msgtql
  BY DEF IInv, Headers
<1> HIDE DEF L
<1>5. Cardinality(Listed(L)) \in Nat /\ L[s] <= Cardinality(Listed(L))
  BY <1>3, <1>4, ListedCount
<1>6. Cardinality(Sending) \in Nat
  BY <1>4, FS_CardinalityType
<1>7. PICK f \in Nat, a \in Nat, b \in Nat, n \in Nat :
        f = pool.fp /\ a = Cardinality(Listed(L)) /\ b = Cardinality(Sending) /\ n = L[s]
  BY <1>1, <1>3, <1>5, <1>6
<1>8. f + a + b = msgtql /\ n <= a
  BY <1>4, <1>5, <1>7
<1>9. n <= msgtql
  BY <1>8
<1> QED BY <1>2, <1>3, <1>7, <1>9

\* Type correctness.
LEMMA TypesFollow == IInv => TypeOK
<1> SUFFICES ASSUME IInv
             PROVE  TypeOK
  OBVIOUS
<1>1. /\ que \in [Slots -> QueT] /\ lock \in [Slots -> BOOLEAN] /\ pool \in PoolT
      /\ stat \in [Proc -> Doing] /\ call \in [Proc -> CallT]
  BY DEF IInv, Typed
<1>2. ASSUME NEW s \in Slots
      PROVE  que[s] \in [alloc : BOOLEAN, seq : 0 .. MaxSeq, list : Seq(Message),
                         qnum : 0 .. msgtql, cbytes : Nat, qbytes : Nat,
                         rwait : BOOLEAN, wwait : BOOLEAN]
  <2>1. que[s] \in QueT /\ que[s].qnum = Len(que[s].list)
    BY <1>1 DEF IInv, Counted, QueOK
  <2>2. Len(que[s].list) \in 0 .. msgtql
    BY LengthsBounded, MsgAssumption
  <2> QED BY <2>1, <2>2 DEF QueT
<1>3. que \in [Slots -> [alloc : BOOLEAN, seq : 0 .. MaxSeq, list : Seq(Message),
                         qnum : 0 .. msgtql, cbytes : Nat, qbytes : Nat,
                         rwait : BOOLEAN, wwait : BOOLEAN]]
  BY <1>1, <1>2
<1>4. pool.fp \in 0 .. msgtql
  <2>1. /\ IsFiniteSet(Listed(Lens)) /\ IsFiniteSet(Sending)
        /\ pool.fp + Cardinality(Listed(Lens)) + Cardinality(Sending) = msgtql
    BY DEF IInv, Headers
  <2>2. Cardinality(Listed(Lens)) \in Nat /\ Cardinality(Sending) \in Nat /\ pool.fp \in Nat
    BY <1>1, <2>1, FS_CardinalityType DEF PoolT
  <2>3. PICK f \in Nat, a \in Nat, b \in Nat :
          f = pool.fp /\ a = Cardinality(Listed(Lens)) /\ b = Cardinality(Sending)
    BY <2>2
  <2>4. f + a + b = msgtql
    BY <2>1, <2>3
  <2>5. f \in 0 .. msgtql
    BY <2>4
  <2> QED BY <2>3, <2>5
<1>5. pool \in [fp : 0 .. msgtql, map : SUBSET (1 .. msgseg), want : BOOLEAN]
  BY <1>1, <1>4 DEF PoolT, Segments
<1>6. \A p \in Proc : call[p].id \in Id /\ call[p].chan \in Chan
  BY <1>1 DEF CallT
<1> QED BY <1>1, <1>3, <1>5, <1>6 DEF TypeOK, Doing

\* A queue is locked exactly while one process waits for a page of a call on
\* it.
LEMMA LocksFollow == IInv => LockExclusive
<1> SUFFICES ASSUME IInv, NEW s \in Slots
             PROVE  /\ Cardinality({p \in Proc : stat[p] = "fault" /\ call[p].id[1] = s})
                         = IF lock[s] THEN 1 ELSE 0
                    /\ ~lock[s] => \A p \in Proc : stat[p] = "asleep"
                                     => call[p].chan # <<"lock", s>>
  BY DEF LockExclusive
<1> DEFINE F == {p \in Proc : stat[p] = "fault" /\ call[p].id[1] = s}
<1>1. Locks
  BY DEF IInv
<1>2. CASE lock[s]
  <2>1. PICK p \in Proc : stat[p] = "fault" /\ call[p].id[1] = s
    BY <1>1, <1>2 DEF Locks
  <2>2. F = {p}
    BY <1>1, <2>1 DEF Locks
  <2>3. Cardinality({p}) = 1
    BY FS_Singleton
  <2> QED BY <1>2, <2>2, <2>3
<1>3. CASE ~lock[s]
  <2>1. F = {}
    BY <1>1, <1>3 DEF Locks
  <2>2. Cardinality({}) = 0
    BY FS_EmptySet
  <2>3. ASSUME NEW p \in Proc, stat[p] = "asleep", call[p].chan = <<"lock", s>>
        PROVE  FALSE
    <3>1. call[p].chan = <<"lock", call[p].id[1]>> /\ lock[call[p].id[1]]
      BY <1>1, <2>3 DEF Locks
    <3> QED BY <1>3, <2>3, <3>1
  <2> QED BY <1>3, <2>1, <2>2, <2>3
<1> QED BY <1>2, <1>3

\* Who sleeps lacks what it waits for.
LEMMA LackFollows == IInv /\ ~Superuser => NoLostWakeup
<1> SUFFICES ASSUME IInv, ~Superuser, NEW p \in Proc, stat[p] = "asleep"
             PROVE  Lacks(p)
  BY DEF NoLostWakeup
<1> DEFINE c == call[p]
           q == que[c.id[1]]
<1>1. /\ Sleeps(c, q, pool) /\ c \in CallT /\ c.size \in Nat
  BY CallIs DEF IInv, Typed, Procs, ProcOK
<1>2. pool.map \in SUBSET Segments
  BY DEF IInv, Typed, PoolT
<1> HIDE DEF c, q
<1>3. CASE c.chan[1] = "lock"
  BY <1>3 DEF Lacks, c
<1>4. CASE c.chan = <<"qnum", c.id[1]>> /\ q.rwait /\ Findmsg(q.list, c.type) = 0
  BY <1>4 DEF Lacks, c, q
<1>5. CASE c.chan = <<"que", c.id[1]>> /\ q.wwait /\ c.size + q.cbytes > q.qbytes
  BY <1>5 DEF Lacks, c, q
<1>6. CASE c.chan = <<"msgfp", 0>> /\ pool.fp = 0
  BY <1>6 DEF Lacks, c
<1>7. CASE c.chan = <<"msgmap", 0>> /\ pool.want /\ Fits(pool.map, Btoq(c.size)) = {}
  <2>1. ~\E a \in pool.map : FirstFit(pool.map, Btoq(c.size), a)
    BY <1>2, <1>7, FirstFitExists
  <2> QED BY <1>7, <2>1 DEF Lacks, c
<1> QED BY <1>1, <1>3, <1>4, <1>5, <1>6, <1>7 DEF Sleeps

\* Nobody sleeps on a removed queue.
LEMMA ReleaseFollows == IInv => RemovalReleases
<1> SUFFICES ASSUME IInv, NEW p \in Proc, stat[p] = "asleep", call[p].chan[1] \in {"qnum", "que"}
             PROVE  Msgconv(call[p].id)
  BY DEF RemovalReleases
<1>1. Sleeps(call[p], que[call[p].id[1]], pool)
  BY DEF IInv, Procs, ProcOK
<1> QED BY <1>1 DEF Sleeps, Names, Msgconv

\* Every header is somewhere, and every segment once.
LEMMA ResourcesFollow == IInv => ResourcesKept
<1> SUFFICES ASSUME IInv
             PROVE  ResourcesKept
  OBVIOUS
<1> DEFINE Span(x) == Units(que[x[1]].list[x[2]].spot, Btoq(que[x[1]].list[x[2]].ts))
           Sent(p) == Units(call[p].ref, Btoq(call[p].size))
           texts == {<<x, Span(x)>> : x \in Queued} \cup {<<p, Sent(p)>> : p \in Sending}
           used == UNION {x[2] : x \in texts}
<1>1. Queued = Listed(Lens)
  <2>1. \A s \in Slots : /\ Len(que[s].list) \in Nat /\ Len(que[s].list) <= msgtql
                         /\ DOMAIN que[s].list = 1 .. Len(que[s].list)
    BY LengthsBounded, Here
  <2>2. \A s \in Slots : Lens[s] = Len(que[s].list)
    BY DEF Lens
  <2>3. ASSUME NEW s \in Slots, NEW k
        PROVE  k \in 1 .. msgtql /\ k \in DOMAIN que[s].list
                 <=> k \in Nat /\ k \in 1 .. Lens[s]
    BY <2>1, <2>2, MsgAssumption
  <2>4. ASSUME NEW x
        PROVE  x \in Queued <=> x \in Listed(Lens)
    <3>1. x \in Queued <=> /\ x \in Slots \X (1 .. msgtql) /\ x[2] \in DOMAIN que[x[1]].list
      BY DEF Queued
    <3>2. x \in Listed(Lens) <=> /\ x \in Slots \X Nat /\ x[2] \in 1 .. Lens[x[1]]
      BY DEF Listed
    <3>3. CASE x \in Slots \X (1 .. msgtql)
      <4>1. x[1] \in Slots /\ x[2] \in 1 .. msgtql /\ x \in Slots \X Nat
        BY <3>3
      <4> QED BY <2>3, <3>1, <3>2, <3>3, <4>1
    <3>4. CASE x \in Slots \X Nat
      <4>1. x[1] \in Slots /\ x[2] \in Nat /\ x = <<x[1], x[2]>>
        BY <3>4
      <4> QED BY <2>3, <3>1, <3>2, <3>4, <4>1
    <3> QED BY <3>1, <3>2, <3>3, <3>4
  <2> QED BY <2>4
<1>2. pool.fp + Cardinality(Queued) + Cardinality(Sending) = msgtql
  BY <1>1 DEF IInv, Headers
<1>3. \A x \in Queued : /\ x[1] \in Slots /\ x[2] \in 1 .. Len(que[x[1]].list)
                        /\ Span(x) = Text(que[x[1]].list[x[2]])
  BY <1>1 DEF Listed, Lens, Text
<1>4. \A x \in Queued : Span(x) \subseteq TextsOf(que[x[1]].list)
  BY <1>3 DEF TextsOf, Texts
<1>5. \A p \in Sending : p \in Proc /\ Sent(p) = SentText(stat[p], call[p])
  BY DEF Sending, SentText, Sends
<1>6. /\ \A x, y \in Holder : x # y => Held[x] \cap Held[y] = {}
      /\ Ample => \A a \in Segments : a \in pool.map \/ \E x \in Holder : a \in Held[x]
      /\ \A s \in Slots : Apart(que[s].list)
  BY DEF IInv, Shared, Shares
<1>7. /\ \A s, t \in Slots : s # t => TextsOf(que[s].list) \cap TextsOf(que[t].list) = {}
      /\ \A p, r \in Proc : p # r => SentText(stat[p], call[p]) \cap SentText(stat[r], call[r]) = {}
  <2>1. ASSUME NEW s \in Slots, NEW t \in Slots, s # t
        PROVE  TextsOf(que[s].list) \cap TextsOf(que[t].list) = {}
    <3> DEFINE a == <<"que", s>>
               b == <<"que", t>>
    <3>1. a \in Holder /\ b \in Holder /\ a # b
      BY <2>1 DEF Holder
    <3>2. Held[a] = TextsOf(que[s].list) /\ Held[b] = TextsOf(que[t].list)
      BY <3>1 DEF Held
    <3> HIDE DEF a, b
    <3> QED BY <1>6, <3>1, <3>2
  <2>2. ASSUME NEW p \in Proc, NEW r \in Proc, p # r
        PROVE  SentText(stat[p], call[p]) \cap SentText(stat[r], call[r]) = {}
    <3> DEFINE a == <<"snd", p>>
               b == <<"snd", r>>
    <3>1. a \in Holder /\ b \in Holder /\ a # b
      BY <2>2 DEF Holder
    <3>2. Held[a] = SentText(stat[p], call[p]) /\ Held[b] = SentText(stat[r], call[r])
      BY <3>1 DEF Held
    <3> HIDE DEF a, b
    <3> QED BY <1>6, <3>1, <3>2
  <2> QED BY <2>1, <2>2
<1>8. ASSUME NEW x \in Queued, NEW y \in Queued, x # y
      PROVE  Span(x) \cap Span(y) = {}
  <2>1. CASE x[1] # y[1]
    <3>1. TextsOf(que[x[1]].list) \cap TextsOf(que[y[1]].list) = {}
      BY <1>3, <1>7, <2>1
    <3> QED BY <1>4, <3>1
  <2>2. CASE x[1] = y[1]
    <3>1. x \in Slots \X (1 .. msgtql) /\ y \in Slots \X (1 .. msgtql)
      BY DEF Queued
    <3>2. x[2] # y[2]
      BY <1>8, <2>2, <3>1
    <3>3. Text(que[x[1]].list[x[2]]) \cap Text(que[y[1]].list[y[2]]) = {}
      BY <1>3, <1>6, <2>2, <3>2 DEF Apart
    <3>4. Span(x) = Text(que[x[1]].list[x[2]]) /\ Span(y) = Text(que[y[1]].list[y[2]])
      BY <1>3
    <3> HIDE DEF Span
    <3> QED BY <3>3, <3>4
  <2> QED BY <2>1, <2>2
<1>9. ASSUME NEW x \in Queued, NEW p \in Sending
      PROVE  Span(x) \cap Sent(p) = {}
  <2>1. TextsOf(que[x[1]].list) \cap SentText(stat[p], call[p]) = {}
    BY <1>3, <1>5, SenderHas
  <2> QED BY <1>4, <1>5, <2>1
<1>10. ASSUME NEW p \in Sending, NEW r \in Sending, p # r
       PROVE  Sent(p) \cap Sent(r) = {}
  <2>1. SentText(stat[p], call[p]) \cap SentText(stat[r], call[r]) = {}
    BY <1>5, <1>7, <1>10
  <2> QED BY <1>5, <2>1
<1>11. /\ \A x \in Queued : Span(x) \cap pool.map = {}
       /\ \A p \in Sending : Sent(p) \cap pool.map = {}
  <2>1. \A s \in Slots : TextsOf(que[s].list) \cap pool.map = {}
    BY Here
  <2>2. \A p \in Proc : SentText(stat[p], call[p]) \cap pool.map = {}
    BY SenderHas, MsgSpaceAssumption DEF Slots
  <2>3. \A x \in Queued : Span(x) \cap pool.map = {}
    BY <1>3, <1>4, <2>1
  <2> QED BY <1>5, <2>2, <2>3
<1>12. Ample => \A a \in Segments : \/ a \in pool.map
                                    \/ \E x \in Queued : a \in Span(x)
                                    \/ \E p \in Sending : a \in Sent(p)
  <2> SUFFICES ASSUME Ample, NEW a \in Segments, a \notin pool.map
               PROVE  \/ \E x \in Queued : a \in Span(x)
                      \/ \E p \in Sending : a \in Sent(p)
    OBVIOUS
  <2>1. PICK h \in Holder : a \in Held[h]
    BY <1>6
  <2>2. CASE h \in {"que"} \X Slots
    <3>1. h[1] = "que" /\ h[2] \in Slots
      BY <2>2
    <3>2. a \in TextsOf(que[h[2]].list)
      BY <2>1, <3>1 DEF Held
    <3>3. PICK k \in 1 .. Len(que[h[2]].list) : a \in Text(que[h[2]].list[k])
      BY <3>2 DEF TextsOf, Texts
    <3>4. k \in Nat /\ Lens[h[2]] = Len(que[h[2]].list)
      BY <3>1 DEF Lens
    <3>5. <<h[2], k>> \in Listed(Lens)
      BY <3>1, <3>3, <3>4 DEF Listed
    <3> QED BY <1>1, <1>3, <3>3, <3>5
  <2>3. CASE h \in {"snd"} \X Proc
    <3>1. h[1] # "que" /\ h[2] \in Proc
      BY <2>3
    <3>2. a \in SentText(stat[h[2]], call[h[2]])
      BY <2>1, <3>1 DEF Held
    <3>3. h[2] \in Sending
      BY <3>1, <3>2 DEF SentText, Sends, Sending
    <3> QED BY <1>5, <3>2, <3>3
  <2> QED BY <2>2, <2>3 DEF Holder
<1>13. /\ \A x \in Queued : Span(x) \subseteq Segments
       /\ \A p \in Sending : Sent(p) \subseteq Segments
  <2>1. \A s \in Slots : TextsOf(que[s].list) \subseteq Segments
    BY Here
  <2>2. \A p \in Proc : SentText(stat[p], call[p]) \subseteq Segments
    BY SenderHas, MsgSpaceAssumption DEF Slots
  <2>3. \A x \in Queued : Span(x) \subseteq Segments
    BY <1>3, <1>4, <2>1
  <2> QED BY <1>5, <2>2, <2>3
<1> HIDE DEF Span, Sent
<1>14. \A u, v \in texts : u # v => u[2] \cap v[2] = {}
  <2> SUFFICES ASSUME NEW u \in texts, NEW v \in texts, u # v
               PROVE  u[2] \cap v[2] = {}
    OBVIOUS
  <2>1. \A z \in texts : \/ \E x \in Queued : z = <<x, Span(x)>>
                         \/ \E p \in Sending : z = <<p, Sent(p)>>
    OBVIOUS
  <2> HIDE DEF texts
  <2>2. ASSUME NEW x \in Queued, u = <<x, Span(x)>>
        PROVE  u[2] \cap v[2] = {}
    <3>1. CASE \E y \in Queued : v = <<y, Span(y)>>
      BY <1>8, <2>2, <3>1
    <3>2. CASE \E p \in Sending : v = <<p, Sent(p)>>
      BY <1>9, <2>2, <3>2
    <3> QED BY <2>1, <3>1, <3>2
  <2>3. ASSUME NEW p \in Sending, u = <<p, Sent(p)>>
        PROVE  u[2] \cap v[2] = {}
    <3>1. CASE \E y \in Queued : v = <<y, Span(y)>>
      BY <1>9, <2>3, <3>1
    <3>2. CASE \E r \in Sending : v = <<r, Sent(r)>>
      BY <1>10, <2>3, <3>2
    <3> QED BY <2>1, <3>1, <3>2
  <2> QED BY <2>1, <2>2, <2>3
<1>15. \A a : a \in used <=> \/ \E x \in Queued : a \in Span(x)
                             \/ \E p \in Sending : a \in Sent(p)
  <2>1. \A a : a \in used <=> \E z \in texts : a \in z[2]
    <3> HIDE DEF texts
    <3> QED OBVIOUS
  <2>2. \A z \in texts : \/ \E x \in Queued : z = <<x, Span(x)>>
                         \/ \E p \in Sending : z = <<p, Sent(p)>>
    OBVIOUS
  <2>3. /\ \A x \in Queued : <<x, Span(x)>> \in texts
        /\ \A p \in Sending : <<p, Sent(p)>> \in texts
    OBVIOUS
  <2> HIDE DEF used, texts
  <2>4. ASSUME NEW a, NEW z \in texts, a \in z[2]
        PROVE  \/ \E x \in Queued : a \in Span(x)
               \/ \E p \in Sending : a \in Sent(p)
    BY <2>2, <2>4
  <2>5. ASSUME NEW a, NEW x \in Queued, a \in Span(x)
        PROVE  \E z \in texts : a \in z[2]
    <3>1. <<x, Span(x)>>[2] = Span(x)
      OBVIOUS
    <3> QED BY <2>3, <2>5, <3>1
  <2>6. ASSUME NEW a, NEW p \in Sending, a \in Sent(p)
        PROVE  \E z \in texts : a \in z[2]
    <3>1. <<p, Sent(p)>>[2] = Sent(p)
      OBVIOUS
    <3> QED BY <2>3, <2>6, <3>1
  <2> QED BY <2>1, <2>4, <2>5, <2>6
<1> HIDE DEF used, texts
<1>16. used \cap pool.map = {}
  BY <1>11, <1>15
<1>17. 2 * mapslots > msgseg => used \cup pool.map = 1 .. msgseg
  <2>1. pool.map \subseteq Segments /\ used \subseteq Segments
    BY <1>13, <1>15 DEF IInv, Typed, PoolT
  <2>2. Ample => Segments \subseteq used \cup pool.map
    BY <1>12, <1>15
  <2> QED BY <2>1, <2>2 DEF Ample, Segments
<1> QED BY <1>2, <1>14, <1>16, <1>17 DEF ResourcesKept, used, texts, Span, Sent

\* The counts are those of the lists.
LEMMA CountsFollow == IInv => CountsAgree
BY DEF IInv, Counted, QueOK, CountsAgree

-----------------------------------------------------------------------------
(* The properties, for every number of processes, queues, headers and      *)
(* segments.                                                               *)

\* The variables have their types, however calls, faults, signals and
\* removals interleave; no count goes below zero or past its limit.
THEOREM TypeCorrect == Spec => []TypeOK
BY Invariant, TypesFollow, PTL

\* msg_qnum and msg_cbytes are those of the list in every state, also when a
\* slot is used again.
THEOREM CountsAlwaysAgree == Spec => []CountsAgree
BY Invariant, CountsFollow, PTL

\* No header or segment is lost or given twice.
THEOREM ResourcesAlwaysKept == Spec => []ResourcesKept
BY Invariant, ResourcesFollow, PTL

\* The queue's lock excludes, and nobody sleeps on a free one.
THEOREM LockAlwaysExclusive == Spec => []LockExclusive
BY Invariant, LocksFollow, PTL

\* No wakeup is lost as long as nobody raises a limit.
THEOREM NoWakeupLost == ~Superuser => (Spec => []NoLostWakeup)
<1> SUFFICES ASSUME ~Superuser
             PROVE  Spec => []NoLostWakeup
  OBVIOUS
<1>1. IInv => NoLostWakeup
  BY LackFollows
<1> QED BY Invariant, <1>1, PTL

\* A removal lets all its sleepers go.
THEOREM RemovalAlwaysReleases == Spec => []RemovalReleases
BY Invariant, ReleaseFollows, PTL

-----------------------------------------------------------------------------
(* Msg implements MsgQueue.                                                *)

\* What MsgQueue tells of a message.
Told(m) == [type |-> m.type, size |-> m.ts]
Telling == [type : MsgTypes, size : MsgSizes]

\* What MsgQueue tells of a list has the messages of the list.
LEMMA BriefIs ==
    ASSUME NEW l \in Seq(Message)
    PROVE  /\ Brief(l) \in Seq(Telling) /\ Len(Brief(l)) = Len(l)
           /\ DOMAIN Brief(l) = 1 .. Len(l)
           /\ \A k \in 1 .. Len(l) : Brief(l)[k] = Told(l[k])
           /\ \A k \in 1 .. Len(l) : Told(l[k]).type = l[k].type /\ Told(l[k]).size = l[k].ts
<1>1. ASSUME NEW k \in 1 .. Len(l)
      PROVE  Told(l[k]) \in Telling
  <2>1. l[k] \in Message
    OBVIOUS
  <2> QED BY <2>1 DEF Message, Told, Telling
<1>2. Brief(l) = [k \in 1 .. Len(l) |-> Told(l[k])] /\ Len(l) \in Nat
  BY DEF Brief, Told
<1>3. Brief(l) \in [1 .. Len(l) -> Telling]
  BY <1>1, <1>2
<1>4. Brief(l) \in Seq(Telling) /\ Len(Brief(l)) = Len(l)
  BY <1>2, <1>3, LenProperties, IsASeq
<1> QED BY <1>2, <1>4 DEF Told

\* A message is sent.
LEMMA BriefAppended ==
    ASSUME NEW l \in Seq(Message), NEW m \in Message
    PROVE  Brief(Append(l, m)) = Append(Brief(l), Told(m)) /\ Told(m) \in Telling
<1> DEFINE r == Append(l, m)
           u == Append(Brief(l), Told(m))
<1>1. r \in Seq(Message) /\ Len(r) = Len(l) + 1 /\ r[Len(l) + 1] = m
      /\ \A k \in 1 .. Len(l) : r[k] = l[k]
  BY AppendProperties
<1>2. Told(m) \in Telling
  BY DEF Message, Told, Telling
<1>3. /\ Brief(l) \in Seq(Telling) /\ Len(Brief(l)) = Len(l)
      /\ \A k \in 1 .. Len(l) : Brief(l)[k] = Told(l[k])
  BY BriefIs
<1>4. /\ u \in Seq(Telling) /\ Len(u) = Len(l) + 1 /\ u[Len(l) + 1] = Told(m)
      /\ \A k \in 1 .. Len(l) : u[k] = Brief(l)[k]
  BY <1>2, <1>3, AppendProperties
<1> HIDE DEF r, u
<1>5. /\ Brief(r) \in Seq(Telling) /\ Len(Brief(r)) = Len(l) + 1
      /\ \A k \in 1 .. Len(l) + 1 : Brief(r)[k] = Told(r[k])
  BY <1>1, BriefIs
<1>6. Len(l) \in Nat
  OBVIOUS
<1>7. ASSUME NEW k \in 1 .. Len(l) + 1
      PROVE  Brief(r)[k] = u[k]
  <2>1. CASE k \in 1 .. Len(l)
    BY <1>1, <1>3, <1>4, <1>5, <2>1
  <2>2. CASE k = Len(l) + 1
    BY <1>1, <1>4, <1>5, <2>2
  <2> QED BY <1>6, <2>1, <2>2
<1>8. Brief(r) = u
  BY <1>4, <1>5, <1>7, SeqEqual
<1> QED BY <1>2, <1>8 DEF r, u

\* A message is received.
LEMMA BriefReduced ==
    ASSUME NEW l \in Seq(Message), NEW i \in 1 .. Len(l)
    PROVE  Brief(RemoveAt(l, i)) = RemoveAt(Brief(l), i)
<1> DEFINE r == RemoveAt(l, i)
           u == RemoveAt(Brief(l), i)
<1>1. /\ r \in Seq(Message) /\ Len(r) = Len(l) - 1
      /\ \A k \in 1 .. Len(l) - 1 : r[k] = IF k < i THEN l[k] ELSE l[k + 1]
  BY RemoveAtIs
<1>2. /\ Brief(l) \in Seq(Telling) /\ Len(Brief(l)) = Len(l)
      /\ \A k \in 1 .. Len(l) : Brief(l)[k] = Told(l[k])
  BY BriefIs
<1>3. i \in 1 .. Len(Brief(l))
  BY <1>2
<1>4. /\ u \in Seq(Telling) /\ Len(u) = Len(Brief(l)) - 1
      /\ \A k \in 1 .. Len(Brief(l)) - 1 :
            u[k] = IF k < i THEN Brief(l)[k] ELSE Brief(l)[k + 1]
  BY <1>2, <1>3, RemoveAtIs
<1> HIDE DEF r, u
<1>5. /\ Brief(r) \in Seq(Telling) /\ Len(Brief(r)) = Len(l) - 1
      /\ \A k \in 1 .. Len(l) - 1 : Brief(r)[k] = Told(r[k])
  BY <1>1, BriefIs
<1>6. ASSUME NEW k \in 1 .. Len(l) - 1
      PROVE  Brief(r)[k] = u[k]
  <2>1. k \in 1 .. Len(l) /\ k + 1 \in 1 .. Len(l)
    OBVIOUS
  <2>2. u[k] = IF k < i THEN Brief(l)[k] ELSE Brief(l)[k + 1]
    BY <1>2, <1>4
  <2>3. CASE k < i
    BY <1>1, <1>2, <1>5, <2>1, <2>2, <2>3
  <2>4. CASE ~(k < i)
    BY <1>1, <1>2, <1>5, <2>1, <2>2, <2>4
  <2> QED BY <2>3, <2>4
<1>7. Len(u) = Len(l) - 1
  BY <1>2, <1>4
<1>8. Brief(r) = u
  BY <1>4, <1>5, <1>6, <1>7, SeqEqual
<1> QED BY <1>8 DEF r, u

\* Both count the same bytes.
LEMMA BriefBytes ==
    ASSUME NEW l \in Seq(Message)
    PROVE  Abstract!Bytes(Abstract!Sizes(Brief(l))) = Bytes(Sizes(l))
<1>1. /\ DOMAIN Brief(l) = 1 .. Len(l) /\ DOMAIN l = 1 .. Len(l)
      /\ \A k \in 1 .. Len(l) : Brief(l)[k].size = l[k].ts
  BY BriefIs
<1>2. Abstract!Sizes(Brief(l)) = Sizes(l)
  BY <1>1 DEF Abstract!Sizes, Sizes
<1>3. Abstract!Bytes(Sizes(l)) = Bytes(Sizes(l))
  BY DEF Abstract!Bytes, Bytes
<1> QED BY <1>2, <1>3

\* The message that is found is the one that is wanted.
LEMMA FoundWanted ==
    ASSUME NEW l \in Seq(Message), NEW t \in Int, NEW i, i = Findmsg(l, t), i # 0
    PROVE  i \in 1 .. Len(l) /\ Abstract!Wanted(Brief(l), t, i)
<1> DEFINE ok == {j \in DOMAIN Brief(l) : \/ t = 0
                                          \/ t > 0 /\ Brief(l)[j].type = t
                                          \/ t < 0 /\ Brief(l)[j].type <= -t}
           low == {j \in ok : t < 0 => \A k \in ok : Brief(l)[j].type <= Brief(l)[k].type}
<1>1. /\ i \in 1 .. Len(l) /\ Fitting(l[i], t)
      /\ t < 0 => \A k \in 1 .. Len(l) : l[i].type <= l[k].type
      /\ \A k \in 1 .. Len(l) : k < i /\ Fitting(l[k], t) => t < 0 /\ l[i].type < l[k].type
  BY FindmsgIs
<1>2. /\ DOMAIN Brief(l) = 1 .. Len(l)
      /\ \A k \in 1 .. Len(l) : Brief(l)[k].type = l[k].type
  BY BriefIs
<1>3. \A k \in 1 .. Len(l) : l[k].type \in Int
  BY MessageIs
<1>4. \A k : k \in ok <=> k \in 1 .. Len(l) /\ Fitting(l[k], t)
  BY <1>2 DEF Fitting
<1> HIDE DEF ok
<1>5. i \in low
  BY <1>1, <1>2, <1>4
<1>6. ASSUME NEW j \in low
      PROVE  i <= j
  <2>1. j \in ok /\ j \in 1 .. Len(l) /\ Fitting(l[j], t)
    BY <1>4
  <2>2. ASSUME j < i
        PROVE  FALSE
    <3>1. t < 0 /\ l[i].type < l[j].type
      BY <1>1, <2>1, <2>2
    <3>2. Brief(l)[j].type <= Brief(l)[i].type
      BY <1>1, <1>4, <3>1
    <3> QED BY <1>1, <1>2, <1>3, <2>1, <3>1, <3>2
  <2> QED BY <1>1, <2>1, <2>2
<1> QED BY <1>1, <1>5, <1>6 DEF Abstract!Wanted, ok

\* A step of MsgQueue, or none.
Shows == [Abstract!Next]_Views

\* The queue header of slot s becomes q.
LEMMA ViewsChange ==
    ASSUME IInv, NEW s \in Slots, NEW q, que' = [que EXCEPT ![s] = q]
    PROVE  /\ Views' = [Views EXCEPT ![s] = View(q)] /\ Views[s] = View(que[s])
           /\ que[s] \in QueT /\ s \in Abstract!Slots
<1>1. que \in [Slots -> QueT]
  BY DEF IInv, Typed
<1>2. que'[s] = q /\ \A x \in Slots : x # s => que'[x] = que[x]
  BY <1>1
<1>3. Views' = [x \in Slots |-> View(que'[x])]
  BY DEF Views, View
<1>4. Views = [x \in Slots |-> View(que[x])]
  BY DEF Views
<1>5. Views' = [Views EXCEPT ![s] = View(q)]
  BY <1>2, <1>3, <1>4
<1> QED BY <1>1, <1>4, <1>5 DEF Slots, Abstract!Slots

\* What is told of the queue stays.
LEMMA SameShows ==
    ASSUME IInv, NEW s \in Slots, NEW q, que' = [que EXCEPT ![s] = q],
           q.alloc = que[s].alloc, q.seq = que[s].seq, q.qbytes = que[s].qbytes,
           q.list = que[s].list
    PROVE  Shows
<1>1. Views' = [Views EXCEPT ![s] = View(q)] /\ Views[s] = View(que[s])
  BY ViewsChange
<1>2. View(q) = View(que[s])
  BY DEF View
<1>3. Views = [x \in Slots |-> View(que[x])]
  BY DEF Views
<1> QED BY <1>1, <1>2, <1>3 DEF Shows

\* No queue changes.
LEMMA UnchangedShows == ASSUME UNCHANGED que PROVE Shows
BY DEF Shows, Views

\* A message is sent.
LEMMA EnqueueShows ==
    ASSUME IInv, NEW p \in Proc, NEW c \in CallT, Args(c), c.cmd = "snd",
           que[c.id[1]].alloc, c.size + que[c.id[1]].cbytes <= que[c.id[1]].qbytes,
           NEW a \in 0 .. msgseg, NEW w, Enqueue(p, c, a, w)
    PROVE  Shows
<1> DEFINE s == c.id[1]
           l == que[s].list
           m == [type |-> c.type, ts |-> c.size, spot |-> a]
           q == [que[s] EXCEPT !.list = Append(l, m), !.qnum = que[s].qnum + 1,
                               !.cbytes = que[s].cbytes + c.size, !.rwait = FALSE]
<1>1. s \in Slots /\ c.size \in Nat
  BY CallIs
<1>2. que' = [que EXCEPT ![s] = q]
  BY <1>1 DEF Enqueue
<1>3. que[s] \in QueT /\ l \in Seq(Message) /\ QueOK(que[s])
  BY <1>1, Here
<1>4. /\ q.alloc = que[s].alloc /\ q.seq = que[s].seq /\ q.qbytes = que[s].qbytes
      /\ q.list = Append(l, m)
  BY <1>3 DEF QueT
<1>5. m \in Message /\ Told(m) = [type |-> c.type, size |-> c.size]
  BY DEF Args, Message, Told
<1> HIDE DEF q, m
<1>6. Views' = [Views EXCEPT ![s] = View(q)] /\ Views[s] = View(que[s]) /\ s \in Abstract!Slots
  BY <1>1, <1>2, ViewsChange
<1>7. Brief(Append(l, m)) = Append(Brief(l), Told(m)) /\ Told(m) \in Telling
  BY <1>3, <1>5, BriefAppended
<1>8. Abstract!Bytes(Abstract!Sizes(Brief(l))) = que[s].cbytes
  BY <1>3, BriefBytes DEF QueOK
<1>9. PICK v : v = Views[s]
  OBVIOUS
<1>10. v = [live |-> que[s].alloc, seq |-> que[s].seq, limit |-> que[s].qbytes,
          msgs |-> Brief(que[s].list)]
  BY <1>9, <1>6 DEF View
<1>11. View(q) = [live |-> que[s].alloc, seq |-> que[s].seq, limit |-> que[s].qbytes,
                msgs |-> Append(Brief(que[s].list), Told(m))]
  BY <1>4, <1>7 DEF View
<1>12. PICK u : u = [v EXCEPT !.msgs = Append(@, Told(m))]
  OBVIOUS
<1>13. u = [live |-> que[s].alloc, seq |-> que[s].seq, limit |-> que[s].qbytes,
                msgs |-> Append(Brief(que[s].list), Told(m))]
  BY ONLY <1>10, <1>12
<1>14. View(q) = u
  BY <1>11, <1>13
<1>15. View(que[s]).live /\ View(que[s]).msgs = Brief(l) /\ View(que[s]).limit = que[s].qbytes
  BY DEF View
<1>16. Told(m).size = c.size /\ que[s].cbytes \in Nat
  BY <1>3, <1>5 DEF QueT
<1> HIDE DEF s, l
<1>17. Abstract!Send(s, Told(m))
  <2>1. Views[s].live
    BY <1>6, <1>15
  <2>2. Abstract!Bytes(Abstract!Sizes(Views[s].msgs)) + Told(m).size <= Views[s].limit
    BY <1>1, <1>6, <1>8, <1>15, <1>16 DEF s
  <2>3. Views' = [Views EXCEPT ![s].msgs = Append(@, Told(m))]
    BY <1>6, <1>9, <1>12, <1>14
  <2> QED BY <2>1, <2>2, <2>3 DEF Abstract!Send
<1> QED BY <1>6, <1>7, <1>17 DEF Shows, Abstract!Next, Telling

\* A message is received.
LEMMA TakeShows ==
    ASSUME IInv, NEW p \in Proc, NEW c \in CallT, Args(c), c.cmd = "rcv",
           que[c.id[1]].alloc, NEW i, i = Findmsg(que[c.id[1]].list, c.type), i # 0,
           Take(p, c, i)
    PROVE  Shows
<1> DEFINE s == c.id[1]
           l == que[s].list
           q == [que[s] EXCEPT !.list = RemoveAt(l, i), !.qnum = que[s].qnum - 1,
                               !.cbytes = que[s].cbytes - l[i].ts, !.wwait = FALSE]
<1>1. s \in Slots /\ c.type \in Int /\ c.type \in Selects
  BY CallIs DEF Args
<1>2. que' = [que EXCEPT ![s] = q]
  BY <1>1 DEF Take
<1>3. que[s] \in QueT /\ l \in Seq(Message)
  BY <1>1, Here
<1>4. /\ q.alloc = que[s].alloc /\ q.seq = que[s].seq /\ q.qbytes = que[s].qbytes
      /\ q.list = RemoveAt(l, i)
  BY <1>3 DEF QueT
<1> HIDE DEF q
<1>5. i \in 1 .. Len(l) /\ Abstract!Wanted(Brief(l), c.type, i)
  BY <1>1, <1>3, FoundWanted
<1>6. Views' = [Views EXCEPT ![s] = View(q)] /\ Views[s] = View(que[s]) /\ s \in Abstract!Slots
  BY <1>1, <1>2, ViewsChange
<1>7. Brief(RemoveAt(l, i)) = RemoveAt(Brief(l), i) /\ DOMAIN Brief(l) = 1 .. Len(l)
  BY <1>3, <1>5, BriefReduced, BriefIs
<1>8. PICK v : v = Views[s]
  OBVIOUS
<1>9. v = [live |-> que[s].alloc, seq |-> que[s].seq, limit |-> que[s].qbytes,
         msgs |-> Brief(que[s].list)]
  BY <1>8, <1>6 DEF View
<1>10. View(q) = [live |-> que[s].alloc, seq |-> que[s].seq, limit |-> que[s].qbytes,
                msgs |-> RemoveAt(Brief(que[s].list), i)]
  BY <1>4, <1>7 DEF View
<1>11. PICK w : w = [v EXCEPT !.msgs = SubSeq(@, 1, i - 1) \o SubSeq(@, i + 1, Len(@))]
  OBVIOUS
<1>12. w = [live |-> que[s].alloc, seq |-> que[s].seq, limit |-> que[s].qbytes,
                msgs |-> RemoveAt(Brief(que[s].list), i)]
  BY ONLY <1>9, <1>11 DEF RemoveAt
<1>13. View(q) = w
  BY <1>10, <1>12
<1>14. View(que[s]).live /\ View(que[s]).msgs = Brief(l)
  BY DEF View
<1> HIDE DEF s, l
<1>15. Abstract!Receive(s, i)
  <2>1. Views[s].live /\ Abstract!Wanted(Views[s].msgs, c.type, i)
    BY <1>5, <1>6, <1>14
  <2>2. Views' = [Views EXCEPT ![s].msgs = SubSeq(@, 1, i - 1) \o SubSeq(@, i + 1, Len(@))]
    BY <1>6, <1>8, <1>11, <1>13
  <2> QED BY <1>1, <2>1, <2>2 DEF Abstract!Receive
<1>16. i \in DOMAIN Views[s].msgs
  BY <1>5, <1>6, <1>7, <1>14
<1> QED BY <1>6, <1>15, <1>16 DEF Shows, Abstract!Next

\* A queue is removed.
LEMMA RmidShows ==
    ASSUME IInv, NEW p \in Proc, NEW c \in CallT, que[c.id[1]].alloc, Rmid(p, c)
    PROVE  Shows
<1> DEFINE s == c.id[1]
           q == Removed(que[s])
<1>1. s \in Slots
  BY CallIs
<1>2. que' = [que EXCEPT ![s] = q]
  BY <1>1 DEF Rmid
<1>3. que[s] \in QueT
  BY <1>1, Here
<1>4. /\ q.alloc = FALSE /\ q.seq = que[s].seq + 1 /\ q.qbytes = que[s].qbytes /\ q.list = <<>>
  BY <1>3 DEF QueT, Removed
<1> HIDE DEF q
<1>5. Views' = [Views EXCEPT ![s] = View(q)] /\ Views[s] = View(que[s]) /\ s \in Abstract!Slots
  BY <1>1, <1>2, ViewsChange
<1>6. Brief(<<>>) = <<>>
  BY DEF Brief
<1>7. PICK v : v = Views[s]
  OBVIOUS
<1>8. v = [live |-> que[s].alloc, seq |-> que[s].seq, limit |-> que[s].qbytes,
         msgs |-> Brief(que[s].list)]
  BY <1>7, <1>5 DEF View
<1>9. View(q) = [live |-> FALSE, seq |-> que[s].seq + 1, limit |-> que[s].qbytes,
               msgs |-> <<>>]
  BY <1>4, <1>6 DEF View
<1>10. PICK w : w = [v EXCEPT !.live = FALSE, !.seq = @ + 1, !.msgs = <<>>]
  OBVIOUS
<1>11. w = [live |-> FALSE, seq |-> que[s].seq + 1, limit |-> que[s].qbytes,
                msgs |-> <<>>]
  BY ONLY <1>8, <1>10
<1>12. View(q) = w
  BY <1>9, <1>11
<1>13. View(que[s]).live
  BY DEF View
<1> HIDE DEF s
<1>14. Abstract!Remove(s)
  <2>1. Views[s].live
    BY <1>5, <1>13
  <2>2. Views' = [Views EXCEPT ![s].live = FALSE, ![s].seq = @ + 1, ![s].msgs = <<>>]
    BY <1>5, <1>7, <1>10, <1>12
  <2> QED BY <2>1, <2>2 DEF Abstract!Remove
<1> QED BY <1>5, <1>14 DEF Shows, Abstract!Next

\* A limit is set.
LEMMA SetLimitShows ==
    ASSUME IInv, NEW p \in Proc, NEW c \in CallT, Args(c), c.cmd = "set",
           que[c.id[1]].alloc, SetLimit(p, c)
    PROVE  Shows
<1> DEFINE s == c.id[1]
           q == [que[s] EXCEPT !.qbytes = c.size]
<1>1. s \in Slots /\ c.size \in Limits
  BY CallIs DEF Args
<1>2. que' = [que EXCEPT ![s] = q] /\ (c.size <= que[s].qbytes \/ Superuser)
  BY <1>1 DEF SetLimit
<1>3. que[s] \in QueT
  BY <1>1, Here
<1>4. /\ q.alloc = que[s].alloc /\ q.seq = que[s].seq /\ q.qbytes = c.size
      /\ q.list = que[s].list
  BY <1>3 DEF QueT
<1> HIDE DEF q
<1>5. Views' = [Views EXCEPT ![s] = View(q)] /\ Views[s] = View(que[s]) /\ s \in Abstract!Slots
  BY <1>1, <1>2, ViewsChange
<1>6. PICK v : v = Views[s]
  OBVIOUS
<1>7. v = [live |-> que[s].alloc, seq |-> que[s].seq, limit |-> que[s].qbytes,
         msgs |-> Brief(que[s].list)]
  BY <1>6, <1>5 DEF View
<1>8. View(q) = [live |-> que[s].alloc, seq |-> que[s].seq, limit |-> c.size,
               msgs |-> Brief(que[s].list)]
  BY <1>4 DEF View
<1>9. PICK w : w = [v EXCEPT !.limit = c.size]
  OBVIOUS
<1>10. w = [live |-> que[s].alloc, seq |-> que[s].seq, limit |-> c.size,
                msgs |-> Brief(que[s].list)]
  BY ONLY <1>7, <1>9
<1>11. View(q) = w
  BY <1>8, <1>10
<1>12. View(que[s]).live /\ View(que[s]).limit = que[s].qbytes
  BY DEF View
<1> HIDE DEF s
<1>13. Abstract!SetLimit(s, c.size)
  <2>1. Views[s].live /\ (c.size <= Views[s].limit \/ Superuser)
    BY <1>2, <1>5, <1>12
  <2>2. Views' = [Views EXCEPT ![s].limit = c.size]
    BY <1>5, <1>6, <1>9, <1>11
  <2> QED BY <2>1, <2>2 DEF Abstract!SetLimit
<1> QED BY <1>1, <1>5, <1>13 DEF Shows, Abstract!Next

\* A queue is made: it has no messages, as the slot had none.
LEMMA MsggetShows ==
    ASSUME IInv, NEW p \in Proc, NEW s \in Slots, Msgget(p, s)
    PROVE  Shows
<1> DEFINE q == [que[s] EXCEPT !.alloc = TRUE, !.list = <<>>, !.qnum = 0, !.qbytes = msgmnb,
                               !.rwait = FALSE, !.wwait = FALSE]
<1>1. que' = [que EXCEPT ![s] = q] /\ ~que[s].alloc
  BY DEF Msgget
<1>2. que[s] \in QueT /\ que[s].list = <<>>
  BY <1>1, Here DEF QueOK
<1>3. /\ q.alloc = TRUE /\ q.seq = que[s].seq /\ q.qbytes = msgmnb /\ q.list = <<>>
  BY <1>2 DEF QueT
<1> HIDE DEF q
<1>4. Views' = [Views EXCEPT ![s] = View(q)] /\ Views[s] = View(que[s]) /\ s \in Abstract!Slots
  BY <1>1, ViewsChange
<1>5. PICK v : v = Views[s]
  OBVIOUS
<1>6. v = [live |-> que[s].alloc, seq |-> que[s].seq, limit |-> que[s].qbytes,
         msgs |-> Brief(que[s].list)]
  BY <1>5, <1>4 DEF View
<1>7. View(q) = [live |-> TRUE, seq |-> que[s].seq, limit |-> msgmnb,
               msgs |-> Brief(que[s].list)]
  BY <1>2, <1>3 DEF View
<1>8. PICK w : w = [v EXCEPT !.live = TRUE, !.limit = msgmnb]
  OBVIOUS
<1>9. w = [live |-> TRUE, seq |-> que[s].seq, limit |-> msgmnb,
               msgs |-> Brief(que[s].list)]
  BY ONLY <1>6, <1>8
<1>10. View(q) = w
  BY <1>7, <1>9
<1>11. ~View(que[s]).live
  BY <1>1 DEF View
<1>12. Abstract!Create(s)
  <2>1. ~Views[s].live
    BY <1>4, <1>11
  <2>2. Views' = [Views EXCEPT ![s].live = TRUE, ![s].limit = msgmnb]
    BY <1>4, <1>5, <1>8, <1>10
  <2> QED BY <2>1, <2>2 DEF Abstract!Create
<1> QED BY <1>4, <1>12 DEF Shows, Abstract!Next

\* Space, header and text of a message are looked for.
LEMMA GetresShows ==
    ASSUME IInv, NEW p \in Proc, NEW c \in CallT, Args(c), c.cmd = "snd", que[c.id[1]].alloc,
           Getres(p, c)
    PROVE  Shows
<1> DEFINE s == c.id[1]
           full == c.size + que[s].cbytes > que[s].qbytes
<1>1. s \in Slots /\ c.size \in Nat
  BY CallIs
<1>2. que[s] \in QueT /\ pool \in PoolT /\ pool.map \in SUBSET Segments
  BY <1>1, Here
<1>3. que[s].cbytes \in Nat /\ que[s].qbytes \in Nat
  BY <1>2 DEF QueT
<1>4. ASSUME NEW a \in 0 .. msgseg, NEW w, ~full, Enqueue(p, c, a, w)
      PROVE  Shows
  <2>1. c.size + que[s].cbytes <= que[s].qbytes
    BY <1>1, <1>3, <1>4
  <2> QED BY <1>4, <2>1, EnqueueShows
<1>5. CASE que' = [que EXCEPT ![s].wwait = @ \/ ~c.nowait]
  <2> DEFINE q == [que[s] EXCEPT !.wwait = que[s].wwait \/ ~c.nowait]
  <2>1. que' = [que EXCEPT ![s] = q]
    BY <1>5
  <2>2. /\ q.alloc = que[s].alloc /\ q.seq = que[s].seq /\ q.qbytes = que[s].qbytes
        /\ q.list = que[s].list
    BY <1>2 DEF QueT
  <2> HIDE DEF q, s
  <2> QED BY <1>1, <2>1, <2>2, SameShows
<1>6. CASE UNCHANGED que
  BY <1>6, UnchangedShows
<1>7. 0 \in 0 .. msgseg /\ Segments \subseteq 0 .. msgseg
  BY MsgAssumption DEF Segments
<1>8. CASE \E w : ~full /\ Enqueue(p, c, 0, w)
  BY <1>4, <1>7, <1>8
<1>9. CASE \E a \in pool.map : \E w : ~full /\ Copyin(p, c, a, w)
  <2>1. PICK a \in pool.map : \E w : ~full /\ Copyin(p, c, a, w)
    BY <1>9
  <2>2. PICK w : ~full /\ Copyin(p, c, a, w)
    BY <2>1
  <2>3. a \in 0 .. msgseg
    BY <1>2, <1>7
  <2>4. UNCHANGED que \/ Enqueue(p, c, a, Pool(w))
    BY <2>2 DEF Copyin, TextFaults
  <2> HIDE DEF full
  <2> QED BY <1>4, <1>6, <2>2, <2>3, <2>4
<1> QED BY <1>5, <1>6, <1>8, <1>9 DEF Getres

\* A process that uses a queue.
LEMMA ServeShows ==
    ASSUME IInv, NEW p \in Proc, NEW c \in CallT, Fresh(c), que[c.id[1]].alloc, Serve(p, c)
    PROVE  Shows
<1> DEFINE s == c.id[1]
           i == Findmsg(que[s].list, c.type)
<1>1. s \in Slots /\ que[s] \in QueT /\ Args(c)
  BY CallIs, Here DEF Fresh
<1>2. ASSUME NEW b, que' = [que EXCEPT ![s].wwait = b]
      PROVE  Shows
  <2> DEFINE q == [que[s] EXCEPT !.wwait = b]
  <2>1. que' = [que EXCEPT ![s] = q]
    BY <1>2
  <2>2. /\ q.alloc = que[s].alloc /\ q.seq = que[s].seq /\ q.qbytes = que[s].qbytes
        /\ q.list = que[s].list
    BY <1>1 DEF QueT
  <2> HIDE DEF q, s
  <2> QED BY <1>1, <2>1, <2>2, SameShows
<1>3. ASSUME NEW b, que' = [que EXCEPT ![s].rwait = b]
      PROVE  Shows
  <2> DEFINE q == [que[s] EXCEPT !.rwait = b]
  <2>1. que' = [que EXCEPT ![s] = q]
    BY <1>3
  <2>2. /\ q.alloc = que[s].alloc /\ q.seq = que[s].seq /\ q.qbytes = que[s].qbytes
        /\ q.list = que[s].list
    BY <1>1 DEF QueT
  <2> HIDE DEF q, s
  <2> QED BY <1>1, <2>1, <2>2, SameShows
<1>4. CASE Eintr(p, c)
  BY <1>2, <1>4, UnchangedShows DEF Eintr
<1>5. CASE c.cmd = "snd" /\ Msgsnd(p, c)
  BY <1>1, <1>5, GetresShows, UnchangedShows DEF Msgsnd
<1>6. CASE c.cmd = "rcv" /\ Msgrcv(p, c)
  <2>1. CASE que' = [que EXCEPT ![s].rwait = @ \/ ~c.nowait]
    <3>1. PICK b : b = (que[s].rwait \/ ~c.nowait)
      OBVIOUS
    <3>2. que' = [que EXCEPT ![s].rwait = b]
      BY <2>1, <3>1
    <3> QED BY <1>3, <3>2
  <2>2. CASE UNCHANGED que
    BY <2>2, UnchangedShows
  <2>3. CASE i # 0 /\ Take(p, c, i)
    BY <1>1, <1>6, <2>3, TakeShows
  <2> QED BY <1>6, <2>1, <2>2, <2>3 DEF Msgrcv
<1>7. CASE c.cmd = "rmid" /\ Rmid(p, c)
  BY <1>7, RmidShows
<1>8. CASE c.cmd = "set" /\ Msgset(p, c)
  BY <1>1, <1>8, SetLimitShows, UnchangedShows DEF Msgset, SetFails
<1>9. \/ Eintr(p, c)
      \/ c.cmd = "snd" /\ Msgsnd(p, c)
      \/ c.cmd = "rcv" /\ Msgrcv(p, c)
      \/ c.cmd = "rmid" /\ Rmid(p, c)
      \/ c.cmd = "set" /\ Msgset(p, c)
  BY DEF Serve, Fresh, Args
<1> QED BY <1>4, <1>5, <1>6, <1>7, <1>8, <1>9

\* A process that looks for a queue and its lock.
LEMMA AttemptShows ==
    ASSUME IInv, NEW p \in Proc, NEW c, Fresh(c), Attempt(p, c)
    PROVE  Shows
<1>1. CASE UNCHANGED que
  BY <1>1, UnchangedShows
<1>2. CASE Msgconv(c.id) /\ Serve(p, c)
  BY <1>2, ServeShows DEF Msgconv, Fresh
<1> QED BY <1>1, <1>2 DEF Attempt

\* The page has come.
LEMMA PageInShows ==
    ASSUME IInv, NEW p \in Proc, PageIn(p)
    PROVE  Shows
<1> DEFINE c == call[p]
           s == c.id[1]
<1>1. stat[p] = "fault"
  BY DEF PageIn
<1>2. /\ c \in CallT /\ Args(c) /\ s \in Slots /\ Copies(c, que[s]) /\ que[s].alloc
  BY <1>1, CallOf DEF Copies, Names
<1>3. CASE c.at = "type" /\ Getres(p, c)
  <2>1. c.cmd = "snd"
    BY <1>2, <1>3 DEF Copies
  <2> HIDE DEF c
  <2> QED BY <1>2, <1>3, <2>1, GetresShows
<1>4. CASE c.at = "text" /\ Enqueue(p, c, c.ref, pool)
  <2>1. c.cmd = "snd" /\ c.ref \in 0 .. msgseg /\ c.size + que[s].cbytes <= que[s].qbytes
    BY <1>2, <1>4, MsgAssumption DEF Copies, Segments
  <2> HIDE DEF c
  <2> QED BY <1>2, <1>4, <2>1, EnqueueShows
<1>5. CASE c.at = "out" /\ Take(p, c, c.ref)
  <2>1. c.cmd = "rcv" /\ c.ref # 0 /\ c.ref = Findmsg(que[s].list, c.type)
    BY <1>2, <1>5 DEF Copies
  <2>2. PICK i : i = c.ref
    OBVIOUS
  <2> HIDE DEF c
  <2> QED BY <1>2, <1>5, <2>1, <2>2, TakeShows
<1>6. CASE c.at = "set" /\ SetLimit(p, c)
  <2>1. c.cmd = "set"
    BY <1>2, <1>6 DEF Copies
  <2> HIDE DEF c
  <2> QED BY <1>2, <1>6, <2>1, SetLimitShows
<1>7. CASE UNCHANGED que
  BY <1>7, UnchangedShows
<1> QED BY <1>3, <1>4, <1>5, <1>6, <1>7 DEF PageIn, TextFaults

\* Every step of Msg shows a step of MsgQueue, or none.
LEMMA NextShows ==
    ASSUME IInv, [Next]_vars
    PROVE  Shows
<1>1. CASE UNCHANGED que
  BY <1>1, UnchangedShows
<1>2. ASSUME NEW p \in Proc, NEW id \in Id, NEW r \in Calls, Begin(p, id, r)
      PROVE  Shows
  <2>1. PICK c : c = Enter(r, id)
    OBVIOUS
  <2>2. Fresh(c) /\ Attempt(p, c)
    BY <1>2, <2>1, EnterIs DEF Begin
  <2> QED BY <2>2, AttemptShows
<1>3. ASSUME NEW p \in Proc, NEW s \in Slots, Msgget(p, s)
      PROVE  Shows
  BY <1>3, MsggetShows
<1>4. ASSUME NEW p \in Proc, Again(p)
      PROVE  Shows
  <2>1. stat[p] = "run" /\ Attempt(p, call[p])
    BY <1>4 DEF Again
  <2>2. Fresh(call[p])
    BY <2>1, CallOf
  <2> QED BY <2>1, <2>2, AttemptShows
<1>5. ASSUME NEW p \in Proc, Interrupted(p)
      PROVE  Shows
  <2>1. stat[p] = "intr"
    BY <1>5 DEF Interrupted
  <2>2. Fresh(call[p])
    BY <2>1, CallOf
  <2>3. ASSUME NEW at \in {"eintr", "eintr_que"}, Attempt(p, [call[p] EXCEPT !.at = at])
        PROVE  Shows
    <3> DEFINE d == [call[p] EXCEPT !.at = at]
    <3>1. d \in CallT /\ d.cmd = call[p].cmd /\ d.type = call[p].type /\ d.size = call[p].size
          /\ d.at = at
      BY <2>2 DEF CallT, Fresh
    <3> HIDE DEF d
    <3>2. Fresh(d) /\ Attempt(p, d)
      BY <2>2, <2>3, <3>1 DEF Args, Fresh, d
    <3> QED BY <3>2, AttemptShows
  <2> QED BY <1>1, <1>5, <2>3 DEF Interrupted
<1>6. ASSUME NEW p \in Proc, PageIn(p)
      PROVE  Shows
  BY <1>6, PageInShows
<1> QED BY <1>1, <1>2, <1>3, <1>4, <1>5, <1>6 DEF Next, vars, Signal, StopCont

\* At first there are no queues.
LEMMA InitShows == Init => Abstract!Init
<1>1. Brief(<<>>) = <<>>
  BY DEF Brief
<1>2. ASSUME Init
      PROVE  Abstract!Init
  <2>1. \A s \in Slots : View(que[s]) = [live |-> FALSE, seq |-> 0, msgs |-> <<>>, limit |-> 0]
    BY <1>1, <1>2 DEF Init, View
  <2> QED BY <2>1 DEF Abstract!Init, Views, Slots, Abstract!Slots
<1> QED BY <1>2

\* Msg implements MsgQueue: messages are sent and received as wholes and in
\* order, within the limits, by whatever pages, signals, locks and waits
\* (msg.c:277-656).
THEOREM Implements == Spec => ImplementsMsgQueue
<1>1. Init => Abstract!Init
  BY InitShows
<1>2. IInv /\ [Next]_vars => [Abstract!Next]_Views
  BY NextShows DEF Shows
<1> QED BY <1>1, <1>2, Invariant, PTL DEF Spec, ImplementsMsgQueue, Abstract!Spec

=============================================================================
