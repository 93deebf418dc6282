--------------------------- MODULE LockTableProof ---------------------------
(***************************************************************************)
(* Proofs about LockTable for any owners, files, requests and file size.   *)
(* The three properties together are inductive: NoClash is kept because a  *)
(* call changes the bytes of its owner only, and to a type that clashes    *)
(* with nobody's or to none; SleepersBlocked because a step that unblocks  *)
(* a sleeper wakes it.                                                     *)
(***************************************************************************)
EXTENDS LockTable, TLAPS

IInv == TypeOK /\ NoClash /\ SleepersBlocked

\* At the start nothing is locked and nobody sleeps.
LEMMA InitInvariant == Init => IInv
BY DEF Init, IInv, TypeOK, NoClash, SleepersBlocked, Clash, Stat, LockType,
       F_UNLCK, F_RDLCK, F_WRLCK, BlockedIn

\* Nothing clashes with a byte that is not locked.
LEMMA UnlockedClashesNot ==
    \A t : ~Clash(F_UNLCK, t) /\ ~Clash(t, F_UNLCK)
BY DEF Clash

\* Clashing is symmetric.
LEMMA ClashSymmetric == \A t1, t2 : Clash(t1, t2) <=> Clash(t2, t1)
BY DEF Clash

\* A table in which p has got r, or less than before, or nothing has
\* changed, has its type and no clash.
LEMMA OverlayNoClash ==
    ASSUME IInv, NEW p \in Proc, NEW r \in Requests, ~BlockedIn(lk, p, r),
           lk' = Overlay(lk, p, r)
    PROVE  lk' \in [Proc -> [File -> [Bytes -> LockType]]] /\ NoClash'
<1>1. r \in Request
  BY LockAssumption
<1>2. r.type \in LockType /\ r.file \in File
  BY <1>1 DEF Request
<1>3. lk \in [Proc -> [File -> [Bytes -> LockType]]]
  BY DEF IInv, TypeOK
<1>4. lk' \in [Proc -> [File -> [Bytes -> LockType]]]
  BY <1>2, <1>3 DEF Overlay
<1>5. \A q \in Proc, f \in File, b \in Bytes :
        q # p => lk'[q][f][b] = lk[q][f][b]
  BY <1>3 DEF Overlay
<1>6. ASSUME NEW q \in Proc, q # p, NEW f \in File, NEW b \in Bytes
      PROVE  ~Clash(lk'[p][f][b], lk'[q][f][b])
  <2>1. CASE f = r.file /\ b \in r.start .. r.end
    <3>1. lk'[p][f][b] = r.type
      BY <1>2, <1>3, <2>1 DEF Overlay
    <3>2. CASE r.type = F_UNLCK
      BY <3>1, <3>2, UnlockedClashesNot
    <3>3. CASE r.type # F_UNLCK
      <4>1. ~Clash(lk[q][f][b], r.type)
        BY <1>6, <2>1, <3>3 DEF BlockedIn
      <4> QED BY <1>5, <1>6, <3>1, <4>1, ClashSymmetric
    <3> QED BY <3>2, <3>3
  <2>2. CASE ~(f = r.file /\ b \in r.start .. r.end)
    <3>1. lk'[p][f][b] = lk[p][f][b]
      BY <1>2, <1>3, <2>2 DEF Overlay
    <3> QED BY <1>5, <1>6, <3>1 DEF IInv, NoClash
  <2> QED BY <2>1, <2>2
<1>7. NoClash'
  <2> SUFFICES ASSUME NEW q1 \in Proc, NEW q2 \in Proc, NEW f \in File, NEW b \in Bytes,
                      q1 # q2
               PROVE  ~Clash(lk'[q1][f][b], lk'[q2][f][b])
    BY DEF NoClash
  <2>1. CASE q1 = p
    BY <1>6, <2>1
  <2>2. CASE q2 = p
    BY <1>6, <2>2, ClashSymmetric
  <2>3. CASE q1 # p /\ q2 # p
    BY <1>5, <2>3 DEF IInv, NoClash
  <2> QED BY <2>1, <2>2, <2>3
<1> QED BY <1>4, <1>7

\* A table in which every byte is as it was or no longer locked has no clash.
LEMMA LessNoClash ==
    ASSUME IInv,
           \A q \in Proc, f \in File, b \in Bytes : lk'[q][f][b] \in {lk[q][f][b], F_UNLCK}
    PROVE  NoClash'
<1> SUFFICES ASSUME NEW q1 \in Proc, NEW q2 \in Proc, NEW f \in File, NEW b \in Bytes,
                    q1 # q2
             PROVE  ~Clash(lk'[q1][f][b], lk'[q2][f][b])
  BY DEF NoClash
<1>1. ~Clash(lk[q1][f][b], lk[q2][f][b])
  BY DEF IInv, NoClash
<1>2. /\ lk'[q1][f][b] \in {lk[q1][f][b], F_UNLCK}
      /\ lk'[q2][f][b] \in {lk[q2][f][b], F_UNLCK}
  OBVIOUS
<1> QED BY <1>1, <1>2, UnlockedClashesNot

\* The same for what lack of memory leaves p.
LEMMA LosesNoClash ==
    ASSUME IInv, NEW p \in Proc, NEW g \in File, Loses(p, g)
    PROVE  lk' \in [Proc -> [File -> [Bytes -> LockType]]] /\ NoClash'
<1>1. lk \in [Proc -> [File -> [Bytes -> LockType]]]
  BY DEF IInv, TypeOK
<1>2. \A b \in Bytes : lk'[p][g][b] \in {lk[p][g][b], F_UNLCK}
  BY DEF Loses
<1>3. lk' = [lk EXCEPT ![p][g] = lk'[p][g]]
  BY DEF Loses
<1>4. \A q \in Proc, f \in File : q # p \/ f # g => lk'[q][f] = lk[q][f]
  BY <1>1, <1>3
<1>5. \A q \in Proc, f \in File, b \in Bytes : lk'[q][f][b] \in {lk[q][f][b], F_UNLCK}
  BY <1>2, <1>4
<1>6. NoClash'
  BY <1>5, LessNoClash
<1>7. PICK m \in [Bytes -> LockType] : lk' = [lk EXCEPT ![p][g] = m]
  BY DEF Loses
<1>8. lk' \in [Proc -> [File -> [Bytes -> LockType]]]
  <2> HIDE DEF Bytes, LockType
  <2> QED BY <1>1, <1>7
<1> QED BY <1>6, <1>8

-----------------------------------------------------------------------------
\* A step that wakes whom it unblocks leaves only blocked sleepers.
LEMMA WakesBlockedSound ==
    ASSUME NEW st, WakesBlocked(st)
    PROVE  stat' \in [Proc -> Stat] /\ SleepersBlocked'
<1> SUFFICES ASSUME NEW q \in Proc, stat'[q] = "asleep"
             PROVE  BlockedIn(lk', q, req'[q])
  BY DEF WakesBlocked, SleepersBlocked, BlockedIn
<1>1. CASE st[q] = "asleep"
  BY <1>1 DEF WakesBlocked
<1>2. CASE st[q] # "asleep"
  BY <1>2 DEF WakesBlocked
<1> QED BY <1>1, <1>2

\* A call that comes back.
LEMMA ReturnInvariant ==
    ASSUME IInv, NEW p \in Proc, NEW r \in Requests, Return(p, r)
    PROVE  IInv'
<1>1. stat' \in [Proc -> Stat] /\ SleepersBlocked'
  BY WakesBlockedSound DEF Return
<1>2. lk' \in [Proc -> [File -> [Bytes -> LockType]]] /\ NoClash'
  <2>1. CASE lk' = Overlay(lk, p, r) /\ ~BlockedIn(lk, p, r)
    BY <2>1, OverlayNoClash
  <2>2. CASE UNCHANGED lk
    BY <2>2 DEF IInv, TypeOK, NoClash
  <2>3. CASE Loses(p, r.file)
    <3>1. r.file \in File
      BY LockAssumption DEF Request
    <3> QED BY <2>3, <3>1, LosesNoClash
  <2> QED BY <2>1, <2>2, <2>3 DEF Return
<1>3. req' \in [Proc -> Requests \cup {NoRequest}]
  BY DEF Return, IInv, TypeOK
<1>4. \A q \in Proc : stat'[q] # "user" => req'[q] \in Requests
  <2> SUFFICES ASSUME NEW q \in Proc, stat'[q] # "user"
               PROVE  req'[q] \in Requests
    OBVIOUS
  <2> DEFINE st == [stat EXCEPT ![p] = "user"]
  <2>1. st[q] # "user"
    <3>1. CASE st[q] = "asleep"
      BY <3>1
    <3>2. CASE st[q] # "asleep"
      BY <3>2 DEF Return, WakesBlocked
    <3> QED BY <3>1, <3>2
  <2>2. q # p /\ stat[q] # "user"
    BY <2>1 DEF IInv, TypeOK
  <2> QED BY <2>2 DEF Return, IInv, TypeOK
<1> QED BY <1>1, <1>2, <1>3, <1>4 DEF IInv, TypeOK

\* A call that waits.
LEMMA WaitInvariant ==
    ASSUME IInv, NEW p \in Proc, NEW r \in Requests, Wait(p, r)
    PROVE  IInv'
<1>1. TypeOK'
  BY DEF Wait, IInv, TypeOK, Stat
<1>2. NoClash'
  BY DEF Wait, IInv, NoClash
<1>3. SleepersBlocked'
  <2> SUFFICES ASSUME NEW q \in Proc, stat'[q] = "asleep"
               PROVE  BlockedIn(lk', q, req'[q])
    BY DEF SleepersBlocked, BlockedIn
  <2>1. lk' = lk /\ BlockedIn(lk, p, r)
    BY DEF Wait
  <2>2. CASE q = p
    <3>1. req'[q] = r
      BY <2>2 DEF Wait, IInv, TypeOK
    <3> QED BY <2>1, <2>2, <3>1
  <2>3. CASE q # p
    <3>1. req'[q] = req[q] /\ stat[q] = "asleep"
      BY <2>3 DEF Wait, IInv, TypeOK
    <3> QED BY <2>1, <3>1 DEF IInv, SleepersBlocked
  <2> QED BY <2>2, <2>3
<1> QED BY <1>1, <1>2, <1>3 DEF IInv

\* A signal or a wakeup without cause.
LEMMA RouseInvariant ==
    ASSUME IInv, NEW p \in Proc, Rouse(p)
    PROVE  IInv'
<1>1. /\ lk' = lk /\ req' = req
      /\ stat[p] \in {"asleep", "run"}
      /\ \/ stat' = [stat EXCEPT ![p] = "intr"]
         \/ stat' = [stat EXCEPT ![p] = "run"]
  BY DEF Rouse
<1>2. \A q \in Proc : stat'[q] = "asleep" => stat[q] = "asleep"
  BY <1>1 DEF IInv, TypeOK
<1>3. TypeOK'
  BY <1>1 DEF IInv, TypeOK, Stat
<1>4. NoClash'
  BY <1>1 DEF IInv, NoClash
<1>5. SleepersBlocked'
  <2> SUFFICES ASSUME NEW q \in Proc, stat'[q] = "asleep"
               PROVE  BlockedIn(lk', q, req'[q])
    BY DEF SleepersBlocked, BlockedIn
  <2> QED BY <1>1, <1>2 DEF IInv, SleepersBlocked
<1> QED BY <1>3, <1>4, <1>5 DEF IInv

\* cleanlocks.
LEMMA CleanInvariant ==
    ASSUME IInv, NEW Q, NEW g \in File, Clean(Q, g)
    PROVE  IInv'
<1>1. lk \in [Proc -> [File -> [Bytes -> LockType]]]
  BY DEF IInv, TypeOK
<1>2. stat' \in [Proc -> Stat] /\ SleepersBlocked'
  BY WakesBlockedSound DEF Clean
<1>3. lk' \in [Proc -> [File -> [Bytes -> LockType]]]
  BY <1>1 DEF Clean, LockType
<1>4. \A q \in Proc, f \in File, b \in Bytes : lk'[q][f][b] \in {lk[q][f][b], F_UNLCK}
  BY <1>1 DEF Clean
<1>5. NoClash'
  BY <1>4, LessNoClash
<1>6. req' = req /\ \A q \in Proc : stat'[q] # "user" => stat[q] # "user"
  BY DEF Clean, WakesBlocked
<1>7. TypeOK'
  BY <1>2, <1>3, <1>6 DEF IInv, TypeOK
<1> QED BY <1>2, <1>5, <1>7 DEF IInv

\* Every step keeps the invariant.
LEMMA NextInvariant ==
    ASSUME IInv, [Next]_vars
    PROVE  IInv'
<1>1. ASSUME NEW p \in Proc, Resume(p)
      PROVE  IInv'
  <2>1. req[p] \in Requests
    BY <1>1 DEF Resume, IInv, TypeOK
  <2> QED BY <1>1, <2>1, ReturnInvariant, WaitInvariant DEF Resume
<1>2. ASSUME NEW p \in Proc, Rouse(p)
      PROVE  IInv'
  BY <1>2, RouseInvariant
<1>3. ASSUME NEW p \in Proc, NEW r \in Requests, Call(p, r)
      PROVE  IInv'
  BY <1>3, ReturnInvariant, WaitInvariant DEF Call
<1>4. ASSUME NEW f \in File, Clean(Remote, f)
      PROVE  IInv'
  BY <1>4, CleanInvariant
<1>5. ASSUME NEW f \in File, NEW p \in Proc, Clean({p}, f)
      PROVE  IInv'
  BY <1>5, CleanInvariant
<1>6. ASSUME UNCHANGED vars
      PROVE  IInv'
  BY <1>6 DEF vars, IInv, TypeOK, NoClash, SleepersBlocked, BlockedIn
<1> QED BY <1>1, <1>2, <1>3, <1>4, <1>5, <1>6 DEF Next

\* Readers and writers exclude each other byte by byte for any number of
\* owners, files and requests, also when allocations fail half-way.
THEOREM LockTableNoClash == Spec => []NoClash
<1>1. IInv => NoClash
  BY DEF IInv
<1> QED BY InitInvariant, NextInvariant, <1>1, PTL DEF Spec

\* A process sleeps in reclock only while a lock stands in its way.
THEOREM LockTableSleepersBlocked == Spec => []SleepersBlocked
<1>1. IInv => SleepersBlocked
  BY DEF IInv
<1> QED BY InitInvariant, NextInvariant, <1>1, PTL DEF Spec

\* The table keeps its shape.
THEOREM LockTableTypeCorrect == Spec => []TypeOK
<1>1. IInv => TypeOK
  BY DEF IInv
<1> QED BY InitInvariant, NextInvariant, <1>1, PTL DEF Spec
=============================================================================
