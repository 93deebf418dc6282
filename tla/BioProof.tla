------------------------------ MODULE BioProof ------------------------------
(***************************************************************************)
(* Proofs about Bio: an inductive invariant of the buffer cache, and from  *)
(* it that no buffer is lost or in two hands (Ownership), that no block    *)
(* has two valid buffers (OneBufferPerBlock), that nobody sleeps without a *)
(* reason and a mark that will wake it (SleepersWait), that bdwait waits   *)
(* for what it has to (BdwaitWaits), and that the memory of the buffers    *)
(* adds up (BuffersAccounted).                                             *)
(*                                                                         *)
(* A step of a process handles at most one buffer.  The lemmas ...Kept say *)
(* what a step must show of that buffer and that process so that each part *)
(* of the invariant holds again, StepKeeps puts them together, and there   *)
(* is one lemma ...Keeps for each action, which the lemmas about getting   *)
(* (TakeKeeps), writing (BwriteKeeps) and releasing (BrelseKeeps) a buffer *)
(* serve.  DiskStep does the same for the interrupt.  The last two         *)
(* properties need to know also where a step may go and which sizes it may *)
(* change (Turn), for which there is one lemma ...Turn for each action.    *)
(***************************************************************************)
EXTENDS Bio, SequenceTheorems, FiniteSetTheorems, WellFoundedInduction, TLAPS

-----------------------------------------------------------------------------
(* The invariant.                                                          *)

\* The headers, and what a process does.
HeaderT == [blk : Blk \cup {None}, size : Nat, flags : SUBSET Flags, fresh : BOOLEAN]
CallT == [op : {"none", "bread", "breada", "getblk", "ngeteblk", "blkflush", "bflush", "sync",
                "close"},
          blk : Blk \cup {None}, ra : Blk \cup {None},
          end : {"brelse", "bwrite", "bdwrite", "bawrite"}]
ProcT == [call : CallT, at : Where, chan : Chan, bp : Buf \cup {None}, first : Buf \cup {None},
          save : Buf \cup {None}, blk : Blk \cup {None}, then : Where, back : Where,
          slept : BOOLEAN, raced : BOOLEAN]
Typed ==
    /\ buf \in [Buf -> HeaderT] /\ free \in Seq(Buf) /\ hdrs \subseteq Buf
    /\ room \in Int /\ want \subseteq {"free", "hdr"} /\ asyn \in [cnt : Int, wait : BOOLEAN]
    /\ io \subseteq Buf /\ twice \subseteq Blk
    /\ proc \in [Proc -> ProcT] /\ cpu \in Proc \cup {None}

\* Where a process has the buffer bp, and where it is in getblk or ngeteblk.
Owning == {"got", "kmem", "breakup", "biowait", "hold", "bwait"}
Searching == {"getblk", "match", "getfree", "nofree", "kmem", "got"}
InGetblk(s) == s.at \in Searching \/ s.back = "getfree"
Broken(s, w) == s.at = "breakup" /\ s.then = w

\* What a process has and will do, by where it goes on.
CallOK(c) ==
    /\ c.op \in {"bread", "breada", "getblk", "blkflush"} => c.blk # None
    /\ c.op = "breada" => c.ra # None
HasOK(s) ==
    /\ s.bp # None <=> s.at \in Owning \cup {"match"}
    /\ s.save # None => s.at \in {"getfree", "nofree"} \/ s.back = "getfree"
    /\ s.first # None => /\ s.call.op = "breada"
                         /\ \/ InGetblk(s) \/ s.at \in {"ra", "join"}
                            \/ Broken(s, "ra") \/ Broken(s, "join")
    /\ InGetblk(s) /\ s.call.op = "breada" /\ s.blk # s.call.ra => s.first = None
    /\ s.at = "kmem" => s.save = None /\ s.slept
    /\ Broken(s, "ra") => s.first = s.bp
    /\ s.at \in Owning /\ ~Broken(s, "ra") => s.first # s.bp
    /\ s.save # None => s.save # s.bp /\ s.save # s.first
BackOK(s) ==
    /\ s.at \in {"getblk", "match"} => s.blk # None
    /\ InGetblk(s) /\ s.call.op \in {"bread", "breada"} => s.blk # None
    /\ s.at = "blkflush" \/ s.back = "blkflush" => s.call.blk # None
    /\ \/ s.back = "user"
       \/ s.back = "getfree" /\ (s.at = "wrote" \/ (Broken(s, "wrote") /\ s.slept))
       \/ s.back = "bflush" /\ (s.at = "wrote" \/ Broken(s, "wrote"))
       \/ s.back = "blkflush" /\ (s.at = "bwait" \/ Broken(s, "bwait"))
    /\ s.at = "breakup" => s.then \in {"wrote", "bwait", "biowait", "ra", "join"}
    /\ s.at \in {"ra", "join"} \/ Broken(s, "ra") \/ Broken(s, "join") => s.call.op = "breada"
Local(s) == CallOK(s.call) /\ HasOK(s) /\ BackOK(s)
Locals == \A p \in Proc : Local(proc[p])

\* Who is in the middle of a run; what it has seen still stands.
RunOK(s, p) ==
    /\ s.at \in {"match", "wrote"} => cpu = p
    /\ s.at \in {"getfree", "nofree"} \/ s.back = "getfree" =>
         s.slept \/ s.blk = None \/ (cpu = p /\ ~Incore(s.blk))
    /\ cpu = p => s.chan = None
    /\ s.at = "match" => buf[s.bp].blk = s.blk
Runners == \A p \in Proc : RunOK(proc[p], p)

OneBuffer == \A k \in Blk \ twice : \A a, b \in Matches(k) : a = b

\* A header that a process has, by what it is to the process; i: has the
\* driver got it?
Blank(h) == h.blk = None /\ h.size = 0 /\ h.flags = {}
BpOK(s, h, i) ==
    /\ s.at = "kmem" => Blank(h) /\ ~i
    /\ s.at # "kmem" => "BUSY" \in h.flags
    /\ s.at = "got" => h.blk = s.blk
    /\ s.at \in {"got", "hold"} => ~i /\ "ASYNC" \notin h.flags
    /\ s.at \in {"biowait", "bwait"} => "ASYNC" \notin h.flags /\ (i \/ "DONE" \in h.flags)
    /\ s.at = "breakup" => /\ "DONE" \notin h.flags
                           /\ s.chan = IF i THEN "dma" ELSE None
                           /\ "ASYNC" \in h.flags <=> s.then \in {"wrote", "join"}
                           /\ "READ" \in h.flags <=> s.then \in {"biowait", "ra", "join"}
FirstOK(s, b, h, i) ==
    /\ "BUSY" \in h.flags /\ "ASYNC" \notin h.flags
    /\ i \/ "DONE" \in h.flags \/ (s.at = "breakup" /\ s.bp = b)
SaveOK(h, i) ==
    ~i /\ h.blk = None /\ h.flags \cap {"BUSY", "WANTED", "ASYNC"} = {"BUSY"}

Mine(s, b) == (s.at \in Owning /\ b = s.bp) \/ b \in {s.first, s.save}
MineOK(s, b, h, i) ==
    /\ s.at \in Owning /\ b = s.bp => BpOK(s, h, i)
    /\ b = s.first => FirstOK(s, b, h, i)
    /\ b = s.save => SaveOK(h, i)

\* Every buffer has its place.
BufOK(b) ==
    /\ b \in ToSet(free) => /\ b \notin hdrs /\ b \notin io
                            /\ buf[b].flags \cap {"BUSY", "WANTED", "ASYNC", "READ"} = {}
    /\ b \in hdrs => b \notin io /\ Blank(buf[b])
    /\ b \in io => Is(b, "BUSY") /\ ~Is(b, "DONE") /\ (Is(b, "READ") => buf[b].blk # None)
    /\ \/ b \in hdrs \/ b \in ToSet(free) \/ (b \in io /\ Is(b, "ASYNC"))
       \/ \E p \in Proc : Mine(proc[p], b)
    /\ \A p \in Proc : Mine(proc[p], b) =>
         b \notin ToSet(free) /\ b \notin hdrs /\ MineOK(proc[p], b, buf[b], b \in io)
    /\ \A p, q \in Proc : Mine(proc[p], b) /\ Mine(proc[q], b) => p = q
Places == IsInjective(free) /\ \A b \in Buf : BufOK(b)

\* Sleepers.
WaitOK(s) ==
    /\ s.chan \in Buf => Is(s.chan, "BUSY") /\ Is(s.chan, "WANTED")
    /\ s.chan = "free" => "free" \in want /\ (free = <<>> \/ s.raced)
    /\ s.chan = "hdr" => "hdr" \in want /\ hdrs = {}
    /\ s.chan = "async" => asyn.wait /\ asyn.cnt > 0
    /\ s.at \in {"biowait", "bwait"} /\ s.chan # None => s.chan = s.bp /\ s.bp \in io
    /\ s.chan # None => s.at \in {"getblk", "getfree", "breakup", "biowait", "bwait", "blkflush",
                                  "bdwait"}
Waits == \A p \in Proc : WaitOK(proc[p])

\* basyncnt: the asynchronous writes that bwrite has counted, or is about to.
Starts(s, b) == Broken(s, "wrote") /\ s.bp = b
Out == {b \in Writing : \A p \in Proc : ~Starts(proc[p], b)}
Wrotes == {p \in Proc : proc[p].at = "wrote"}
Num(P) == IF P THEN 1 ELSE 0
Counted == asyn.cnt + Num(Wrotes # {}) = Cardinality(Out)

IInv == Typed /\ Locals /\ Runners /\ OneBuffer /\ Places /\ Waits /\ Counted

-----------------------------------------------------------------------------
(* The available list.                                                     *)

\* s lists each buffer of F once.
Lists(s, F) ==
    /\ s \in Seq(Buf) /\ IsInjective(s) /\ ToSet(s) = F /\ (s = <<>> <=> F = {})

\* So does the available list; what it lists are buffers.
LEMMA ListIs ==
    ASSUME NEW s \in Seq(Buf), IsInjective(s)
    PROVE  /\ Lists(s, ToSet(s)) /\ ToSet(s) \subseteq Buf
           /\ Len(s) \in Nat /\ s \in [1 .. Len(s) -> Buf] /\ DOMAIN s = 1 .. Len(s)
           /\ \A b \in ToSet(s) : \E i \in 1 .. Len(s) : s[i] = b
<1>1. Len(s) \in Nat /\ s \in [1 .. Len(s) -> Buf] /\ DOMAIN s = 1 .. Len(s)
  BY LenProperties
<1>2. ToSet(s) = {s[i] : i \in 1 .. Len(s)}
  BY <1>1 DEF ToSet
<1>3. ToSet(s) \subseteq Buf /\ \A b \in ToSet(s) : \E i \in 1 .. Len(s) : s[i] = b
  BY <1>1, <1>2
<1>4. s = <<>> <=> ToSet(s) = {}
  <2>1. s = <<>> <=> Len(s) = 0
    BY EmptySeq
  <2>2. Len(s) # 0 => s[1] \in ToSet(s)
    BY <1>1, <1>2
  <2>3. Len(s) = 0 => ToSet(s) = {}
    BY <1>2
  <2> QED BY <2>1, <2>2, <2>3
<1> QED BY <1>1, <1>3, <1>4 DEF Lists

\* RemoveAt closes the list up over element i.
LEMMA RemoveAtIs ==
    ASSUME NEW s \in Seq(Buf), IsInjective(s), NEW i \in 1 .. Len(s)
    PROVE  Lists(RemoveAt(s, i), ToSet(s) \ {s[i]})
<1> DEFINE n == Len(s)
           x == SubSeq(s, 1, i - 1)
           y == SubSeq(s, i + 1, n)
           r == RemoveAt(s, i)
<1>1. n \in Nat /\ s \in [1 .. n -> Buf] /\ DOMAIN s = 1 .. n
  BY LenProperties
<1>2. r = x \o y
  BY DEF RemoveAt
<1>3. x \in Seq(Buf) /\ Len(x) = i - 1 /\ \A k \in 1 .. i - 1 : x[k] = s[k]
  <2>1. \A k \in 1 .. i - 1 : s[k] \in Buf
    BY <1>1
  <2>2. 1 \in Int /\ i - 1 \in Int /\ i - 1 >= 0
    BY <1>1
  <2>3. /\ x \in Seq(Buf) /\ Len(x) = IF 1 <= i - 1 THEN i - 1 - 1 + 1 ELSE 0
        /\ \A k \in 1 .. i - 1 - 1 + 1 : x[k] = s[1 + k - 1]
    BY <2>1, <2>2, SubSeqProperties
  <2> QED BY <2>2, <2>3
<1>4. y \in Seq(Buf) /\ Len(y) = n - i /\ \A k \in 1 .. n - i : y[k] = s[i + k]
  <2>1. \A k \in i + 1 .. n : s[k] \in Buf
    BY <1>1
  <2>2. i + 1 \in Int /\ n \in Int /\ i <= n
    BY <1>1
  <2>3. /\ y \in Seq(Buf) /\ Len(y) = IF i + 1 <= n THEN n - (i + 1) + 1 ELSE 0
        /\ \A k \in 1 .. n - (i + 1) + 1 : y[k] = s[i + 1 + k - 1]
    BY <2>1, <2>2, SubSeqProperties
  <2> QED BY <2>2, <2>3
<1> HIDE DEF x, y, r, n
<1>5. /\ r \in Seq(Buf) /\ Len(r) = n - 1
      /\ \A k \in 1 .. n - 1 : r[k] = IF k <= i - 1 THEN x[k] ELSE y[k - (i - 1)]
  <2>1. i - 1 + (n - i) = n - 1
    BY <1>1 DEF n
  <2> QED BY <1>2, <1>3, <1>4, <2>1, ConcatProperties
<1>6. \A k \in 1 .. n - 1 : r[k] = IF k < i THEN s[k] ELSE s[k + 1]
  <2>1. ASSUME NEW k \in 1 .. n - 1
        PROVE  r[k] = IF k < i THEN s[k] ELSE s[k + 1]
    <3>1. r[k] = IF k <= i - 1 THEN x[k] ELSE y[k - (i - 1)]
      BY <1>5
    <3>2. CASE k < i
      BY <1>1, <1>3, <3>1, <3>2 DEF n
    <3>3. CASE k >= i
      <4>1. k - (i - 1) \in 1 .. n - i /\ i + (k - (i - 1)) = k + 1
        BY <1>1, <3>3 DEF n
      <4>2. y[k - (i - 1)] = s[i + (k - (i - 1))]
        BY <1>4, <4>1
      <4> QED BY <1>1, <3>1, <3>3, <4>1, <4>2
    <3> QED BY <1>1, <3>2, <3>3
  <2> QED BY <2>1
<1>7. DOMAIN r = 1 .. n - 1
  BY <1>5, LenProperties
<1>8. \A a, b \in 1 .. n : s[a] = s[b] => a = b
  BY <1>1 DEF IsInjective
<1>9. IsInjective(r)
  BY <1>1, <1>6, <1>7, <1>8 DEF IsInjective, n
<1>10. ToSet(r) = ToSet(s) \ {s[i]}
  <2>1. \A k \in 1 .. n - 1 : r[k] \in ToSet(s) /\ r[k] # s[i]
    BY <1>1, <1>6, <1>8 DEF ToSet, n
  <2>2. ASSUME NEW k \in 1 .. n, k # i
        PROVE  \E j \in 1 .. n - 1 : r[j] = s[k]
    <3>1. CASE k < i
      BY <1>1, <1>6, <3>1 DEF n
    <3>2. CASE k > i
      <4>1. k - 1 \in 1 .. n - 1 /\ ~(k - 1 < i) /\ k - 1 + 1 = k
        BY <1>1, <3>2 DEF n
      <4> QED BY <1>6, <4>1
    <3> QED BY <1>1, <2>2, <3>1, <3>2 DEF n
  <2>3. ToSet(r) = {r[k] : k \in 1 .. n - 1} /\ ToSet(s) = {s[k] : k \in 1 .. n}
    BY <1>1, <1>7 DEF ToSet
  <2> QED BY <2>1, <2>2, <2>3
<1> QED BY <1>5, <1>9, <1>10, ListIs DEF r

\* Without its first element.
LEMMA TailIs ==
    ASSUME NEW s \in Seq(Buf), IsInjective(s), s # <<>>
    PROVE  Head(s) \in ToSet(s) /\ Lists(Tail(s), ToSet(s) \ {Head(s)})
<1>1. Len(s) \in Nat /\ Len(s) # 0 /\ DOMAIN s = 1 .. Len(s)
  BY EmptySeq, LenProperties
<1>2. Head(s) = s[1]
  OBVIOUS
<1>3. 1 \in 1 .. Len(s)
  BY <1>1
<1>4. Tail(s) \in Seq(Buf) /\ Len(Tail(s)) = Len(s) - 1
      /\ \A i \in 1 .. Len(Tail(s)) : Tail(s)[i] = s[i + 1]
  BY HeadTailProperties
<1>5. DOMAIN Tail(s) = 1 .. Len(s) - 1
  BY <1>4, LenProperties
<1>6. \A a, b \in 1 .. Len(s) : s[a] = s[b] => a = b
  BY <1>1 DEF IsInjective
<1>7. IsInjective(Tail(s))
  BY <1>1, <1>4, <1>5, <1>6 DEF IsInjective
<1>8. ToSet(Tail(s)) = ToSet(s) \ {s[1]}
  <2>1. \A k \in 1 .. Len(s) - 1 : Tail(s)[k] \in ToSet(s) /\ Tail(s)[k] # s[1]
    BY <1>1, <1>4, <1>6 DEF ToSet
  <2>2. \A k \in 1 .. Len(s) : k # 1 => k - 1 \in 1 .. Len(s) - 1 /\ Tail(s)[k - 1] = s[k]
    BY <1>1, <1>4
  <2>3. /\ ToSet(Tail(s)) = {Tail(s)[k] : k \in 1 .. Len(s) - 1}
        /\ ToSet(s) = {s[k] : k \in 1 .. Len(s)}
    BY <1>1, <1>5 DEF ToSet
  <2> QED BY <2>1, <2>2, <2>3
<1>9. Head(s) \in ToSet(s)
  BY <1>1, <1>2, <1>3 DEF ToSet
<1>10. Lists(Tail(s), ToSet(Tail(s)))
  BY <1>4, <1>7, ListIs
<1> QED BY <1>2, <1>8, <1>9, <1>10

\* With one more at the end, or at the front.
LEMMA AppendIs ==
    ASSUME NEW s \in Seq(Buf), IsInjective(s), NEW b \in Buf, b \notin ToSet(s)
    PROVE  Lists(Append(s, b), ToSet(s) \cup {b})
<1>1. Len(s) \in Nat /\ DOMAIN s = 1 .. Len(s)
  BY LenProperties
<1>2. PICK a : a = Append(s, b)
  OBVIOUS
<1>3. /\ a \in Seq(Buf) /\ Len(a) = Len(s) + 1 /\ a[Len(s) + 1] = b
      /\ \A i \in 1 .. Len(s) : a[i] = s[i]
  BY <1>2, AppendProperties
<1>4. DOMAIN a = 1 .. Len(s) + 1
  BY <1>3, LenProperties
<1>5. \A i, j \in 1 .. Len(s) : s[i] = s[j] => i = j
  BY <1>1 DEF IsInjective
<1>6. \A i \in 1 .. Len(s) : s[i] # b
  BY <1>1 DEF ToSet
<1>7. IsInjective(a)
  <2>1. ASSUME NEW i \in 1 .. Len(s) + 1, NEW j \in 1 .. Len(s) + 1, a[i] = a[j]
        PROVE  i = j
    <3>1. i \in 1 .. Len(s) \/ i = Len(s) + 1
      BY <1>1
    <3>2. j \in 1 .. Len(s) \/ j = Len(s) + 1
      BY <1>1
    <3> QED BY <1>3, <1>5, <1>6, <2>1, <3>1, <3>2
  <2> QED BY <1>4, <2>1 DEF IsInjective
<1>8. ToSet(a) = ToSet(s) \cup {b}
  <2>1. ToSet(a) = {a[k] : k \in 1 .. Len(s) + 1} /\ ToSet(s) = {s[k] : k \in 1 .. Len(s)}
    BY <1>1, <1>4 DEF ToSet
  <2>2. \A k \in 1 .. Len(s) + 1 : k \in 1 .. Len(s) \/ k = Len(s) + 1
    BY <1>1
  <2>3. Len(s) + 1 \in 1 .. Len(s) + 1 /\ 1 .. Len(s) \subseteq 1 .. Len(s) + 1
    BY <1>1
  <2> QED BY <1>3, <2>1, <2>2, <2>3
<1>9. Lists(a, ToSet(s) \cup {b})
  BY <1>3, <1>7, <1>8, ListIs
<1> QED BY <1>2, <1>9

\* So with one at the front.
LEMMA ConsIs ==
    ASSUME NEW s \in Seq(Buf), IsInjective(s), NEW b \in Buf, b \notin ToSet(s)
    PROVE  Lists(<<b>> \o s, ToSet(s) \cup {b})
<1>1. Len(s) \in Nat /\ DOMAIN s = 1 .. Len(s)
  BY LenProperties
<1>2. PICK a : a = <<b>> \o s
  OBVIOUS
<1>3. <<b>> \in Seq(Buf) /\ Len(<<b>>) = 1 /\ <<b>>[1] = b
  OBVIOUS
<1>4. /\ a \in Seq(Buf) /\ Len(a) = 1 + Len(s)
      /\ \A i \in 1 .. 1 + Len(s) : a[i] = IF i <= 1 THEN <<b>>[i] ELSE s[i - 1]
  <2>1. PICK c \in Seq(Buf) : c = <<b>> /\ Len(c) = 1
    BY <1>3
  <2>2. /\ c \o s \in Seq(Buf) /\ Len(c \o s) = Len(c) + Len(s)
        /\ \A i \in 1 .. Len(c) + Len(s) : (c \o s)[i] =
             IF i <= Len(c) THEN c[i] ELSE s[i - Len(c)]
    BY ConcatProperties
  <2> QED BY <1>2, <2>1, <2>2
<1>5. a[1] = b /\ \A i \in 1 .. Len(s) : a[i + 1] = s[i]
  BY <1>1, <1>3, <1>4
<1>6. DOMAIN a = 1 .. Len(s) + 1
  BY <1>1, <1>4, LenProperties
<1>7. \A i, j \in 1 .. Len(s) : s[i] = s[j] => i = j
  BY <1>1 DEF IsInjective
<1>8. \A i \in 1 .. Len(s) : s[i] # b
  BY <1>1 DEF ToSet
<1>9. \A i \in 1 .. Len(s) + 1 : i = 1 \/ (i - 1 \in 1 .. Len(s) /\ a[i] = s[i - 1])
  BY <1>1, <1>5
<1>10. IsInjective(a)
  <2>1. ASSUME NEW i \in 1 .. Len(s) + 1, NEW j \in 1 .. Len(s) + 1, a[i] = a[j]
        PROVE  i = j
    <3>1. CASE i = 1 /\ j = 1
      BY <3>1
    <3>2. CASE i = 1 /\ j # 1
      BY <1>5, <1>8, <1>9, <2>1, <3>2
    <3>3. CASE i # 1 /\ j = 1
      BY <1>5, <1>8, <1>9, <2>1, <3>3
    <3>4. CASE i # 1 /\ j # 1
      <4>1. i - 1 = j - 1
        BY <1>7, <1>9, <2>1, <3>4
      <4> QED BY <4>1
    <3> QED BY <3>1, <3>2, <3>3, <3>4
  <2> QED BY <1>6, <2>1 DEF IsInjective
<1>11. ToSet(a) = ToSet(s) \cup {b}
  <2>1. ToSet(a) = {a[k] : k \in 1 .. Len(s) + 1} /\ ToSet(s) = {s[k] : k \in 1 .. Len(s)}
    BY <1>1, <1>6 DEF ToSet
  <2>2. \A k \in 1 .. Len(s) : k + 1 \in 1 .. Len(s) + 1
    BY <1>1
  <2>3. 1 \in 1 .. Len(s) + 1
    BY <1>1
  <2> QED BY <1>5, <1>9, <2>1, <2>2, <2>3
<1>12. Lists(a, ToSet(s) \cup {b})
  BY <1>4, <1>10, <1>11, ListIs
<1> QED BY <1>2, <1>12

\* notavail: the list without a buffer on it.
LEMMA NotavailIs ==
    ASSUME free \in Seq(Buf), IsInjective(free), NEW b \in ToSet(free)
    PROVE  Lists(Notavail(b), ToSet(free) \ {b})
<1> DEFINE I == {i \in 1 .. Len(free) : free[i] = b}
<1>1. PICK i \in 1 .. Len(free) : free[i] = b
  BY ListIs
<1>2. DOMAIN free = 1 .. Len(free)
  BY LenProperties
<1>3. I = {i}
  BY <1>1, <1>2 DEF IsInjective
<1>4. Min(I) = i
  BY <1>3 DEF Min
<1>5. SelectInSeq(free, LAMBDA x : x = b) = i
  BY <1>3, <1>4 DEF SelectInSeq
<1>6. Notavail(b) = RemoveAt(free, i)
  BY <1>5 DEF Notavail
<1> QED BY <1>1, <1>6, RemoveAtIs

\* The least of some numbers is one of them.
LEMMA LeastNumber ==
    ASSUME NEW I, I \subseteq Nat, I # {}
    PROVE  Min(I) \in I
<1> DEFINE R == OpToRel(<, Nat)
<1>1. IsWellFoundedOn(R, Nat)
  BY NatLessThanWellFounded
<1>2. PICK j \in I : \A k \in I : ~(<<k, j>> \in R)
  BY <1>1, WFMin
<1>3. \A k \in I : ~(k < j)
  BY <1>2 DEF OpToRel
<1>4. \A k \in I : j <= k
  BY <1>3
<1> QED BY <1>4 DEF Min

\* bflush finds a buffer on the list, or there is none.
LEMMA FirstDelwri ==
    ASSUME free \in Seq(Buf),
           NEW i, i = SelectInSeq(free, LAMBDA b : Is(b, "DELWRI")), i # 0
    PROVE  i \in 1 .. Len(free)
<1> DEFINE I == {j \in 1 .. Len(free) : Is(free[j], "DELWRI")}
<1>1. I # {} /\ i = Min(I)
  BY DEF SelectInSeq
<1>2. I \subseteq Nat
  BY LenProperties
<1> HIDE DEF I
<1>3. i \in I
  BY <1>1, <1>2, LeastNumber
<1> QED BY <1>3 DEF I

-----------------------------------------------------------------------------
(* Sleep and wakeup.                                                       *)

\* t is s, but perhaps for what it sleeps on.
Kept(s, t) ==
    /\ t.call = s.call /\ t.at = s.at /\ t.bp = s.bp /\ t.first = s.first /\ t.save = s.save
    /\ t.blk = s.blk /\ t.then = s.then /\ t.back = s.back /\ t.slept = s.slept

\* A wakeup of the channels C makes t of s.
Stays(s, t, C) ==
    /\ t \in ProcT /\ Kept(s, t)
    /\ s.chan \in C \ {None} => t.chan = None
    /\ s.chan \notin C \ {None} => t.chan = s.chan /\ t.raced = s.raced

\* All that the others see of a step of the processes P.
Others(P, C) ==
    /\ proc' \in [Proc -> ProcT]
    /\ \A q \in Proc \ P : Stays(proc[q], proc'[q], C)

\* wakeup, for any channels.
LEMMA WokenIs ==
    ASSUME NEW ps \in [Proc -> ProcT], NEW C
    PROVE  /\ Woken(ps, C) \in [Proc -> ProcT]
           /\ \A q \in Proc : Stays(ps[q], Woken(ps, C)[q], C)
           /\ \A q \in Proc : ps[q].chan = None => Woken(ps, C)[q] = ps[q]
<1>1. ASSUME NEW q \in Proc
      PROVE  /\ Stays(ps[q], Woken(ps, C)[q], C) /\ Woken(ps, C)[q] \in ProcT
             /\ ps[q].chan = None => Woken(ps, C)[q] = ps[q]
  <2>1. PICK s \in ProcT : s = ps[q]
    OBVIOUS
  <2>2. PICK t : t = [s EXCEPT !.chan = None, !.raced = FALSE]
    OBVIOUS
  <2>3. t \in ProcT /\ Kept(s, t) /\ t.chan = None
    BY <2>2 DEF ProcT, Kept, Chan
  <2>4. Woken(ps, C)[q] = IF s.chan \in C \ {None} THEN t ELSE s
    BY <2>1, <2>2 DEF Woken
  <2>5. Kept(s, s)
    BY DEF Kept
  <2> QED BY <2>1, <2>3, <2>4, <2>5 DEF Stays
<1>2. DOMAIN Woken(ps, C) = Proc
  BY DEF Woken
<1>3. Woken(ps, C) = [q \in Proc |-> Woken(ps, C)[q]]
  BY DEF Woken
<1> QED BY <1>1, <1>3

\* Two wakeups, one after the other.
LEMMA WokenTwice ==
    ASSUME NEW ps \in [Proc -> ProcT], NEW C, NEW D
    PROVE  Woken(Woken(ps, C), D) = Woken(ps, C \cup D)
<1>1. ASSUME NEW q \in Proc
      PROVE  Woken(Woken(ps, C), D)[q] = Woken(ps, C \cup D)[q]
  <2>1. PICK s \in ProcT : s = ps[q]
    OBVIOUS
  <2>2. PICK t : t = [s EXCEPT !.chan = None, !.raced = FALSE]
    OBVIOUS
  <2>3. t.chan = None
    BY <2>2 DEF ProcT
  <2>4. /\ Woken(ps, C)[q] = IF s.chan \in C \ {None} THEN t ELSE s
        /\ Woken(ps, C \cup D)[q] = IF s.chan \in (C \cup D) \ {None} THEN t ELSE s
    BY <2>1, <2>2 DEF Woken
  <2>5. PICK u : u = Woken(ps, C)[q]
    OBVIOUS
  <2>6. Woken(Woken(ps, C), D)[q] = IF u.chan \in D \ {None}
                                    THEN [u EXCEPT !.chan = None, !.raced = FALSE] ELSE u
    BY <2>5 DEF Woken
  <2>7. CASE s.chan \in C \ {None}
    BY <2>3, <2>4, <2>5, <2>6, <2>7
  <2>8. CASE s.chan \notin C \ {None}
    BY <2>2, <2>4, <2>5, <2>6, <2>8
  <2> QED BY <2>7, <2>8
<1>2. /\ Woken(Woken(ps, C), D) = [q \in Proc |-> Woken(Woken(ps, C), D)[q]]
      /\ Woken(ps, C \cup D) = [q \in Proc |-> Woken(ps, C \cup D)[q]]
  BY DEF Woken
<1> QED BY <1>1, <1>2

\* Go, by its parts.
LEMMA GoIs ==
    ASSUME proc \in [Proc -> ProcT], NEW p \in Proc, NEW r \in ProcT, NEW C, Go(p, r, C)
    PROVE  /\ Others({p}, C) /\ proc'[p] = r /\ cpu' \in {None, p}
           /\ r.chan # None => cpu' = None
           /\ r.chan = None /\ r.at \notin {"user", "hold", "kmem"} => cpu' = p
<1>1. PICK w : w = Woken(proc, C)
  OBVIOUS
<1>2. w \in [Proc -> ProcT] /\ \A q \in Proc : Stays(proc[q], w[q], C)
  BY <1>1, WokenIs
<1>3. proc' = [w EXCEPT ![p] = r]
  BY <1>1 DEF Go
<1>4. proc' \in [Proc -> ProcT] /\ proc'[p] = r /\ \A q \in Proc \ {p} : proc'[q] = w[q]
  BY <1>2, <1>3
<1> QED BY <1>2, <1>4 DEF Go, Others

\* A step of p that ends with wakeups.
LEMMA WakeIs ==
    ASSUME proc \in [Proc -> ProcT], NEW p \in Proc, NEW r \in ProcT, r.chan = None, NEW C,
           proc' = Woken([proc EXCEPT ![p] = r], C)
    PROVE  Others({p}, C) /\ proc'[p] = r
<1>1. [proc EXCEPT ![p] = r] \in [Proc -> ProcT]
  OBVIOUS
<1>2. PICK f \in [Proc -> ProcT] : f = [proc EXCEPT ![p] = r]
  BY <1>1
<1>3. f[p] = r /\ \A q \in Proc \ {p} : f[q] = proc[q]
  BY <1>2
<1>4. proc' = Woken(f, C)
  BY <1>2
<1>5. /\ Woken(f, C) \in [Proc -> ProcT] /\ \A q \in Proc : Stays(f[q], Woken(f, C)[q], C)
      /\ \A q \in Proc : f[q].chan = None => Woken(f, C)[q] = f[q]
  BY WokenIs
<1> QED BY <1>3, <1>4, <1>5 DEF Others

\* What does not look at the sleep.
LEMMA KeptLocal ==
    ASSUME NEW s, NEW t, Kept(s, t)
    PROVE  /\ Local(s) => Local(t)
           /\ \A b : Mine(t, b) <=> Mine(s, b)
           /\ \A b : Starts(t, b) <=> Starts(s, b)
BY DEF Kept, Local, CallOK, HasOK, BackOK, InGetblk, Broken, Mine, Starts

-----------------------------------------------------------------------------
(* What a step must do to keep each part of the invariant.                 *)

\* Of what processes have, only that of the processes that act has to be shown.
LEMMA LocalsKept ==
    ASSUME NEW P, NEW C, Locals, Others(P, C), \A p \in Proc \cap P : Local(proc'[p])
    PROVE  Locals'
BY KeptLocal DEF Locals, Others, Stays

\* A step of p.
LEMMA RunnersKept ==
    ASSUME Typed, Runners, NEW p \in Proc, NEW C, Others({p}, C), cpu \in {None, p},
           cpu' \in {None, p}, RunOK(proc[p], p)'
    PROVE  Runners'
<1> SUFFICES ASSUME NEW q \in Proc, q # p
             PROVE  RunOK(proc[q], q)'
  BY DEF Runners
<1>1. cpu # q /\ cpu' # q
  BY BioAssumption
<1>2. RunOK(proc[q], q) /\ Kept(proc[q], proc'[q])
  BY DEF Runners, Others, Stays
<1> QED BY <1>1, <1>2 DEF RunOK, Kept

\* A buffer may be called for, marked or overwritten.
Alike(x, y) ==
    /\ y.blk = x.blk /\ y.size = x.size
    /\ x.flags \subseteq y.flags
    /\ y.flags \cap {"BUSY", "DONE", "ASYNC", "READ"} \subseteq x.flags
    /\ x.blk = None \/ "BUSY" \notin x.flags => y.flags \cap {"WANTED"} \subseteq x.flags
    /\ x.blk = None => y.flags = x.flags

\* Nothing happens to buffer x.
Quiet(x) ==
    /\ x \in ToSet(free') <=> x \in ToSet(free)
    /\ x \in hdrs' <=> x \in hdrs
    /\ x \in io' <=> x \in io
    /\ Alike(buf[x], buf'[x])

\* It is to r what it was to s.
SameTo(s, r, x) ==
    /\ x = r.first <=> x = s.first
    /\ x = r.save <=> x = s.save
    /\ ~(s.at \in Owning /\ x = s.bp) /\ ~(r.at \in Owning /\ x = r.bp)

\* A buffer to which nothing happens keeps its place.
LEMMA QuietBuffer ==
    ASSUME NEW x \in Buf, BufOK(x), Quiet(x), NEW P, NEW C, "dma" \notin C, Others(P, C),
           \A p \in Proc \cap P : SameTo(proc[p], proc'[p], x)
    PROVE  BufOK(x)'
<1>1. ASSUME NEW q \in Proc
      PROVE  /\ Mine(proc'[q], x) <=> Mine(proc[q], x)
             /\ MineOK(proc[q], x, buf[x], x \in io) => MineOK(proc'[q], x, buf'[x], x \in io')
  <2> DEFINE s == proc[q]
             t == proc'[q]
             h == buf[x]
             k == buf'[x]
  <2>1. (x \in io' <=> x \in io) /\ Alike(h, k)
    BY DEF Quiet
  <2>2. CASE q \in P
    <3>1. SameTo(s, t, x)
      BY <2>2
    <3> HIDE DEF s, t, h, k
    <3>2. Mine(t, x) <=> Mine(s, x)
      BY <3>1 DEF SameTo, Mine
    <3>3. x = t.first /\ FirstOK(s, x, h, x \in io) => FirstOK(t, x, k, x \in io')
      BY <2>1, <3>1 DEF SameTo, FirstOK, Alike, Owning
    <3>4. x = t.save /\ SaveOK(h, x \in io) => SaveOK(k, x \in io')
      BY <2>1 DEF SaveOK, Alike
    <3>5. MineOK(s, x, h, x \in io) => MineOK(t, x, k, x \in io')
      BY <3>1, <3>3, <3>4 DEF SameTo, MineOK
    <3> QED BY <3>2, <3>5 DEF s, t, h, k
  <2>3. CASE q \notin P
    <3>1. Stays(s, t, C)
      BY <2>3 DEF Others
    <3> HIDE DEF s, t, h, k
    <3>2. Kept(s, t) /\ (s.chan = "dma" => t.chan = "dma") /\ (s.chan = None => t.chan = None)
      BY <3>1 DEF Stays
    <3>3. FirstOK(s, x, h, x \in io) => FirstOK(t, x, k, x \in io')
      BY <2>1, <3>2 DEF Kept, FirstOK, Alike
    <3>4. SaveOK(h, x \in io) => SaveOK(k, x \in io')
      BY <2>1 DEF SaveOK, Alike
    <3>5. BpOK(s, h, x \in io) => BpOK(t, k, x \in io')
      BY <2>1, <3>2 DEF Kept, BpOK, Blank, Alike
    <3>6. MineOK(s, x, h, x \in io) => MineOK(t, x, k, x \in io')
      BY <3>2, <3>3, <3>4, <3>5 DEF MineOK, Kept
    <3>7. Mine(t, x) <=> Mine(s, x)
      BY <3>2, KeptLocal
    <3> QED BY <3>6, <3>7 DEF s, t, h, k
  <2> QED BY <2>2, <2>3
<1>2. /\ x \in ToSet(free') <=> x \in ToSet(free)
      /\ x \in hdrs' <=> x \in hdrs
      /\ x \in io' <=> x \in io
      /\ Alike(buf[x], buf'[x])
  BY DEF Quiet
<1>3. /\ x \in ToSet(free') => /\ x \notin hdrs' /\ x \notin io'
                            /\ buf'[x].flags \cap {"BUSY", "WANTED", "ASYNC", "READ"} = {}
      /\ x \in hdrs' => x \notin io' /\ Blank(buf'[x])
      /\ x \in io' => /\ "BUSY" \in buf'[x].flags /\ "DONE" \notin buf'[x].flags
                      /\ "READ" \in buf'[x].flags => buf'[x].blk # None
      /\ "ASYNC" \in buf[x].flags => "ASYNC" \in buf'[x].flags
  BY <1>2 DEF BufOK, Is, Blank, Alike
<1>4. \/ x \in hdrs' \/ x \in ToSet(free') \/ (x \in io' /\ "ASYNC" \in buf'[x].flags)
      \/ \E q \in Proc : Mine(proc'[q], x)
  BY <1>1, <1>2, <1>3 DEF BufOK, Is
<1>5. \A q \in Proc : Mine(proc'[q], x) =>
        x \notin ToSet(free') /\ x \notin hdrs' /\ MineOK(proc'[q], x, buf'[x], x \in io')
  BY <1>1, <1>2 DEF BufOK
<1>6. \A q, u \in Proc : Mine(proc'[q], x) /\ Mine(proc'[u], x) => q = u
  BY <1>1 DEF BufOK
<1>7. x \in io' => "BUSY" \in buf'[x].flags /\ "DONE" \notin buf'[x].flags
                   /\ ("READ" \in buf'[x].flags => buf'[x].blk # None)
  BY <1>3
<1>8. /\ x \in ToSet(free') => /\ x \notin hdrs' /\ x \notin io'
                            /\ buf'[x].flags \cap {"BUSY", "WANTED", "ASYNC", "READ"} = {}
      /\ x \in hdrs' => x \notin io' /\ Blank(buf'[x])
  BY <1>3
<1> QED BY <1>4, <1>5, <1>6, <1>7, <1>8 DEF BufOK, Is

\* Of the places, only that of the one buffer the step handles has to be shown.
LEMMA PlacesKept ==
    ASSUME Places, NEW b, b \in Buf => BufOK(b)', IsInjective(free'),
           \A x \in Buf \ {b} : Quiet(x), NEW P, NEW C, "dma" \notin C, Others(P, C),
           \A x \in Buf \ {b} : \A p \in Proc \cap P : SameTo(proc[p], proc'[p], x)
    PROVE  Places'
BY QuietBuffer DEF Places

\* Whoever could go on after the step is woken.
Wakes(C) ==
    /\ \A x \in Buf : Is(x, "BUSY") /\ Is(x, "WANTED") =>
         x \in C \/ (Is(x, "BUSY") /\ Is(x, "WANTED"))'
    /\ "free" \in want => "free" \in C \/ ("free" \in want' /\ (free = <<>> => free' = <<>>))
    /\ "hdr" \in want => "hdr" \in C \/ ("hdr" \in want' /\ hdrs' \subseteq hdrs)
    /\ asyn.wait => "async" \in C \/ (asyn'.wait /\ (asyn.cnt > 0 => asyn'.cnt > 0))
    /\ \A x \in io \ io' : x \in C \/ Is(x, "ASYNC")
                             \/ \E p \in Proc : proc[p].at = "breakup" /\ proc[p].bp = x

\* Who does not act sleeps on for a reason, when Wakes(C).
LEMMA WaitsKept ==
    ASSUME Typed, Places, Waits, NEW P, NEW C, Others(P, C), Wakes(C),
           \A p \in Proc \cap P : WaitOK(proc[p])'
    PROVE  Waits'
<1> SUFFICES ASSUME NEW q \in Proc, q \notin P
             PROVE  WaitOK(proc[q])'
  BY DEF Waits
<1>1. /\ None \notin Buf \cup {"free", "hdr", "async"}
      /\ Buf \cap {"free", "hdr", "async"} = {}
  BY BioAssumption
<1>2. WaitOK(proc[q])
  BY DEF Waits
<1> DEFINE s == proc[q]
           t == proc'[q]
<1>3. Stays(s, t, C)
  BY DEF Others
<1>4. s \in ProcT
  BY DEF Typed
<1>5. CASE t.chan = None
  BY <1>1, <1>5 DEF WaitOK
<1>6. CASE t.chan # None
  <2>1. t.chan = s.chan /\ t.raced = s.raced /\ s.chan \notin C /\ s.chan # None /\ Kept(s, t)
    BY <1>3, <1>6 DEF Stays
  <2>2. t.at = s.at /\ t.bp = s.bp
    BY <2>1 DEF Kept
  <2>3. s.at \in {"biowait", "bwait"} => s.chan = s.bp /\ s.bp \in io'
    <3>1. CASE s.at \in {"biowait", "bwait"} /\ s.bp \in io \ io'
      <4>1. BufOK(s.bp) /\ Mine(s, s.bp)
        BY <3>1 DEF Places, Typed, Mine, Owning
      <4>2. ASSUME NEW p \in Proc, proc[p].at = "breakup", proc[p].bp = s.bp
            PROVE  FALSE
        <5>1. Mine(proc[p], s.bp)
          BY <4>2 DEF Mine, Owning
        <5> QED BY <3>1, <4>1, <4>2, <5>1 DEF BufOK
      <4>3. MineOK(s, s.bp, buf[s.bp], s.bp \in io)
        BY <4>1 DEF BufOK
      <4>4. ~Is(s.bp, "ASYNC")
        BY <3>1, <4>3 DEF MineOK, BpOK, Owning, Is
      <4> QED BY <1>2, <2>1, <3>1, <4>2, <4>4 DEF Wakes, WaitOK
    <3>2. CASE s.at \in {"biowait", "bwait"} /\ s.bp \notin io \ io'
      BY <1>2, <2>1, <3>2 DEF WaitOK
    <3> QED BY <3>1, <3>2
  <2>4. s.chan \in Buf => (Is(s.chan, "BUSY") /\ Is(s.chan, "WANTED"))'
    BY <1>2, <2>1 DEF WaitOK, Wakes, Is
  <2>5. s.chan = "free" => "free" \in want' /\ (free' = <<>> \/ s.raced)
    BY <1>2, <2>1 DEF WaitOK, Wakes
  <2>6. s.chan = "hdr" => "hdr" \in want' /\ hdrs' = {}
    BY <1>2, <2>1 DEF WaitOK, Wakes
  <2>7. s.chan = "async" => asyn'.wait /\ asyn'.cnt > 0
    BY <1>2, <2>1 DEF WaitOK, Wakes
  <2>8. s.at \in {"getblk", "getfree", "breakup", "biowait", "bwait", "blkflush", "bdwait"}
    BY <1>2, <2>1 DEF WaitOK
  <2> HIDE DEF s, t
  <2>9. /\ t.chan \in Buf => (Is(s.chan, "BUSY") /\ Is(s.chan, "WANTED"))'
        /\ t.chan = "free" => "free" \in want' /\ (free' = <<>> \/ t.raced)
        /\ t.chan = "hdr" => "hdr" \in want' /\ hdrs' = {}
        /\ t.chan = "async" => asyn'.wait /\ asyn'.cnt > 0
        /\ t.at \in {"biowait", "bwait"} /\ t.chan # None => t.chan = t.bp /\ t.bp \in io'
        /\ t.chan # None => t.at \in {"getblk", "getfree", "breakup", "biowait", "bwait",
                                      "blkflush", "bdwait"}
    BY <2>1, <2>2, <2>3, <2>4, <2>5, <2>6, <2>7, <2>8
  <2> QED BY <2>1, <2>9 DEF s, t, WaitOK, Is
<1> QED BY <1>5, <1>6

\* A step that gives no block a buffer gives none two.
LEMMA OneBufferKept ==
    ASSUME OneBuffer, twice \subseteq twice', \A k \in Blk : Matches(k)' \subseteq Matches(k)
    PROVE  OneBuffer'
BY DEF OneBuffer

\* Only p may have b.
Yours(p, b) == \A q \in Proc \ {p} : ~Mine(proc[q], b)

\* Is b, a header h that s has or has given away, a write that basyncnt counts?
Counts(s, h, b) ==
    b \in Buf /\ "ASYNC" \in h.flags /\ "READ" \notin h.flags /\ ~Starts(s, b)

\* Two sets that differ at most in b, by their numbers.
LEMMA CardOne ==
    ASSUME NEW O, NEW O2, O \subseteq Buf, O2 \subseteq Buf, NEW b, O2 \ {b} = O \ {b}
    PROVE  \E n \in Nat : /\ Cardinality(O) = n + Num(b \in O)
                          /\ Cardinality(O2) = n + Num(b \in O2)
<1>1. PICK R : R = O \ {b}
  OBVIOUS
<1>2. IsFiniteSet(R) /\ Cardinality(R) \in Nat /\ b \notin R
  BY <1>1, BioAssumption, FS_Subset, FS_CardinalityType
<1>3. Cardinality(R \cup {b}) = Cardinality(R) + 1
  BY <1>2, FS_AddElement
<1>4. ASSUME NEW Q, Q = IF b \in Q THEN R \cup {b} ELSE R
      PROVE  Cardinality(Q) = Cardinality(R) + Num(b \in Q)
  <2>1. CASE b \in Q
    <3>1. Q = R \cup {b} /\ Num(b \in Q) = 1
      BY <1>4, <2>1 DEF Num
    <3> QED BY <1>3, <3>1
  <2>2. CASE b \notin Q
    <3>1. Q = R /\ Num(b \in Q) = 0
      BY <1>4, <2>2 DEF Num
    <3> QED BY <1>2, <3>1
  <2> QED BY <2>1, <2>2
<1>5. O = (IF b \in O THEN R \cup {b} ELSE R) /\ O2 = IF b \in O2 THEN R \cup {b} ELSE R
  BY <1>1
<1> QED BY <1>2, <1>4, <1>5

\* basyncnt, when p changes what it counts in b only.
LEMMA CountedKept ==
    ASSUME Typed, Runners, Counted, NEW p \in Proc, NEW C, Others({p}, C), cpu \in {None, p},
           asyn' \in [cnt : Int, wait : BOOLEAN],
           NEW b, \A x \in Buf \ {b} : Quiet(x) /\ SameTo(proc[p], proc'[p], x),
           b \in Buf => Yours(p, b),
           asyn'.cnt + Num(proc'[p].at = "wrote") + Num(Counts(proc[p], buf[b], b))
             = asyn.cnt + Num(proc[p].at = "wrote") + Num(Counts(proc'[p], buf'[b], b))
    PROVE  Counted'
<1>1. \A q \in Proc \ {p} : proc[q].at # "wrote" /\ proc'[q].at # "wrote"
  <2>1. \A q \in Proc \ {p} : cpu # q
    BY BioAssumption
  <2> QED BY <2>1 DEF Runners, RunOK, Others, Stays, Kept
<1>2. /\ Wrotes # {} <=> proc[p].at = "wrote"
      /\ Wrotes' # {} <=> proc'[p].at = "wrote"
  BY <1>1 DEF Wrotes
<1>3. ASSUME NEW x \in Buf, NEW q \in Proc \ {p}
      PROVE  Starts(proc'[q], x) <=> Starts(proc[q], x)
  BY KeptLocal DEF Others, Stays
<1>4. ASSUME NEW x \in Buf \ {b}
      PROVE  x \in Out' <=> x \in Out
  <2>1. Quiet(x) /\ SameTo(proc[p], proc'[p], x)
    OBVIOUS
  <2>2. /\ "ASYNC" \in buf'[x].flags <=> "ASYNC" \in buf[x].flags
        /\ "READ" \in buf'[x].flags <=> "READ" \in buf[x].flags
    BY <2>1 DEF Quiet, Alike
  <2>3. ~Starts(proc[p], x) /\ ~Starts(proc'[p], x)
    BY <2>1 DEF SameTo, Starts, Broken, Owning
  <2> QED BY <1>3, <2>2, <2>3 DEF Out, Writing, Is
<1>5. b \in Buf => \A q \in Proc \ {p} : ~Starts(proc[q], b)
  BY DEF Yours, Starts, Broken, Mine, Owning
<1>6. b \in Out <=> Counts(proc[p], buf[b], b)
  BY <1>5 DEF Out, Writing, Is, Counts
<1>7. b \in Out' <=> Counts(proc'[p], buf'[b], b)
  BY <1>3, <1>5 DEF Out, Writing, Is, Counts
<1>8. Out \subseteq Buf /\ Out' \subseteq Buf /\ Out' \ {b} = Out \ {b}
  BY <1>4 DEF Out, Writing
<1>9. PICK R \in Nat : /\ Cardinality(Out) = R + Num(b \in Out)
                       /\ Cardinality(Out') = R + Num(b \in Out')
  BY <1>8, CardOne
<1>10. asyn.cnt \in Int /\ asyn'.cnt \in Int
  BY DEF Typed
<1>11. asyn.cnt + Num(proc[p].at = "wrote") = R + Num(Counts(proc[p], buf[b], b))
  BY <1>2, <1>6, <1>9 DEF Counted, Num
<1>12. asyn'.cnt + Num(proc'[p].at = "wrote") = R + Num(Counts(proc'[p], buf'[b], b))
  BY <1>9, <1>10, <1>11 DEF Num
<1>13. asyn'.cnt + Num(Wrotes' # {}) = Cardinality(Out')
  BY <1>2, <1>7, <1>9, <1>12 DEF Num
<1> QED BY <1>13 DEF Counted, Num

\* A step of p that changes no buffer but perhaps b.
LEMMA StepKeeps ==
    ASSUME IInv, NEW p \in Proc, NEW C, "dma" \notin C, Others({p}, C),
           cpu \in {None, p}, cpu' \in {None, p}, Typed',
           Local(proc'[p]), RunOK(proc[p], p)', OneBuffer',
           NEW b, b \in Buf => BufOK(b)', b \in Buf => Yours(p, b),
           IsInjective(free'),
           \A x \in Buf \ {b} : Quiet(x), \A x \in Buf \ {b} : SameTo(proc[p], proc'[p], x),
           Wakes(C), WaitOK(proc[p])',
           asyn'.cnt + Num(proc'[p].at = "wrote") + Num(Counts(proc[p], buf[b], b))
             = asyn.cnt + Num(proc[p].at = "wrote") + Num(Counts(proc'[p], buf'[b], b))
    PROVE  IInv'
<1>1. Locals'
  BY LocalsKept DEF IInv
<1>2. Runners'
  BY RunnersKept DEF IInv
<1>3. Places'
  BY PlacesKept DEF IInv
<1>4. Waits'
  BY WaitsKept DEF IInv
<1>5. Counted'
  BY CountedKept DEF IInv, Typed
<1> QED BY <1>1, <1>2, <1>3, <1>4, <1>5 DEF IInv

-----------------------------------------------------------------------------
(* Where a buffer is after the step.                                       *)

\* What the place of a buffer says, when p is about to handle it.
LEMMA YoursIs ==
    ASSUME Typed, Places, NEW p \in Proc, NEW b \in Buf
    PROVE  /\ Mine(proc[p], b) => /\ Yours(p, b) /\ b \notin ToSet(free) /\ b \notin hdrs
                                 /\ MineOK(proc[p], b, buf[b], b \in io)
           /\ b \in ToSet(free) => /\ Yours(p, b) /\ ~Mine(proc[p], b) /\ b \notin hdrs
                                   /\ b \notin io
                                   /\ buf[b].flags \cap {"BUSY", "WANTED", "ASYNC", "READ"} = {}
           /\ b \in hdrs => /\ Yours(p, b) /\ ~Mine(proc[p], b) /\ b \notin ToSet(free)
                            /\ b \notin io /\ Blank(buf[b])
           /\ b \in io => /\ "BUSY" \in buf[b].flags /\ "DONE" \notin buf[b].flags
                          /\ "READ" \in buf[b].flags => buf[b].blk # None
BY DEF Yours, Places, BufOK, Is

\* With p, on the available list, on the list of headers, with the driver.
LEMMA Placed ==
    ASSUME NEW p \in Proc, NEW b \in Buf, Yours(p, b), NEW C, Others({p}, C),
           b \in io' => /\ "BUSY" \in buf'[b].flags /\ "DONE" \notin buf'[b].flags
                        /\ "READ" \in buf'[b].flags => buf'[b].blk # None,
           \/ /\ b \notin ToSet(free') /\ b \notin hdrs'
              /\ Mine(proc'[p], b) => MineOK(proc'[p], b, buf'[b], b \in io')
              /\ Mine(proc'[p], b) \/ (b \in io' /\ "ASYNC" \in buf'[b].flags)
           \/ /\ b \in ToSet(free') /\ b \notin hdrs' /\ b \notin io' /\ ~Mine(proc'[p], b)
              /\ buf'[b].flags \cap {"BUSY", "WANTED", "ASYNC", "READ"} = {}
           \/ /\ b \in hdrs' /\ b \notin ToSet(free') /\ b \notin io' /\ ~Mine(proc'[p], b)
              /\ Blank(buf'[b])
    PROVE  BufOK(b)'
<1>1. \A q \in Proc : q # p => ~Mine(proc'[q], b)
  BY KeptLocal DEF Yours, Others, Stays
<1> QED BY <1>1 DEF BufOK, Is

-----------------------------------------------------------------------------
(* Steps that leave the buffers alone.                                     *)

\* p goes on as r; b may be something else to it from now on, and buffers may
\* be marked.
LEMMA MarkStep ==
    ASSUME IInv, NEW p \in Proc, NEW r \in ProcT, Go(p, r, {}), cpu \in {None, p},
           UNCHANGED <<free, hdrs, room, io, twice>>,
           want \subseteq want', want' \subseteq {"free", "hdr"},
           asyn' \in [cnt : Int, wait : BOOLEAN],
           asyn.wait => asyn'.wait, asyn.cnt > 0 => asyn'.cnt > 0,
           asyn'.cnt + Num(r.at = "wrote") = asyn.cnt + Num(proc[p].at = "wrote"),
           Local(r), RunOK(proc[p], p)', WaitOK(proc[p])',
           NEW b, buf' \in [Buf -> HeaderT], \A x \in Buf \ {b} : Alike(buf[x], buf'[x]),
           b \in Buf => /\ Mine(proc[p], b) /\ Mine(r, b) /\ MineOK(r, b, buf'[b], b \in io)
                        /\ "ASYNC" \notin buf[b].flags /\ "ASYNC" \notin buf'[b].flags
                        /\ buf'[b].blk = buf[b].blk
                        /\ buf'[b].flags \in {buf[b].flags, buf[b].flags \cup {"WANTED"}},
           \A x \in Buf \ {b} : SameTo(proc[p], r, x)
    PROVE  IInv'
<1>1. proc \in [Proc -> ProcT] /\ buf \in [Buf -> HeaderT]
  BY DEF IInv, Typed
<1>2. Others({p}, {}) /\ proc'[p] = r /\ cpu' \in {None, p}
  BY <1>1, GoIs
<1>3. Typed'
  BY <1>2 DEF IInv, Typed, Others
<1>4. \A x \in Buf : buf'[x].blk = buf[x].blk /\ buf[x].flags \subseteq buf'[x].flags
  BY DEF Alike
<1>5. OneBuffer'
  <2>1. \A k \in Blk : Matches(k)' \subseteq Matches(k)
    BY <1>4 DEF Matches, Is
  <2> QED BY <2>1, OneBufferKept DEF IInv
<1>6. IsInjective(free')
  BY DEF IInv, Places
<1>7. b \in Buf => Yours(p, b) /\ b \notin ToSet(free) /\ b \notin hdrs
                   /\ (b \in io => /\ "BUSY" \in buf[b].flags /\ "DONE" \notin buf[b].flags
                                   /\ "READ" \in buf[b].flags => buf[b].blk # None)
  BY YoursIs DEF IInv
<1>8. b \in Buf => BufOK(b)'
  <2>1. b \in Buf /\ b \in io => /\ "BUSY" \in buf'[b].flags /\ "DONE" \notin buf'[b].flags
                                 /\ "READ" \in buf'[b].flags => buf'[b].blk # None
    BY <1>7
  <2>2. ASSUME b \in Buf
        PROVE  BufOK(b)'
    <3>1. /\ b \in Buf /\ Yours(p, b) /\ b \notin ToSet(free') /\ b \notin hdrs'
          /\ Mine(proc'[p], b) /\ MineOK(proc'[p], b, buf'[b], b \in io')
      BY <1>2, <1>7, <2>2 DEF MineOK, BpOK, FirstOK, SaveOK
    <3>2. b \in io' => /\ "BUSY" \in buf'[b].flags /\ "DONE" \notin buf'[b].flags
                       /\ "READ" \in buf'[b].flags => buf'[b].blk # None
      BY <2>1, <2>2
    <3> QED BY <1>2, <3>1, <3>2, Placed
  <2> QED BY <2>2
<1>9. \A x \in Buf \ {b} : Quiet(x)
  BY DEF Quiet
<1>10. Wakes({})
  <2>1. \A x \in Buf : Is(x, "BUSY") /\ Is(x, "WANTED") => (Is(x, "BUSY") /\ Is(x, "WANTED"))'
    BY <1>4 DEF Is
  <2> QED BY <2>1 DEF Wakes
<1>11. Counts(proc[p], buf[b], b) = FALSE /\ Counts(proc'[p], buf'[b], b) = FALSE
  BY <1>2, <1>7 DEF Counts
<1>12. asyn'.cnt + Num(proc'[p].at = "wrote") + Num(Counts(proc[p], buf[b], b))
         = asyn.cnt + Num(proc[p].at = "wrote") + Num(Counts(proc'[p], buf'[b], b))
  BY <1>2, <1>11
<1>13. \A x \in Buf \ {b} : SameTo(proc[p], proc'[p], x)
  BY <1>2
<1> QED BY <1>2, <1>3, <1>5, <1>6, <1>7, <1>8, <1>9, <1>10, <1>12, <1>13, StepKeeps

\* The same without marks.
LEMMA QuietStep ==
    ASSUME IInv, NEW p \in Proc, NEW r \in ProcT, Go(p, r, {}), cpu \in {None, p},
           UNCHANGED <<buf, free, hdrs, room, io, twice>>,
           want \subseteq want', want' \subseteq {"free", "hdr"},
           asyn' \in [cnt : Int, wait : BOOLEAN],
           asyn.wait => asyn'.wait, asyn.cnt > 0 => asyn'.cnt > 0,
           asyn'.cnt + Num(r.at = "wrote") = asyn.cnt + Num(proc[p].at = "wrote"),
           Local(r), RunOK(proc[p], p)', WaitOK(proc[p])',
           NEW b,
           b \in Buf => /\ Mine(proc[p], b) /\ Mine(r, b) /\ MineOK(r, b, buf[b], b \in io)
                        /\ "ASYNC" \notin buf[b].flags,
           \A x \in Buf \ {b} : SameTo(proc[p], r, x)
    PROVE  IInv'
<1>1. buf' \in [Buf -> HeaderT]
  BY DEF IInv, Typed
<1>2. \A x \in Buf \ {b} : Alike(buf[x], buf'[x])
  BY DEF Alike
<1> QED BY <1>1, <1>2, MarkStep

\* What Runs says of p.
LEMMA RunsIs ==
    ASSUME IInv, NEW p \in Proc, NEW at, Runs(p, at)
    PROVE  /\ proc[p] \in ProcT /\ proc[p].at = at /\ proc[p].chan = None /\ cpu \in {None, p}
           /\ Local(proc[p]) /\ RunOK(proc[p], p) /\ proc \in [Proc -> ProcT]
BY DEF IInv, Typed, Locals, Runners, Runs

\* The calls of bread, breada, getblk, ngeteblk, blkflush, bflush, bdwait and bclose.
LEMMA StartKeeps ==
    ASSUME IInv, NEW p \in Proc, NEW c \in Calls, Start(p, c)
    PROVE  IInv'
<1> DEFINE s == proc[p]
<1>1. s \in ProcT /\ Local(s) /\ s.at = "user"
  BY DEF IInv, Typed, Locals, Start
<1>2. PICK w : w = CASE c.op \in {"bread", "getblk"} -> "getblk"
                     [] c.op = "breada" -> IF Incore(c.blk) THEN "ra" ELSE "getblk"
                     [] c.op = "ngeteblk" -> "getfree"
                     [] c.op = "blkflush" -> "blkflush"
                     [] OTHER -> "bflush"
  OBVIOUS
<1>3. c \in Call /\ c \in CallT /\ CallOK(c) /\ (c.op = "ngeteblk" => c.blk = None)
  BY BioAssumption DEF Call, CallT, CallOK
<1>4. /\ w \in {"getblk", "ra", "getfree", "blkflush", "bflush"}
      /\ w \in {"getblk", "blkflush"} => c.blk # None
      /\ w = "getfree" => c.blk = None /\ c.op \notin {"bread", "breada"}
      /\ w = "ra" => c.op = "breada"
  BY <1>2, <1>3 DEF Call, CallOK
<1>5. PICK r : r = [User EXCEPT !.call = c, !.blk = c.blk, !.at = w]
  OBVIOUS
<1>6. Go(p, r, {})
  BY <1>2, <1>5 DEF Start
<1>7. r = [call |-> c, at |-> w, chan |-> None, bp |-> None, first |-> None, save |-> None,
           blk |-> c.blk, then |-> "user", back |-> "user", slept |-> FALSE, raced |-> FALSE]
  BY <1>5 DEF User
<1>8. r \in ProcT
  BY <1>3, <1>4, <1>7 DEF ProcT, CallT, Where, Chan
<1>9. Local(r)
  BY <1>3, <1>4, <1>7 DEF Local, HasOK, BackOK, InGetblk, Searching, Owning, Broken
<1>10. proc'[p] = r
  BY <1>6, <1>8, GoIs DEF IInv, Typed
<1>11. RunOK(proc[p], p)' /\ WaitOK(proc[p])'
  BY <1>4, <1>7, <1>10, BioAssumption DEF RunOK, WaitOK, Is
<1>12. \A x \in Buf : SameTo(s, r, x)
  <2>1. s.first = None /\ s.save = None
    BY <1>1 DEF Local, HasOK, BackOK, InGetblk, Searching, Broken
  <2> QED BY <1>1, <1>4, <1>7, <2>1, BioAssumption DEF SameTo, Owning
<1>13. s.at # "wrote" /\ r.at # "wrote"
  BY <1>1, <1>4, <1>7
<1> HIDE DEF s
<1> QED BY <1>6, <1>8, <1>9, <1>11, <1>12, <1>13, QuietStep, BioAssumption
        DEF Start, s, IInv, Typed, Num

\* What a process has between calls.
LEMMA UserIs == User \in ProcT /\ Local(User)
<1>1. User \in ProcT
  BY DEF User, ProcT, CallT, NoCall, Where, Chan
<1>2. Local(User)
  BY DEF User, NoCall, Local, CallOK, HasOK, BackOK, InGetblk, Searching, Owning, Broken
<1> QED BY <1>1, <1>2

\* What is in core depends on the headers.
LEMMA IncoreSame ==
    ASSUME UNCHANGED buf, NEW k
    PROVE  Incore(k)' <=> Incore(k)
BY DEF Incore, Matches, Is

\* getblk looks the block up, or sleeps for its busy buffer.
LEMMA SearchKeeps ==
    ASSUME IInv, NEW p \in Proc, Search(p)
    PROVE  IInv'
<1>1. PICK s \in ProcT : /\ s = proc[p] /\ s.at = "getblk" /\ s.chan = None /\ cpu \in {None, p}
                         /\ Local(s) /\ RunOK(s, p) /\ proc \in [Proc -> ProcT]
  BY RunsIs DEF Search
<1>2. s.blk # None /\ s.bp = None /\ s.save = None /\ s.back = "user"
  BY <1>1 DEF Local, HasOK, BackOK, Broken, Owning
<1>3. UNCHANGED <<buf, free, hdrs, room, want, asyn, io, twice>>
  BY DEF Search
<1>4. ASSUME NEW b \in Matches(s.blk), Go(p, [s EXCEPT !.at = "match", !.bp = b], {})
      PROVE  IInv'
  <2>1. PICK r : r = [s EXCEPT !.at = "match", !.bp = b]
    OBVIOUS
  <2>2. b \in Buf /\ buf[b].blk = s.blk
    BY DEF Matches
  <2>3. r \in ProcT /\ r.at = "match" /\ r.bp = b /\ r.first = s.first /\ r.save = s.save
        /\ r.chan = None /\ r.blk = s.blk /\ r.back = "user" /\ r.call = s.call
    BY <1>1, <1>2, <2>1, <2>2 DEF ProcT, Where
  <2>4. Local(r)
    BY <1>1, <1>2, <2>2, <2>3, BioAssumption
       DEF Local, HasOK, BackOK, InGetblk, Searching, Owning, Broken
  <2>5. proc'[p] = r /\ cpu' = p
    BY <1>1, <1>4, <2>1, <2>3, GoIs
  <2>6. RunOK(proc[p], p)' /\ WaitOK(proc[p])'
    BY <1>3, <2>2, <2>3, <2>5, BioAssumption DEF RunOK, WaitOK, Is
  <2>7. \A x \in Buf : SameTo(s, r, x)
    BY <1>1, <2>3 DEF SameTo, Owning
  <2>8. s.at # "wrote" /\ r.at # "wrote"
    BY <1>1, <2>3
  <2> QED BY <1>1, <1>3, <1>4, <2>1, <2>3, <2>4, <2>6, <2>7, <2>8, QuietStep, BioAssumption
          DEF IInv, Typed, Num
<1>5. ASSUME ~Incore(s.blk), Go(p, [s EXCEPT !.at = "getfree", !.slept = FALSE], {})
      PROVE  IInv'
  <2>1. PICK r : r = [s EXCEPT !.at = "getfree", !.slept = FALSE]
    OBVIOUS
  <2>2. r \in ProcT /\ r.at = "getfree" /\ r.bp = None /\ r.first = s.first /\ r.save = None
        /\ r.chan = None /\ r.blk = s.blk /\ r.back = "user" /\ r.call = s.call
    BY <1>1, <1>2, <2>1 DEF ProcT, Where
  <2>3. Local(r)
    BY <1>1, <1>2, <2>2 DEF Local, HasOK, BackOK, InGetblk, Searching, Owning, Broken
  <2>4. proc'[p] = r /\ cpu' = p
    BY <1>1, <1>5, <2>1, <2>2, GoIs
  <2>5. ~Incore(s.blk)'
    BY <1>3, <1>5, IncoreSame
  <2>6. RunOK(proc[p], p)' /\ WaitOK(proc[p])'
    BY <2>2, <2>4, <2>5, BioAssumption DEF RunOK, WaitOK
  <2>7. \A x \in Buf : SameTo(s, r, x)
    BY <1>1, <1>2, <2>2 DEF SameTo, Owning
  <2>8. s.at # "wrote" /\ r.at # "wrote"
    BY <1>1, <2>2
  <2> QED BY <1>1, <1>3, <1>5, <2>1, <2>2, <2>3, <2>6, <2>7, <2>8, QuietStep, BioAssumption
          DEF IInv, Typed, Num
<1> QED BY <1>1, <1>4, <1>5 DEF Search

\* bwrite counts the asynchronous write that it started.
LEMMA WroteKeeps ==
    ASSUME IInv, NEW p \in Proc, Wrote(p)
    PROVE  IInv'
<1>1. PICK s \in ProcT : /\ s = proc[p] /\ s.at = "wrote" /\ s.chan = None /\ cpu \in {None, p}
                         /\ Local(s) /\ RunOK(s, p) /\ proc \in [Proc -> ProcT]
  BY RunsIs DEF Wrote
<1>2. /\ UNCHANGED <<buf, free, hdrs, room, want, io, twice>>
      /\ asyn' = [asyn EXCEPT !.cnt = @ + 1]
  BY DEF Wrote
<1>3. asyn \in [cnt : Int, wait : BOOLEAN]
  BY DEF IInv, Typed
<1>4. /\ asyn' \in [cnt : Int, wait : BOOLEAN] /\ asyn'.cnt = asyn.cnt + 1
      /\ asyn'.wait = asyn.wait
  BY <1>2, <1>3
<1>5. /\ s.bp = None /\ s.back \in {"user", "getfree", "bflush"} /\ CallOK(s.call)
      /\ s.save # None => s.back = "getfree"
      /\ s.first # None => s.call.op = "breada" /\ s.back = "getfree"
      /\ s.back = "getfree" /\ s.call.op = "breada" /\ s.blk # s.call.ra => s.first = None
      /\ s.save # None => s.save # s.bp /\ s.save # s.first
      /\ s.back = "getfree" /\ s.call.op \in {"bread", "breada"} => s.blk # None
  BY <1>1 DEF Local, HasOK, BackOK, InGetblk, Searching, Owning, Broken
<1>6. PICK r : r = IF s.back = "user" THEN User ELSE [s EXCEPT !.at = s.back, !.back = "user"]
  OBVIOUS
<1>7. Go(p, r, {})
  BY <1>1, <1>6 DEF Wrote
<1>8. /\ r \in ProcT /\ r.bp = None /\ r.first = s.first /\ r.save = s.save /\ r.chan = None
      /\ r.back = "user" /\ r.at = s.back
      /\ CallOK(r.call) /\ r.blk = IF s.back = "user" THEN None ELSE s.blk
      /\ s.back # "user" => r.call = s.call /\ r.slept = s.slept
  <2>1. CASE s.back = "user"
    BY <1>5, <1>6, <2>1 DEF User, ProcT, CallT, NoCall, Where, Chan, CallOK
  <2>2. CASE s.back # "user"
    <3>1. r = [s EXCEPT !.at = s.back, !.back = "user"] /\ s.back \in Where
      BY <1>5, <1>6, <2>2 DEF Where
    <3>2. /\ r \in ProcT /\ r.bp = s.bp /\ r.first = s.first /\ r.save = s.save
          /\ r.chan = s.chan /\ r.back = "user" /\ r.at = s.back /\ r.call = s.call
          /\ r.blk = s.blk /\ r.slept = s.slept
      BY <3>1 DEF ProcT, Where
    <3> QED BY <1>1, <1>5, <2>2, <3>2
  <2> QED BY <2>1, <2>2
<1>9. Local(r)
  BY <1>5, <1>8 DEF Local, HasOK, BackOK, InGetblk, Searching, Owning, Broken
<1>10. proc'[p] = r /\ (s.back = "getfree" => cpu' = p)
  BY <1>1, <1>7, <1>8, GoIs
<1>11. s.back = "getfree" => s.slept \/ s.blk = None \/ ~Incore(s.blk)'
  BY <1>1, <1>2, IncoreSame DEF RunOK
<1>12. RunOK(proc[p], p)' /\ WaitOK(proc[p])'
  BY <1>5, <1>8, <1>10, <1>11, BioAssumption DEF RunOK, WaitOK
<1>13. \A x \in Buf : SameTo(s, r, x)
  BY <1>1, <1>5, <1>8 DEF SameTo, Owning
<1>14. Num(s.at = "wrote") = 1 /\ Num(r.at = "wrote") = 0
  BY <1>1, <1>5, <1>8 DEF Num
<1>15. asyn'.cnt + Num(r.at = "wrote") = asyn.cnt + Num(proc[p].at = "wrote")
  <2>1. asyn'.cnt + 0 = asyn.cnt + 1
    BY <1>3, <1>4
  <2> QED BY <1>1, <1>14, <2>1
<1>16. (asyn.wait => asyn'.wait) /\ (asyn.cnt > 0 => asyn'.cnt > 0)
  BY <1>3, <1>4
<1> QED BY <1>1, <1>2, <1>4, <1>7, <1>8, <1>9, <1>12, <1>13, <1>15, <1>16, QuietStep,
           BioAssumption DEF IInv, Typed

\* breada goes on to the block it reads ahead.
LEMMA ReadAheadKeeps ==
    ASSUME IInv, NEW p \in Proc, ReadAhead(p)
    PROVE  IInv'
<1>1. PICK s \in ProcT : /\ s = proc[p] /\ s.at \in {"ra", "join"} /\ s.chan = None
                         /\ cpu \in {None, p}
                         /\ Local(s) /\ RunOK(s, p) /\ proc \in [Proc -> ProcT]
  BY RunsIs DEF ReadAhead
<1>2. UNCHANGED <<buf, free, hdrs, room, want, asyn, io, twice>>
  BY DEF ReadAhead
<1>3. /\ s.bp = None /\ s.save = None /\ s.back = "user" /\ s.call.op = "breada"
      /\ s.call.blk \in Blk /\ s.call.ra \in Blk /\ s.call \in CallT
  BY <1>1 DEF Local, CallOK, HasOK, BackOK, Broken, Owning, ProcT, CallT
<1>4. ASSUME NEW r \in ProcT, Go(p, r, {}), r.chan = None, Local(r),
             r.at \in {"getblk", "join", "biowait"}, r.back = "user",
             NEW b, b \in Buf => /\ Mine(s, b) /\ Mine(r, b) /\ MineOK(r, b, buf[b], b \in io)
                                 /\ "ASYNC" \notin buf[b].flags,
             \A x \in Buf \ {b} : SameTo(s, r, x)
      PROVE  IInv'
  <2>1. proc'[p] = r
    BY <1>1, <1>4, GoIs
  <2>2. RunOK(proc[p], p)' /\ WaitOK(proc[p])'
    BY <1>4, <2>1, BioAssumption DEF RunOK, WaitOK, Is
  <2>3. s.at # "wrote" /\ r.at # "wrote"
    BY <1>1, <1>4
  <2> QED BY <1>1, <1>2, <1>4, <2>2, <2>3, QuietStep DEF IInv, Typed, Num
<1>5. ASSUME s.at = "ra", Go(p, [s EXCEPT !.at = "getblk", !.blk = s.call.ra], {})
      PROVE  IInv'
  <2>1. PICK r : r = [s EXCEPT !.at = "getblk", !.blk = s.call.ra]
    OBVIOUS
  <2>2. r \in ProcT /\ r.at = "getblk" /\ r.bp = None /\ r.first = s.first /\ r.save = None
        /\ r.chan = None /\ r.blk = s.call.ra /\ r.back = "user" /\ r.call = s.call
    BY <1>1, <1>3, <2>1 DEF ProcT, Where
  <2>3. Local(r)
    BY <1>1, <1>3, <2>2, BioAssumption
       DEF Local, HasOK, BackOK, InGetblk, Searching, Owning, Broken
  <2>4. \A x \in Buf : SameTo(s, r, x)
    BY <1>3, <1>5, <2>2 DEF SameTo, Owning
  <2> QED BY <1>4, <1>5, <2>1, <2>2, <2>3, <2>4, BioAssumption
<1>6. ASSUME s.at = "ra", Go(p, [s EXCEPT !.at = "join"], {})
      PROVE  IInv'
  <2>1. PICK r : r = [s EXCEPT !.at = "join"]
    OBVIOUS
  <2>2. r \in ProcT /\ r.at = "join" /\ r.bp = None /\ r.first = s.first /\ r.save = None
        /\ r.chan = None /\ r.blk = s.blk /\ r.back = "user" /\ r.call = s.call
    BY <1>1, <1>3, <2>1 DEF ProcT, Where
  <2>3. Local(r)
    BY <1>1, <1>3, <2>2, BioAssumption
       DEF Local, HasOK, BackOK, InGetblk, Searching, Owning, Broken
  <2>4. \A x \in Buf : SameTo(s, r, x)
    BY <1>3, <1>6, <2>2 DEF SameTo, Owning
  <2> QED BY <1>4, <1>6, <2>1, <2>2, <2>3, <2>4, BioAssumption
<1>7. ASSUME s.at = "join", s.first = None,
             Go(p, [s EXCEPT !.at = "getblk", !.blk = s.call.blk, !.call.op = "bread"], {})
      PROVE  IInv'
  <2>1. PICK c : c = [s.call EXCEPT !.op = "bread"]
    OBVIOUS
  <2>2. c \in CallT /\ c.op = "bread" /\ c.blk = s.call.blk
    BY <1>3, <2>1 DEF CallT
  <2>3. PICK r : r = [s EXCEPT !.at = "getblk", !.blk = s.call.blk, !.call.op = "bread"]
    OBVIOUS
  <2>4. r = [s EXCEPT !.at = "getblk", !.blk = s.call.blk, !.call = c]
    BY <2>1, <2>3 DEF ProcT
  <2>5. r \in ProcT /\ r.at = "getblk" /\ r.bp = None /\ r.first = None /\ r.save = None
        /\ r.chan = None /\ r.blk = s.call.blk /\ r.back = "user" /\ r.call = c
    BY <1>1, <1>3, <1>7, <2>2, <2>4 DEF ProcT, Where
  <2>6. Local(r)
    BY <1>3, <2>2, <2>5, BioAssumption
       DEF Local, CallOK, HasOK, BackOK, InGetblk, Searching, Owning, Broken
  <2>7. \A x \in Buf : SameTo(s, r, x)
    BY <1>3, <1>7, <2>5 DEF SameTo, Owning
  <2> QED BY <1>4, <1>7, <2>3, <2>5, <2>6, <2>7, BioAssumption
<1>8. ASSUME s.at = "join", s.first # None,
             Go(p, [s EXCEPT !.at = "biowait", !.bp = s.first, !.first = None,
                             !.blk = s.call.blk], {})
      PROVE  IInv'
  <2>1. PICK r : r = [s EXCEPT !.at = "biowait", !.bp = s.first, !.first = None,
                              !.blk = s.call.blk]
    OBVIOUS
  <2>2. r \in ProcT /\ r.at = "biowait" /\ r.bp = s.first /\ r.first = None /\ r.save = None
        /\ r.chan = None /\ r.blk = s.call.blk /\ r.back = "user" /\ r.call = s.call
    BY <1>1, <1>3, <1>8, <2>1 DEF ProcT, Where
  <2>3. Local(r)
    BY <1>1, <1>3, <1>8, <2>2, BioAssumption
       DEF Local, HasOK, BackOK, InGetblk, Searching, Owning, Broken
  <2>4. PICK b \in Buf : b = s.first
    BY <1>8 DEF ProcT
  <2>5. Mine(s, b) /\ Mine(r, b)
    BY <2>2, <2>4 DEF Mine, Owning
  <2>6. MineOK(s, b, buf[b], b \in io)
    BY <1>1, <2>5, YoursIs DEF IInv
  <2>7. FirstOK(s, b, buf[b], b \in io)
    BY <2>4, <2>6 DEF MineOK
  <2>8. MineOK(r, b, buf[b], b \in io) /\ "ASYNC" \notin buf[b].flags
    BY <1>8, <2>2, <2>4, <2>7, BioAssumption DEF MineOK, BpOK, FirstOK
  <2>9. \A x \in Buf \ {b} : SameTo(s, r, x)
    BY <1>3, <1>8, <2>2, <2>4, BioAssumption DEF SameTo, Owning
  <2> QED BY <1>4, <1>8, <2>1, <2>2, <2>3, <2>5, <2>8, <2>9
<1> QED BY <1>1, <1>5, <1>6, <1>7, <1>8 DEF ReadAhead, Runs

\* bdwait sleeps until no asynchronous write is left.
LEMMA BdwaitKeeps ==
    ASSUME IInv, NEW p \in Proc, Bdwait(p)
    PROVE  IInv'
<1>1. PICK s \in ProcT : /\ s = proc[p] /\ s.at = "bdwait" /\ s.chan = None
                         /\ cpu \in {None, p}
                         /\ Local(s) /\ RunOK(s, p) /\ proc \in [Proc -> ProcT]
  BY RunsIs DEF Bdwait
<1>2. UNCHANGED <<buf, free, hdrs, room, want, io, twice>>
  BY DEF Bdwait
<1>3. s.bp = None /\ s.save = None /\ s.first = None /\ s.back = "user"
  BY <1>1 DEF Local, HasOK, BackOK, Broken, Owning, InGetblk, Searching
<1>4. asyn \in [cnt : Int, wait : BOOLEAN]
  BY DEF IInv, Typed
<1>5. ASSUME asyn.cnt # 0, asyn' = [asyn EXCEPT !.wait = TRUE], Sleep(p, "bdwait", "async")
      PROVE  IInv'
  <2>1. PICK r : r = [s EXCEPT !.at = "bdwait", !.chan = "async"]
    OBVIOUS
  <2>2. r \in ProcT /\ r.at = "bdwait" /\ r.bp = None /\ r.first = None /\ r.save = None
        /\ r.chan = "async" /\ r.blk = s.blk /\ r.back = "user" /\ r.call = s.call
    BY <1>1, <1>3, <2>1 DEF ProcT, Where, Chan
  <2>3. Go(p, r, {})
    BY <1>1, <1>5, <2>1 DEF Sleep
  <2>4. Local(r)
    BY <1>1, <2>2 DEF Local, HasOK, BackOK, InGetblk, Searching, Owning, Broken
  <2>5. proc'[p] = r /\ cpu' = None
    BY <1>1, <2>2, <2>3, GoIs, BioAssumption
  <2>6. /\ asyn' \in [cnt : Int, wait : BOOLEAN] /\ asyn'.cnt = asyn.cnt /\ asyn'.wait = TRUE
    BY <1>4, <1>5
  <2>7. asyn.cnt > 0
    <3>1. Wrotes = {}
      <4>1. \A q \in Proc : q # p => cpu # q
        BY <1>1, BioAssumption
      <4> QED BY <1>1, <4>1 DEF Wrotes, IInv, Runners, RunOK
    <3>2. asyn.cnt = Cardinality(Out)
      BY <1>4, <3>1 DEF IInv, Counted, Num
    <3>3. Cardinality(Out) \in Nat
      <4>1. Out \subseteq Buf
        BY DEF Out, Writing
      <4> QED BY <4>1, BioAssumption, FS_Subset, FS_CardinalityType
    <3> QED BY <1>5, <3>2, <3>3
  <2>8. RunOK(proc[p], p)' /\ WaitOK(proc[p])'
    BY <2>2, <2>5, <2>6, <2>7, BioAssumption DEF RunOK, WaitOK, Is
  <2>9. \A x \in Buf : SameTo(s, r, x)
    BY <1>1, <1>3, <2>2 DEF SameTo, Owning
  <2>10. s.at # "wrote" /\ r.at # "wrote"
    BY <1>1, <2>2
  <2>11. asyn'.cnt + Num(r.at = "wrote") = asyn.cnt + Num(proc[p].at = "wrote")
    BY <1>1, <2>6, <2>10 DEF Num
  <2> QED BY <1>1, <1>2, <2>2, <2>3, <2>4, <2>6, <2>8, <2>9, <2>11, QuietStep, BioAssumption
          DEF IInv, Typed
<1>6. ASSUME Go(p, User, {}), UNCHANGED asyn
      PROVE  IInv'
  <2>1. PICK r \in ProcT : r = User /\ Local(r)
    BY UserIs
  <2>2. /\ r.at = "user" /\ r.bp = None /\ r.first = None /\ r.save = None /\ r.chan = None
        /\ r.blk = None /\ r.back = "user"
    BY <2>1 DEF User
  <2>3. proc'[p] = r
    BY <1>1, <1>6, <2>1, GoIs
  <2>4. RunOK(proc[p], p)' /\ WaitOK(proc[p])'
    BY <2>2, <2>3, BioAssumption DEF RunOK, WaitOK, Is
  <2>5. \A x \in Buf : SameTo(s, r, x)
    BY <1>1, <1>3, <2>2 DEF SameTo, Owning
  <2>6. s.at # "wrote" /\ r.at # "wrote"
    BY <1>1, <2>2
  <2> QED BY <1>1, <1>2, <1>6, <2>1, <2>4, <2>5, <2>6, QuietStep, BioAssumption
          DEF IInv, Typed, Num
<1> QED BY <1>1, <1>5, <1>6 DEF Bdwait

-----------------------------------------------------------------------------
(* getblk and getfreeblk.                                                  *)

\* p takes b, from a list or from what it has.
LEMMA TakeKeeps ==
    ASSUME IInv, NEW p \in Proc, NEW r \in ProcT, Go(p, r, {}), cpu \in {None, p}, r.chan = None,
           UNCHANGED <<io, want, asyn>>, room' \in Int,
           twice \subseteq twice', twice' \subseteq Blk,
           NEW b \in Buf, Yours(p, b), b \notin io, Mine(r, b), MineOK(r, b, buf'[b], FALSE),
           Lists(free', ToSet(free) \ {b}), hdrs' = hdrs \ {b},
           buf' \in [Buf -> HeaderT], \A x \in Buf \ {b} : buf'[x] = buf[x],
           "ASYNC" \notin buf[b].flags, "ASYNC" \notin buf'[b].flags,
           "BUSY" \notin buf[b].flags \/ "WANTED" \notin buf[b].flags,
           OneBuffer', Local(r), RunOK(proc[p], p)', proc[p].at # "wrote", r.at # "wrote",
           \A x \in Buf \ {b} : SameTo(proc[p], r, x)
    PROVE  IInv'
<1>1. proc \in [Proc -> ProcT] /\ free \in Seq(Buf) /\ IsInjective(free) /\ hdrs \subseteq Buf
  BY DEF IInv, Typed, Places
<1>2. Others({p}, {}) /\ proc'[p] = r /\ cpu' \in {None, p}
  BY <1>1, GoIs
<1>3. /\ free' \in Seq(Buf) /\ IsInjective(free') /\ ToSet(free') = ToSet(free) \ {b}
      /\ free = <<>> => free' = <<>>
  <2>1. free = <<>> <=> ToSet(free) = {}
    BY <1>1, ListIs DEF Lists
  <2> QED BY <2>1 DEF Lists
<1>4. Typed'
  BY <1>1, <1>2, <1>3 DEF IInv, Typed, Others
<1>5. BufOK(b)'
  <2>1. b \notin ToSet(free') /\ b \notin hdrs' /\ b \notin io'
    BY <1>3
  <2>2. MineOK(proc'[p], b, buf'[b], b \in io')
    BY <1>2, <2>1 DEF MineOK, BpOK, FirstOK, SaveOK
  <2> QED BY <1>2, <2>1, <2>2, Placed
<1>6. \A x \in Buf \ {b} : Quiet(x)
  BY <1>3 DEF Quiet, Alike
<1>7. Wakes({})
  <2>1. \A x \in Buf : Is(x, "BUSY") /\ Is(x, "WANTED") => (Is(x, "BUSY") /\ Is(x, "WANTED"))'
    BY DEF Is
  <2> QED BY <1>3, <2>1 DEF Wakes
<1>8. Counts(proc[p], buf[b], b) = FALSE /\ Counts(proc'[p], buf'[b], b) = FALSE
  BY DEF Counts
<1>9. asyn'.cnt + Num(proc'[p].at = "wrote") + Num(Counts(proc[p], buf[b], b))
        = asyn.cnt + Num(proc[p].at = "wrote") + Num(Counts(proc'[p], buf'[b], b))
  BY <1>2, <1>8 DEF Num
<1>10. WaitOK(proc[p])'
  BY <1>2, BioAssumption DEF WaitOK
<1>11. \A x \in Buf \ {b} : SameTo(proc[p], proc'[p], x)
  BY <1>2
<1> QED BY <1>2, <1>3, <1>4, <1>5, <1>6, <1>7, <1>9, <1>10, <1>11, StepKeeps

\* A buffer of a block that is not busy is on the available list.
LEMMA NotBusyIsFree ==
    ASSUME IInv, NEW b \in Buf, buf[b].blk # None, ~Is(b, "BUSY")
    PROVE  b \in ToSet(free)
<1>1. BufOK(b)
  BY DEF IInv, Places
<1>2. b \notin hdrs /\ b \notin io
  BY <1>1 DEF BufOK, Blank
<1>3. ASSUME NEW q \in Proc, Mine(proc[q], b)
      PROVE  FALSE
  <2>1. MineOK(proc[q], b, buf[b], b \in io)
    BY <1>1, <1>3 DEF BufOK
  <2> QED BY <1>3, <2>1 DEF Mine, MineOK, BpOK, Blank, FirstOK, SaveOK, Is
<1> QED BY <1>1, <1>2, <1>3 DEF BufOK

\* Set and Clear.
Flagged(t, u, b, F) ==
    /\ u \in [Buf -> HeaderT] /\ \A x \in Buf : x # b => u[x] = t[x]
    /\ u[b].blk = t[b].blk /\ u[b].size = t[b].size /\ u[b].flags = F

\* Set changes the flags of one buffer.
LEMMA SetIs ==
    ASSUME NEW t \in [Buf -> HeaderT], NEW b \in Buf, NEW F \in SUBSET Flags
    PROVE  Flagged(t, Set(t, b, F), b, t[b].flags \cup F)
<1>1. PICK h \in HeaderT : h = t[b]
  OBVIOUS
<1>2. PICK k : k = [h EXCEPT !.flags = @ \cup F]
  OBVIOUS
<1>3. k \in HeaderT /\ k.blk = h.blk /\ k.size = h.size /\ k.flags = h.flags \cup F
  BY <1>2 DEF HeaderT
<1>4. Set(t, b, F) = [t EXCEPT ![b] = k]
  BY <1>1, <1>2 DEF Set
<1> QED BY <1>1, <1>3, <1>4 DEF Flagged

\* So does Clear.
LEMMA ClearIs ==
    ASSUME NEW t \in [Buf -> HeaderT], NEW b \in Buf, NEW F
    PROVE  Flagged(t, Clear(t, b, F), b, t[b].flags \ F)
<1>1. PICK h \in HeaderT : h = t[b]
  OBVIOUS
<1>2. PICK k : k = [h EXCEPT !.flags = @ \ F]
  OBVIOUS
<1>3. k \in HeaderT /\ k.blk = h.blk /\ k.size = h.size /\ k.flags = h.flags \ F
  BY <1>2 DEF HeaderT
<1>4. Clear(t, b, F) = [t EXCEPT ![b] = k]
  BY <1>1, <1>2 DEF Clear
<1> QED BY <1>1, <1>3, <1>4 DEF Flagged

\* getblk takes the buffer it found, or writes it first.
LEMMA MatchKeeps ==
    ASSUME IInv, NEW p \in Proc, Match(p)
    PROVE  IInv'
<1>1. PICK s \in ProcT : /\ s = proc[p] /\ s.at = "match" /\ s.chan = None /\ cpu \in {None, p}
                         /\ Local(s) /\ RunOK(s, p) /\ proc \in [Proc -> ProcT]
  BY RunsIs DEF Match
<1>2. s.blk # None /\ s.save = None /\ s.back = "user"
  BY <1>1 DEF Local, HasOK, BackOK, Broken, Owning
<1>3. PICK b \in Buf : b = s.bp /\ buf[b].blk = s.blk
  BY <1>1 DEF Local, HasOK, ProcT, RunOK
<1>4. buf \in [Buf -> HeaderT] /\ UNCHANGED <<hdrs, room, want, asyn, io, twice>>
  BY DEF IInv, Typed, Match
<1>5. ASSUME Is(b, "BUSY"), buf' = Set(buf, b, {"WANTED"}), UNCHANGED free,
             Go(p, [s EXCEPT !.at = "getblk", !.bp = None, !.chan = b], {})
      PROVE  IInv'
  <2>1. PICK r : r = [s EXCEPT !.at = "getblk", !.bp = None, !.chan = b]
    OBVIOUS
  <2>2. r \in ProcT /\ r.at = "getblk" /\ r.bp = None /\ r.first = s.first /\ r.save = None
        /\ r.chan = b /\ r.blk = s.blk /\ r.back = "user" /\ r.call = s.call
    BY <1>1, <1>2, <2>1 DEF ProcT, Where, Chan
  <2>3. Local(r)
    BY <1>1, <1>2, <2>2, BioAssumption
       DEF Local, HasOK, BackOK, InGetblk, Searching, Owning, Broken
  <2>4. proc'[p] = r /\ cpu' = None
    <3>1. r.chan # None
      BY <2>2, BioAssumption
    <3> QED BY <1>1, <1>5, <2>1, <2>2, <3>1, GoIs
  <2>5. Flagged(buf, buf', b, buf[b].flags \cup {"WANTED"})
    BY <1>4, <1>5, SetIs DEF Flags
  <2>6. \A x \in Buf : Alike(buf[x], buf'[x])
    BY <1>2, <1>3, <1>5, <2>5 DEF Flagged, Alike, Is
  <2>7. "BUSY" \in buf'[b].flags /\ "WANTED" \in buf'[b].flags
    BY <1>5, <2>5 DEF Flagged, Is
  <2>8. RunOK(proc[p], p)' /\ WaitOK(proc[p])'
    BY <2>2, <2>4, <2>7, BioAssumption DEF RunOK, WaitOK, Is
  <2>9. \A x \in Buf : SameTo(s, r, x)
    BY <1>1, <1>2, <2>2 DEF SameTo, Owning
  <2>10. s.at # "wrote" /\ r.at # "wrote" /\ buf' \in [Buf -> HeaderT]
    BY <1>1, <2>2, <2>5 DEF Flagged
  <2> QED BY <1>1, <1>4, <1>5, <2>1, <2>2, <2>3, <2>6, <2>8, <2>9, <2>10, MarkStep, BioAssumption
          DEF IInv, Typed, Num
<1>6. ASSUME ~Is(b, "BUSY"), buf' = Set(Clear(buf, b, {"AGE"}), b, {"BUSY"}),
             free' = Notavail(b), Go(p, [s EXCEPT !.at = "got"], {})
      PROVE  IInv'
  <2>1. PICK r : r = [s EXCEPT !.at = "got"]
    OBVIOUS
  <2>2. r \in ProcT /\ r.at = "got" /\ r.bp = b /\ r.first = s.first /\ r.save = None
        /\ r.chan = None /\ r.blk = s.blk /\ r.back = "user" /\ r.call = s.call
    BY <1>1, <1>2, <1>3, <2>1 DEF ProcT, Where
  <2>3. b \in ToSet(free)
    BY <1>2, <1>3, <1>6, NotBusyIsFree
  <2>4. /\ Yours(p, b) /\ ~Mine(s, b) /\ b \notin hdrs /\ b \notin io
        /\ buf[b].flags \cap {"BUSY", "WANTED", "ASYNC", "READ"} = {}
    BY <1>1, <2>3, YoursIs DEF IInv
  <2>5. Local(r)
    BY <1>1, <1>2, <2>2, <2>4, BioAssumption
       DEF Local, HasOK, BackOK, InGetblk, Searching, Owning, Broken, Mine
  <2>6. proc'[p] = r
    BY <1>1, <1>6, <2>1, <2>2, GoIs
  <2>7. PICK t : t = Clear(buf, b, {"AGE"})
    OBVIOUS
  <2>8. Flagged(buf, t, b, buf[b].flags \ {"AGE"})
    BY <1>4, <2>7, ClearIs
  <2>9. Flagged(t, buf', b, t[b].flags \cup {"BUSY"})
    BY <1>6, <2>7, <2>8, SetIs DEF Flagged, Flags
  <2>10. /\ buf' \in [Buf -> HeaderT] /\ \A x \in Buf : x # b => buf'[x] = buf[x]
         /\ buf'[b].blk = buf[b].blk /\ buf'[b].flags = (buf[b].flags \ {"AGE"}) \cup {"BUSY"}
    BY <2>8, <2>9 DEF Flagged
  <2>11. OneBuffer'
    <3>1. \A k \in Blk : Matches(k)' \subseteq Matches(k)
      BY <2>10 DEF Matches, Is
    <3> QED BY <1>4, <3>1, OneBufferKept DEF IInv
  <2>12. Lists(free', ToSet(free) \ {b})
    BY <1>6, <2>3, NotavailIs DEF IInv, Typed, Places
  <2>13. Mine(r, b) /\ MineOK(r, b, buf'[b], FALSE)
    BY <1>3, <2>2, <2>4, <2>10, BioAssumption DEF Mine, MineOK, BpOK, Owning
  <2>14. hdrs' = hdrs \ {b}
    BY <1>4, <2>4
  <2>15. RunOK(proc[p], p)'
    BY <2>2, <2>6 DEF RunOK
  <2>16. \A x \in Buf \ {b} : SameTo(s, r, x)
    BY <1>1, <1>2, <1>3, <2>2 DEF SameTo, Owning
  <2>17. s.at # "wrote" /\ r.at # "wrote" /\ room' \in Int /\ twice' \subseteq Blk
         /\ twice \subseteq twice'
    BY <1>1, <1>4, <2>2 DEF IInv, Typed
  <2>18. "ASYNC" \notin buf[b].flags /\ "ASYNC" \notin buf'[b].flags /\ "BUSY" \notin buf[b].flags
    BY <2>4, <2>10
  <2> QED BY <1>1, <1>4, <1>6, <2>1, <2>2, <2>4, <2>5, <2>10, <2>11, <2>12, <2>13, <2>14, <2>15,
             <2>16, <2>17, <2>18, TakeKeeps
<1> QED BY <1>1, <1>3, <1>5, <1>6 DEF Match

\* The memory for a block.
LEMMA SizeIs ==
    ASSUME IInv, NEW p \in Proc
    PROVE  Size(p) \in Nat
BY BioAssumption DEF IInv, Typed, ProcT, Size

\* p has memory for its block in the header b, which it took or had.
LEMMA AssignKeeps ==
    ASSUME IInv, NEW p \in Proc, NEW s \in ProcT, s = proc[p], s.chan = None, cpu \in {None, p},
           s.at \in {"nofree", "kmem"}, NEW b \in Buf, Assign(p, b),
           \/ b \in hdrs /\ s.save = None /\ s.at = "nofree"
           \/ b = s.save \/ (s.at = "kmem" /\ b = s.bp),
           hdrs' = hdrs \ {b}, room' \in Int, UNCHANGED <<free, want, asyn, io>>
    PROVE  IInv'
<1>1. Local(s) /\ RunOK(s, p) /\ proc \in [Proc -> ProcT] /\ buf \in [Buf -> HeaderT]
  BY DEF IInv, Locals, Runners, Typed
<1>2. /\ s.back = "user" /\ (s.at = "kmem" => s.save = None /\ s.slept)
      /\ s.at = "nofree" => s.bp = None
  BY <1>1 DEF Local, HasOK, BackOK, Broken, Owning
<1>3. PICK r : r = [s EXCEPT !.at = "got", !.bp = b, !.save = None, !.slept = FALSE]
  OBVIOUS
<1>4. r \in ProcT /\ r.at = "got" /\ r.bp = b /\ r.first = s.first /\ r.save = None
      /\ r.chan = None /\ r.blk = s.blk /\ r.back = "user" /\ r.call = s.call
  <2>1. s \in ProcT /\ b \in Buf /\ s.chan = None
    OBVIOUS
  <2> QED BY ONLY <1>2, <1>3, <2>1 DEF ProcT, Where
<1>5. b # None
  BY BioAssumption
<1>6. Go(p, r, {})
  BY <1>3 DEF Assign
<1>7. PICK h : h = [blk |-> s.blk, size |-> Size(p), fresh |-> FALSE,
                    flags |-> {"BUSY"} \cup (IF s.blk = None THEN {"AGE"} ELSE {})]
  OBVIOUS
<1>8. /\ h \in HeaderT /\ h.blk = s.blk /\ h.flags \subseteq {"BUSY", "AGE"}
      /\ "BUSY" \in h.flags
  BY <1>7, SizeIs DEF HeaderT, Flags, ProcT
<1>9. buf' = [buf EXCEPT ![b] = h]
  BY <1>7 DEF Assign
<1>10. buf' \in [Buf -> HeaderT] /\ buf'[b] = h /\ \A x \in Buf \ {b} : buf'[x] = buf[x]
  BY <1>1, <1>8, <1>9
<1>11. b # s.first /\ b \notin ToSet(free) /\ b \notin io /\ Yours(p, b)
       /\ "ASYNC" \notin buf[b].flags /\ "WANTED" \notin buf[b].flags
  <2>1. CASE b \in hdrs
    <3>1. /\ Yours(p, b) /\ ~Mine(s, b) /\ b \notin ToSet(free) /\ b \notin io /\ Blank(buf[b])
      BY <2>1, YoursIs DEF IInv
    <3> QED BY <3>1 DEF Mine, Blank
  <2>2. CASE b = s.save
    <3>1. Mine(s, b) /\ b # s.first
      BY <1>1, <2>2, BioAssumption DEF Mine, Local, HasOK
    <3>2. Yours(p, b) /\ b \notin ToSet(free) /\ MineOK(s, b, buf[b], b \in io)
      BY <3>1, YoursIs DEF IInv
    <3> QED BY <2>2, <3>1, <3>2 DEF MineOK, SaveOK
  <2>3. CASE s.at = "kmem" /\ b = s.bp
    <3>1. Mine(s, b) /\ b # s.first
      BY <1>1, <2>3, BioAssumption DEF Mine, Local, HasOK, Owning, Broken
    <3>2. Yours(p, b) /\ b \notin ToSet(free) /\ MineOK(s, b, buf[b], b \in io)
      BY <3>1, YoursIs DEF IInv
    <3> QED BY <2>3, <3>1, <3>2 DEF MineOK, BpOK, Blank, Owning
  <2> QED BY <2>1, <2>2, <2>3
<1>12. Local(r)
  BY <1>1, <1>2, <1>4, <1>11, BioAssumption
     DEF Local, HasOK, BackOK, InGetblk, Searching, Owning, Broken
<1>13. RunOK(proc[p], p)'
  <2>1. proc'[p] = r
    BY <1>1, <1>4, <1>6, GoIs
  <2> QED BY <1>4, <2>1 DEF RunOK
<1>14. Mine(r, b) /\ MineOK(r, b, buf'[b], FALSE)
  BY <1>4, <1>5, <1>8, <1>10, <1>11 DEF Mine, MineOK, BpOK, Owning
<1>15. \A x \in Buf \ {b} : SameTo(s, r, x)
  <2>1. s.save \in {None, b} /\ (s.at \in Owning => s.bp = b)
    BY <1>2, <1>5 DEF Owning
  <2> QED BY <1>4, <2>1, BioAssumption DEF SameTo, Owning
<1>16. Lists(free', ToSet(free) \ {b})
  <2>1. ToSet(free) \ {b} = ToSet(free)
    BY <1>11
  <2>2. Lists(free, ToSet(free))
    BY ListIs DEF IInv, Typed, Places
  <2> QED BY <2>1, <2>2
<1>17. /\ twice' = (IF s.slept /\ s.blk # None /\ Incore(s.blk) THEN twice \cup {s.blk} ELSE twice)
       /\ twice \subseteq twice' /\ twice' \subseteq Blk
  <2>1. s.blk \in Blk \cup {None} /\ twice \subseteq Blk
    BY DEF ProcT, IInv, Typed
  <2>2. twice' = IF s.slept /\ s.blk # None /\ Incore(s.blk) THEN twice \cup {s.blk} ELSE twice
    BY DEF Assign
  <2> QED BY <2>1, <2>2
<1>18. OneBuffer'
  <2>1. \A k \in Blk : k # s.blk => Matches(k)' \subseteq Matches(k)
    BY <1>8, <1>10 DEF Matches, Is
  <2>2. ASSUME s.blk \in Blk \ twice'
        PROVE  \A x, y \in Matches(s.blk)' : x = y
    <3>1. ~Incore(s.blk)
      <4>1. s.slept \/ s.blk = None \/ ~Incore(s.blk)
        BY <1>1, <1>2 DEF RunOK
      <4> QED BY <1>17, <2>2, <4>1, BioAssumption
    <3>2. Matches(s.blk)' \subseteq {b}
      BY <1>10, <3>1 DEF Incore, Matches, Is
    <3> QED BY <3>2
  <2>3. ASSUME NEW k \in Blk \ twice', k # s.blk
        PROVE  \A x, y \in Matches(k)' : x = y
    BY <1>17, <2>1, <2>3 DEF IInv, OneBuffer
  <2> QED BY <2>2, <2>3 DEF OneBuffer
<1>19. "ASYNC" \notin buf'[b].flags /\ s.at # "wrote" /\ r.at # "wrote"
  BY <1>4, <1>8, <1>10
<1> QED BY <1>4, <1>6, <1>10, <1>11, <1>12, <1>13, <1>14, <1>15, <1>16, <1>17, <1>18, <1>19,
           TakeKeeps

\* getfreeblk has its memory, after a sleep.
LEMMA KmemKeeps ==
    ASSUME IInv, NEW p \in Proc, Kmem(p)
    PROVE  IInv'
<1>1. PICK s \in ProcT : /\ s = proc[p] /\ s.at = "kmem" /\ s.chan = None /\ cpu \in {None, p}
                         /\ Local(s)
  BY RunsIs DEF Kmem
<1>2. PICK b \in Buf : b = s.bp
  BY <1>1 DEF Local, HasOK, Owning, ProcT
<1>3. Assign(p, b) /\ room' = room - Size(p) /\ UNCHANGED <<free, hdrs, want, asyn, io>>
  BY <1>1, <1>2 DEF Kmem
<1>4. room' \in Int
  BY <1>3, SizeIs DEF IInv, Typed
<1>5. b \notin hdrs
  <2>1. Mine(s, b)
    BY <1>1, <1>2 DEF Mine, Owning
  <2> QED BY <1>1, <2>1, YoursIs DEF IInv
<1>6. hdrs' = hdrs \ {b}
  BY <1>3, <1>5
<1> QED BY <1>1, <1>2, <1>3, <1>4, <1>6, AssignKeeps

\* getfreeblk finds no free buffer to reuse: it makes a header or sleeps.
LEMMA NofreeKeeps ==
    ASSUME IInv, NEW p \in Proc, Nofree(p)
    PROVE  IInv'
<1>1. PICK s \in ProcT : /\ s = proc[p] /\ s.at = "nofree" /\ s.chan = None /\ cpu \in {None, p}
                         /\ Local(s) /\ RunOK(s, p) /\ proc \in [Proc -> ProcT]
  BY RunsIs DEF Nofree
<1>2. s.back = "user" /\ s.bp = None /\ UNCHANGED <<free, asyn, io>>
  BY <1>1 DEF Local, HasOK, BackOK, Broken, Owning, Nofree
<1>3. /\ Size(p) \in Nat /\ room \in Int /\ hdrs \subseteq Buf /\ want \subseteq {"free", "hdr"}
      /\ buf \in [Buf -> HeaderT] /\ twice \subseteq Blk
  BY SizeIs DEF IInv, Typed
<1>4. ASSUME s.save # None, Assign(p, s.save), UNCHANGED <<hdrs, room, want>>
      PROVE  IInv'
  <2>1. PICK b \in Buf : b = s.save
    BY <1>4 DEF ProcT
  <2>2. b \notin hdrs
    <3>1. Mine(s, b)
      BY <2>1 DEF Mine
    <3> QED BY <1>1, <3>1, YoursIs DEF IInv
  <2>3. hdrs' = hdrs \ {b} /\ room' \in Int
    BY <1>3, <1>4, <2>2
  <2> QED BY <1>1, <1>2, <1>4, <2>1, <2>3, AssignKeeps
<1>5. ASSUME NEW c \in {"free", "hdr"}, NEW d \in BOOLEAN, s.save = None,
             want' = want \cup {c}, UNCHANGED <<buf, twice, hdrs, room>>,
             c = "free" => d = (free # <<>>), c = "hdr" => hdrs = {} /\ d = s.raced,
             Go(p, [s EXCEPT !.at = Loop(p), !.slept = FALSE, !.chan = c, !.raced = d], {})
      PROVE  IInv'
  <2>1. PICK w : w = Loop(p)
    OBVIOUS
  <2>2. w = IF s.blk = None THEN "getfree" ELSE "getblk"
    BY <1>1, <2>1 DEF Loop
  <2>3. PICK r : r = [s EXCEPT !.at = w, !.slept = FALSE, !.chan = c, !.raced = d]
    OBVIOUS
  <2>4. r \in ProcT /\ r.at = w /\ r.bp = None /\ r.first = s.first /\ r.save = None
        /\ r.chan = c /\ r.blk = s.blk /\ r.back = "user" /\ r.call = s.call /\ r.raced = d
    <3>1. w \in {"getfree", "getblk"} /\ s \in ProcT /\ c \in {"free", "hdr"} /\ d \in BOOLEAN
      BY <2>2
    <3> QED BY ONLY <1>2, <1>5, <2>3, <3>1 DEF ProcT, Where, Chan
  <2>5. Local(r)
    BY <1>1, <1>2, <1>5, <2>2, <2>4
       DEF Local, HasOK, BackOK, InGetblk, Searching, Owning, Broken
  <2>6. c # None /\ c \notin Buf
    BY BioAssumption
  <2>7. proc'[p] = r /\ cpu' = None
    BY <1>1, <1>5, <2>1, <2>3, <2>4, <2>6, GoIs
  <2>8. RunOK(proc[p], p)' /\ WaitOK(proc[p])'
    BY <1>2, <1>5, <2>2, <2>4, <2>6, <2>7, BioAssumption DEF RunOK, WaitOK
  <2>9. \A x \in Buf : SameTo(s, r, x)
    BY <1>1, <1>2, <1>5, <2>2, <2>4 DEF SameTo, Owning
  <2>10. s.at # "wrote" /\ r.at # "wrote"
    BY <1>1, <2>2, <2>4
  <2>11. want \subseteq want' /\ want' \subseteq {"free", "hdr"}
    BY <1>3, <1>5
  <2> QED BY <1>1, <1>2, <1>5, <2>1, <2>3, <2>4, <2>5, <2>8, <2>9, <2>10, <2>11, QuietStep,
             BioAssumption DEF IInv, Typed, Num
<1>6. ASSUME s.save = None, NEW b \in hdrs, hdrs' = hdrs \ {b}, Assign(p, b),
             room' = room - Size(p), UNCHANGED want
      PROVE  IInv'
  BY <1>1, <1>2, <1>3, <1>6, AssignKeeps
<1>7. ASSUME s.save = None, NEW b \in hdrs, hdrs' = hdrs \ {b},
             UNCHANGED <<buf, twice, room, want>>,
             Go(p, [s EXCEPT !.at = "kmem", !.bp = b, !.slept = TRUE], {})
      PROVE  IInv'
  <2>1. PICK r : r = [s EXCEPT !.at = "kmem", !.bp = b, !.slept = TRUE]
    OBVIOUS
  <2>2. r \in ProcT /\ r.at = "kmem" /\ r.bp = b /\ r.first = s.first /\ r.save = None
        /\ r.chan = None /\ r.blk = s.blk /\ r.back = "user" /\ r.call = s.call /\ r.slept = TRUE
    BY <1>1, <1>2, <1>3, <1>7, <2>1 DEF ProcT, Where
  <2>3. /\ b \in Buf /\ Yours(p, b) /\ ~Mine(s, b) /\ b \notin ToSet(free) /\ b \notin io
        /\ Blank(buf[b])
    BY <1>1, <1>3, YoursIs DEF IInv
  <2>4. Local(r)
    BY <1>1, <1>2, <1>3, <2>2, <2>3, BioAssumption
       DEF Local, HasOK, BackOK, InGetblk, Searching, Owning, Broken, Mine
  <2>5. RunOK(proc[p], p)'
    <3>1. proc'[p] = r
      BY <1>1, <1>7, <2>1, <2>2, GoIs
    <3> QED BY <2>2, <3>1 DEF RunOK
  <2>6. Mine(r, b) /\ MineOK(r, b, buf'[b], FALSE)
    BY <1>7, <2>2, <2>3, BioAssumption DEF Mine, MineOK, BpOK, Owning
  <2>7. \A x \in Buf \ {b} : SameTo(s, r, x)
    BY <1>1, <1>2, <1>7, <2>2 DEF SameTo, Owning
  <2>8. Lists(free', ToSet(free) \ {b})
    <3>1. ToSet(free) \ {b} = ToSet(free)
      BY <2>3
    <3>2. Lists(free, ToSet(free))
      BY ListIs DEF IInv, Typed, Places
    <3> QED BY <1>2, <3>1, <3>2
  <2>9. OneBuffer'
    BY <1>7 DEF IInv, OneBuffer, Matches, Is
  <2>10. "ASYNC" \notin buf[b].flags /\ "ASYNC" \notin buf'[b].flags /\ "BUSY" \notin buf[b].flags
    BY <1>7, <2>3 DEF Blank
  <2> QED BY <1>1, <1>2, <1>3, <1>7, <2>1, <2>2, <2>3, <2>4, <2>5, <2>6, <2>7, <2>8, <2>9, <2>10,
             TakeKeeps
<1>8. \/ s.save # None /\ Assign(p, s.save) /\ UNCHANGED <<hdrs, room, want>>
      \/ /\ s.save = None /\ want' = want \cup {"free"}
         /\ Go(p, [[s EXCEPT !.at = Loop(p), !.slept = FALSE] EXCEPT !.chan = "free",
                                                              !.raced = free # <<>>], {})
         /\ UNCHANGED <<buf, twice, hdrs, room>>
      \/ /\ s.save = None /\ hdrs = {} /\ want' = want \cup {"hdr"}
         /\ Go(p, [[s EXCEPT !.at = Loop(p), !.slept = FALSE] EXCEPT !.chan = "hdr"], {})
         /\ UNCHANGED <<buf, twice, hdrs, room>>
      \/ /\ s.save = None
         /\ \E b \in hdrs :
              /\ hdrs' = hdrs \ {b}
              /\ \/ Assign(p, b) /\ room' = room - Size(p)
                 \/ /\ Go(p, [s EXCEPT !.at = "kmem", !.bp = b, !.slept = TRUE], {})
                    /\ UNCHANGED <<buf, twice, room>>
         /\ UNCHANGED want
  BY <1>1 DEF Nofree
<1>9. /\ [[s EXCEPT !.at = Loop(p), !.slept = FALSE] EXCEPT !.chan = "free", !.raced = free # <<>>]
           = [s EXCEPT !.at = Loop(p), !.slept = FALSE, !.chan = "free", !.raced = (free # <<>>)]
      /\ [[s EXCEPT !.at = Loop(p), !.slept = FALSE] EXCEPT !.chan = "hdr"]
           = [s EXCEPT !.at = Loop(p), !.slept = FALSE, !.chan = "hdr", !.raced = s.raced]
  BY DEF ProcT
<1>10. s.raced \in BOOLEAN
  BY DEF ProcT
<1> QED BY <1>4, <1>5, <1>6, <1>7, <1>8, <1>9, <1>10

-----------------------------------------------------------------------------
(* The strategy routine and brelse.                                        *)

\* p goes on as r once the driver has b, or sleeps in buf_breakup.
LEMMA StrategyIs ==
    ASSUME proc \in [Proc -> ProcT], NEW p \in Proc, NEW b \in Buf, NEW t, NEW r \in ProcT,
           r.chan = None, r.at \notin {"user", "hold", "kmem"}, Strategy(p, b, t, r)
    PROVE  /\ buf' = t /\ io' = io \cup {b}
           /\ \E v \in ProcT :
                /\ Go(p, v, {}) /\ proc'[p] = v /\ Others({p}, {}) /\ cpu' \in {None, p}
                /\ \/ v = r /\ cpu' = p
                   \/ /\ v.at = "breakup" /\ v.then = r.at /\ v.chan = "dma" /\ v.bp = b
                      /\ v.call = r.call /\ v.first = r.first /\ v.save = r.save
                      /\ v.blk = r.blk /\ v.back = r.back
                      /\ v.slept = (r.slept \/ r.back = "getfree") /\ cpu' = None
                      /\ t[b].size > PAGESIZE
<1>1. buf' = t /\ io' = io \cup {b}
  BY DEF Strategy
<1>2. CASE t[b].size > PAGESIZE
  <2>1. PICK v : v = [r EXCEPT !.at = "breakup", !.then = r.at, !.chan = "dma", !.bp = b,
                               !.slept = @ \/ r.back = "getfree"]
    OBVIOUS
  <2>2. /\ v \in ProcT /\ v.at = "breakup" /\ v.then = r.at /\ v.chan = "dma" /\ v.bp = b
        /\ v.call = r.call /\ v.first = r.first /\ v.save = r.save
        /\ v.blk = r.blk /\ v.back = r.back /\ v.slept = (r.slept \/ r.back = "getfree")
    <3>1. r \in ProcT /\ b \in Buf
      OBVIOUS
    <3>2. v \in ProcT
      BY ONLY <2>1, <3>1 DEF ProcT, Where, Chan
    <3>3. /\ v.at = "breakup" /\ v.then = r.at /\ v.chan = "dma" /\ v.bp = b
          /\ v.call = r.call /\ v.first = r.first /\ v.save = r.save
      BY ONLY <2>1, <3>1 DEF ProcT
    <3>4. v.blk = r.blk /\ v.back = r.back /\ v.slept = (r.slept \/ r.back = "getfree")
      BY ONLY <2>1, <3>1 DEF ProcT
    <3> QED BY <3>2, <3>3, <3>4
  <2>3. Go(p, v, {})
    BY <1>2, <2>1 DEF Strategy
  <2>4. v.chan # None
    BY <2>2, BioAssumption
  <2>5. proc'[p] = v /\ Others({p}, {}) /\ cpu' = None
    BY <2>2, <2>3, <2>4, GoIs
  <2> QED BY <1>1, <1>2, <2>2, <2>3, <2>5
<1>3. CASE ~(t[b].size > PAGESIZE)
  <2>1. Go(p, r, {})
    BY <1>3 DEF Strategy
  <2>2. proc'[p] = r /\ Others({p}, {}) /\ cpu' = p
    BY <2>1, GoIs
  <2> QED BY <1>1, <2>1, <2>2
<1> QED BY <1>2, <1>3

\* p starts a request for b, which it had or took from the list.
LEMMA StrategyKeeps ==
    ASSUME IInv, NEW p \in Proc, NEW b \in Buf, NEW t \in [Buf -> HeaderT], NEW r \in ProcT,
           cpu \in {None, p}, r.chan = None, Strategy(p, b, t, r),
           UNCHANGED <<hdrs, room, want, asyn, twice>>,
           Yours(p, b), b \notin hdrs, b \notin io, Lists(free', ToSet(free) \ {b}),
           \A x \in Buf \ {b} : Alike(buf[x], t[x]),
           t[b].blk = buf[b].blk, "STALE" \in buf[b].flags => "STALE" \in t[b].flags,
           "ASYNC" \notin buf[b].flags, "BUSY" \in t[b].flags, "DONE" \notin t[b].flags,
           "BUSY" \in buf[b].flags /\ "WANTED" \in buf[b].flags => "WANTED" \in t[b].flags,
           "ASYNC" \in t[b].flags <=> r.at \in {"wrote", "join"},
           "READ" \in t[b].flags <=> r.at \in {"biowait", "ra", "join"},
           "READ" \in t[b].flags => t[b].blk # None,
           r.at \in {"wrote", "bwait", "biowait", "ra", "join"}, Local(r),
           r.at \in {"bwait", "biowait"} => r.bp = b, r.at = "ra" <=> r.first = b, r.save # b,
           r.back = "getfree" => r.slept \/ r.blk = None \/ ~Incore(r.blk),
           proc[p].at # "wrote",
           \A x \in Buf \ {b} : SameTo(proc[p], r, x)
    PROVE  IInv'
<1>1. proc \in [Proc -> ProcT] /\ free \in Seq(Buf) /\ IsInjective(free)
  BY DEF IInv, Typed, Places
<1>2. PICK v \in ProcT :
        /\ buf' = t /\ io' = io \cup {b} /\ proc'[p] = v /\ Others({p}, {}) /\ cpu' \in {None, p}
        /\ \/ v = r /\ cpu' = p
           \/ /\ v.at = "breakup" /\ v.then = r.at /\ v.chan = "dma" /\ v.bp = b
              /\ v.call = r.call /\ v.first = r.first /\ v.save = r.save
              /\ v.blk = r.blk /\ v.back = r.back
              /\ v.slept = (r.slept \/ r.back = "getfree") /\ cpu' = None
  <2>1. r.at \notin {"user", "hold", "kmem"}
    OBVIOUS
  <2>2. /\ buf' = t /\ io' = io \cup {b}
        /\ \E v \in ProcT :
             /\ Go(p, v, {}) /\ proc'[p] = v /\ Others({p}, {}) /\ cpu' \in {None, p}
             /\ \/ v = r /\ cpu' = p
                \/ /\ v.at = "breakup" /\ v.then = r.at /\ v.chan = "dma" /\ v.bp = b
                   /\ v.call = r.call /\ v.first = r.first /\ v.save = r.save
                   /\ v.blk = r.blk /\ v.back = r.back
                   /\ v.slept = (r.slept \/ r.back = "getfree") /\ cpu' = None
                   /\ t[b].size > PAGESIZE
    BY <1>1, <2>1, StrategyIs
  <2> QED BY ONLY <2>2
<1>3. /\ free' \in Seq(Buf) /\ IsInjective(free') /\ ToSet(free') = ToSet(free) \ {b}
      /\ free = <<>> => free' = <<>>
  <2>1. free = <<>> <=> ToSet(free) = {}
    BY <1>1, ListIs DEF Lists
  <2> QED BY <2>1 DEF Lists
<1>4. Typed'
  BY <1>2, <1>3 DEF IInv, Typed, Others
<1>5. b # None /\ "dma" # None /\ "dma" \notin Buf
  BY BioAssumption
<1>6. Local(v)
  <2>1. CASE v = r
    BY <2>1
  <2>2. CASE v # r
    <3>1. /\ v.at = "breakup" /\ v.then = r.at /\ v.bp = b /\ v.call = r.call
          /\ v.first = r.first /\ v.save = r.save /\ v.blk = r.blk /\ v.back = r.back
          /\ v.slept = (r.slept \/ r.back = "getfree")
      BY <1>2, <2>2
    <3>2. /\ r.at \in {"wrote", "bwait", "biowait", "ra", "join"}
          /\ r.at \in {"bwait", "biowait"} => r.bp = b
          /\ r.at = "ra" <=> r.first = b
          /\ r.save # b /\ Local(r)
      OBVIOUS
    <3>3. CallOK(v.call)
      BY <3>1, <3>2 DEF Local
    <3>4. HasOK(v)
      BY ONLY <1>5, <3>1, <3>2 DEF Local, HasOK, BackOK, InGetblk, Searching, Owning, Broken
    <3>5. BackOK(v)
      BY ONLY <3>1, <3>2 DEF Local, HasOK, BackOK, InGetblk, Searching, Owning, Broken
    <3> QED BY <3>3, <3>4, <3>5 DEF Local
  <2> QED BY <2>1, <2>2
<1>7. \A x \in Buf : buf'[x].blk = buf[x].blk
                     /\ ("STALE" \in buf[x].flags => "STALE" \in buf'[x].flags)
  BY <1>2 DEF Alike
<1>8. \A k : Matches(k)' \subseteq Matches(k)
  BY <1>7 DEF Matches, Is
<1>9. OneBuffer'
  BY <1>8, OneBufferKept DEF IInv
<1>10. v.chan \in {None, "dma"} /\ (v.chan = None => cpu' = p) /\ (v.chan = "dma" => cpu' = None)
       /\ (v.chan = "dma" => v.at = "breakup")
  BY <1>2, <1>5
<1>11. RunOK(proc[p], p)'
  <2>1. v.at \notin {"match", "getfree", "nofree"} /\ (v.at = "wrote" => cpu' = p)
    BY <1>2
  <2>2. v.back = "getfree" => v.slept \/ v.blk = None \/ (cpu' = p /\ ~Incore(v.blk)')
    BY <1>2, <1>8 DEF Incore
  <2>3. cpu' = p => v.chan = None
    <3>1. p # None
      BY BioAssumption
    <3> QED BY <1>10, <3>1
  <2> QED BY <1>2, <2>1, <2>2, <2>3 DEF RunOK
<1>12. WaitOK(proc[p])'
  BY <1>2, <1>5, <1>10, BioAssumption DEF WaitOK
<1>13. \A x \in Buf \ {b} : SameTo(proc[p], proc'[p], x)
  BY <1>2 DEF SameTo, Owning
<1>14. \A x \in Buf \ {b} : Quiet(x)
  BY <1>2, <1>3 DEF Quiet
<1>15. BufOK(b)'
  <2>1. b \notin ToSet(free') /\ b \notin hdrs' /\ b \in io'
    BY <1>2, <1>3
  <2>2. Mine(v, b) => MineOK(v, b, t[b], TRUE)
    BY <1>2, <1>5 DEF MineOK, BpOK, FirstOK
  <2>3. Mine(v, b) \/ "ASYNC" \in t[b].flags
    BY <1>2 DEF Mine, Owning
  <2>4. Mine(proc'[p], b) => MineOK(proc'[p], b, buf'[b], b \in io')
    BY <1>2, <2>1, <2>2
  <2> QED BY <1>2, <2>1, <2>3, <2>4, Placed
<1>16. Wakes({})
  <2>1. \A x \in Buf : Is(x, "BUSY") /\ Is(x, "WANTED") => (Is(x, "BUSY") /\ Is(x, "WANTED"))'
    BY <1>2 DEF Is, Alike
  <2> QED BY <1>2, <1>3, <2>1 DEF Wakes
<1>17. asyn'.cnt + Num(proc'[p].at = "wrote") + Num(Counts(proc[p], buf[b], b))
         = asyn.cnt + Num(proc[p].at = "wrote") + Num(Counts(proc'[p], buf'[b], b))
  <2>1. Num(Counts(proc[p], buf[b], b)) = 0 /\ Num(proc[p].at = "wrote") = 0
    BY DEF Counts, Num
  <2>2. Counts(v, t[b], b) <=> v.at = "wrote"
    BY <1>2 DEF Counts, Starts, Broken
  <2>3. Num(proc'[p].at = "wrote") = Num(Counts(proc'[p], buf'[b], b))
    BY <1>2, <2>2 DEF Num
  <2>4. Num(Counts(proc'[p], buf'[b], b)) \in Int /\ asyn.cnt \in Int
    BY DEF Num, IInv, Typed
  <2> QED BY <2>1, <2>3, <2>4
<1> QED BY <1>2, <1>3, <1>4, <1>6, <1>9, <1>11, <1>12, <1>13, <1>14, <1>15, <1>16, <1>17, StepKeeps

\* bwrite of b, with the headers t and r to go on, makes of them u and w.
Writes(b, t, r, u, w) ==
    /\ Flagged(t, u, b, t[b].flags \ {"READ", "DONE", "ERROR", "DELWRI"})
    /\ w.at = (IF "ASYNC" \in t[b].flags THEN "wrote" ELSE "bwait")
    /\ w.bp = (IF "ASYNC" \in t[b].flags THEN None ELSE b)
    /\ w.call = r.call /\ w.chan = r.chan /\ w.first = r.first /\ w.save = r.save
    /\ w.blk = r.blk /\ w.back = r.back /\ w.slept = r.slept

\* bwrite hands the buffer to the strategy routine.
LEMMA BwriteIs ==
    ASSUME NEW p, NEW b \in Buf, NEW t \in [Buf -> HeaderT], NEW r \in ProcT, Bwrite(p, b, t, r)
    PROVE  \E u \in [Buf -> HeaderT], w \in ProcT : Writes(b, t, r, u, w) /\ Strategy(p, b, u, w)
<1>1. PICK u : u = Clear(t, b, {"READ", "DONE", "ERROR", "DELWRI"})
  OBVIOUS
<1>2. Flagged(t, u, b, t[b].flags \ {"READ", "DONE", "ERROR", "DELWRI"})
  BY <1>1, ClearIs
<1>3. u \in [Buf -> HeaderT]
  BY <1>2 DEF Flagged
<1>4. PICK w : w = IF "ASYNC" \in t[b].flags THEN [r EXCEPT !.at = "wrote", !.bp = None]
                   ELSE [r EXCEPT !.at = "bwait", !.bp = b]
  OBVIOUS
<1>5. Strategy(p, b, u, w)
  BY <1>1, <1>4 DEF Bwrite
<1>6. r \in ProcT /\ b \in Buf
  OBVIOUS
<1>7. CASE "ASYNC" \in t[b].flags
  <2>1. w = [r EXCEPT !.at = "wrote", !.bp = None]
    BY <1>4, <1>7
  <2>2. w \in ProcT
    BY ONLY <1>6, <2>1 DEF ProcT, Where
  <2>3. /\ w.at = "wrote" /\ w.bp = None
        /\ w.call = r.call /\ w.chan = r.chan /\ w.first = r.first /\ w.save = r.save
        /\ w.blk = r.blk /\ w.back = r.back /\ w.slept = r.slept
    BY ONLY <1>6, <2>1 DEF ProcT
  <2> QED BY <1>2, <1>3, <1>5, <1>7, <2>2, <2>3 DEF Writes
<1>8. CASE "ASYNC" \notin t[b].flags
  <2>1. w = [r EXCEPT !.at = "bwait", !.bp = b]
    BY <1>4, <1>8
  <2>2. w \in ProcT
    BY ONLY <1>6, <2>1 DEF ProcT, Where
  <2>3. /\ w.at = "bwait" /\ w.bp = b
        /\ w.call = r.call /\ w.chan = r.chan /\ w.first = r.first /\ w.save = r.save
        /\ w.blk = r.blk /\ w.back = r.back /\ w.slept = r.slept
    BY ONLY <1>6, <2>1 DEF ProcT
  <2> QED BY <1>2, <1>3, <1>5, <1>8, <2>2, <2>3 DEF Writes
<1> QED BY <1>7, <1>8

\* p starts to write b, which it had or took from the list.
LEMMA BwriteKeeps ==
    ASSUME IInv, NEW p \in Proc, NEW b \in Buf, NEW t \in [Buf -> HeaderT], NEW r \in ProcT,
           cpu \in {None, p}, r.chan = None, Bwrite(p, b, t, r),
           UNCHANGED <<hdrs, room, want, asyn, twice>>,
           Yours(p, b), b \notin hdrs, b \notin io, Lists(free', ToSet(free) \ {b}),
           \A x \in Buf \ {b} : Alike(buf[x], t[x]),
           t[b].blk = buf[b].blk, "STALE" \in buf[b].flags => "STALE" \in t[b].flags,
           "ASYNC" \notin buf[b].flags, "BUSY" \in t[b].flags,
           "BUSY" \in buf[b].flags /\ "WANTED" \in buf[b].flags => "WANTED" \in t[b].flags,
           CallOK(r.call), r.first # b, r.save # b,
           r.save # None => r.back = "getfree" /\ r.save # r.first,
           r.first # None => r.call.op = "breada" /\ r.back = "getfree",
           r.back = "getfree" /\ r.call.op = "breada" /\ r.blk # r.call.ra => r.first = None,
           r.back = "getfree" => r.slept \/ r.blk = None \/ ~Incore(r.blk),
           r.back = "getfree" /\ r.call.op \in {"bread", "breada"} => r.blk # None,
           r.back = "blkflush" => r.call.blk # None,
           r.back \in IF "ASYNC" \in t[b].flags THEN {"user", "getfree", "bflush"}
                      ELSE {"user", "blkflush"},
           proc[p].at # "wrote", proc[p].at \in Owning => proc[p].bp = b,
           \A x \in Buf \ {b} : x = r.first <=> x = proc[p].first,
           \A x \in Buf \ {b} : x = r.save <=> x = proc[p].save
    PROVE  IInv'
<1>1. \E u \in [Buf -> HeaderT], w \in ProcT : Writes(b, t, r, u, w) /\ Strategy(p, b, u, w)
  BY BwriteIs
<1>2. PICK u \in [Buf -> HeaderT], w \in ProcT :
        /\ Flagged(t, u, b, t[b].flags \ {"READ", "DONE", "ERROR", "DELWRI"})
        /\ Strategy(p, b, u, w)
        /\ w.at = (IF "ASYNC" \in t[b].flags THEN "wrote" ELSE "bwait")
        /\ w.bp = (IF "ASYNC" \in t[b].flags THEN None ELSE b)
        /\ w.call = r.call /\ w.chan = r.chan /\ w.first = r.first /\ w.save = r.save
        /\ w.blk = r.blk /\ w.back = r.back /\ w.slept = r.slept
  BY ONLY <1>1 DEF Writes
<1>3. b # None
  BY BioAssumption
<1>4. /\ \A x \in Buf \ {b} : Alike(buf[x], u[x])
      /\ u[b].blk = buf[b].blk
      /\ u[b].flags = t[b].flags \ {"READ", "DONE", "ERROR", "DELWRI"}
  BY <1>2 DEF Flagged
<1>5. HasOK(w)
  BY <1>2, <1>3 DEF HasOK, InGetblk, Searching, Owning, Broken
<1>6. BackOK(w)
  BY <1>2 DEF BackOK, Broken, InGetblk, Searching
<1>7. Local(w)
  BY <1>2, <1>5, <1>6 DEF Local
<1>8. \A x \in Buf \ {b} : SameTo(proc[p], w, x)
  BY <1>2, <1>3 DEF SameTo, Owning
<1>9. /\ "STALE" \in buf[b].flags => "STALE" \in u[b].flags
      /\ "BUSY" \in u[b].flags /\ "DONE" \notin u[b].flags
      /\ "BUSY" \in buf[b].flags /\ "WANTED" \in buf[b].flags => "WANTED" \in u[b].flags
      /\ "ASYNC" \in u[b].flags <=> w.at \in {"wrote", "join"}
      /\ "READ" \in u[b].flags <=> w.at \in {"biowait", "ra", "join"}
  BY <1>2, <1>4
<1>10. /\ w.at \in {"wrote", "bwait", "biowait", "ra", "join"}
       /\ w.at \in {"bwait", "biowait"} => w.bp = b
       /\ w.at = "ra" <=> w.first = b
       /\ w.save # b /\ w.chan = None
       /\ w.back = "getfree" => w.slept \/ w.blk = None \/ ~Incore(w.blk)
  BY <1>2
<1>11. Strategy(p, b, u, w)
  BY <1>2
<1> QED BY <1>4, <1>7, <1>8, <1>9, <1>10, <1>11, StrategyKeeps

\* getfreeblk takes a free buffer, which it may have to write first.
LEMMA GetfreeKeeps ==
    ASSUME IInv, NEW p \in Proc, Getfree(p)
    PROVE  IInv'
<1>1. PICK s \in ProcT : /\ s = proc[p] /\ s.at = "getfree" /\ s.chan = None /\ cpu \in {None, p}
                         /\ Local(s) /\ RunOK(s, p) /\ proc \in [Proc -> ProcT]
  BY RunsIs DEF Getfree
<1>2. s.back = "user" /\ s.bp = None /\ UNCHANGED <<asyn, twice>>
  BY <1>1 DEF Local, HasOK, BackOK, Broken, Owning, Getfree
<1>3. /\ buf \in [Buf -> HeaderT] /\ free \in Seq(Buf) /\ IsInjective(free) /\ hdrs \subseteq Buf
      /\ room \in Int /\ want \subseteq {"free", "hdr"} /\ twice \subseteq Blk
  BY DEF IInv, Typed, Places
<1>4. ASSUME Go(p, [s EXCEPT !.at = "nofree"], {}), UNCHANGED <<buf, free, hdrs, room, want, io>>
      PROVE  IInv'
  <2>1. PICK r : r = [s EXCEPT !.at = "nofree"]
    OBVIOUS
  <2>2. r \in ProcT /\ r.at = "nofree" /\ r.bp = None /\ r.first = s.first /\ r.save = s.save
        /\ r.chan = None /\ r.blk = s.blk /\ r.back = "user" /\ r.call = s.call
        /\ r.slept = s.slept
    BY <1>1, <1>2, <2>1 DEF ProcT, Where
  <2>3. Local(r)
    BY <1>1, <1>2, <2>2 DEF Local, HasOK, BackOK, InGetblk, Searching, Owning, Broken
  <2>4. proc'[p] = r /\ cpu' = p
    BY <1>1, <1>4, <2>1, <2>2, GoIs
  <2>5. s.slept \/ s.blk = None \/ ~Incore(s.blk)'
    BY <1>1, <1>4, IncoreSame DEF RunOK
  <2>6. RunOK(proc[p], p)' /\ WaitOK(proc[p])'
    BY <2>2, <2>4, <2>5, BioAssumption DEF RunOK, WaitOK
  <2>7. \A x \in Buf : SameTo(s, r, x)
    BY <1>1, <2>2 DEF SameTo, Owning
  <2>8. s.at # "wrote" /\ r.at # "wrote"
    BY <1>1, <2>2
  <2> QED BY <1>1, <1>2, <1>4, <2>1, <2>2, <2>3, <2>6, <2>7, <2>8, QuietStep, BioAssumption
          DEF IInv, Typed, Num
<1>5. ASSUME free # <<>>, free' = Tail(free), NEW b, b = Head(free)
      PROVE  /\ b \in Buf /\ b # None /\ b \in ToSet(free) /\ Lists(free', ToSet(free) \ {b})
             /\ Yours(p, b) /\ ~Mine(s, b) /\ b \notin hdrs /\ b \notin io
             /\ buf[b].flags \cap {"BUSY", "WANTED", "ASYNC", "READ"} = {}
  <2>1. b \in ToSet(free) /\ Lists(free', ToSet(free) \ {b})
    BY <1>3, <1>5, TailIs
  <2>2. b \in Buf
    BY <1>3, <2>1, ListIs
  <2>3. b # None
    BY <2>2, BioAssumption
  <2> QED BY <1>1, <2>1, <2>2, <2>3, YoursIs DEF IInv
<1>6. ASSUME free # <<>>, free' = Tail(free), NEW b, b = Head(free), UNCHANGED <<hdrs, room, want>>,
             Bwrite(p, b, Set(Set(buf, b, {"BUSY"}), b, {"ASYNC", "AGE"}),
                    [s EXCEPT !.back = "getfree"])
      PROVE  IInv'
  <2>1. /\ b \in Buf /\ b # None /\ b \in ToSet(free) /\ Lists(free', ToSet(free) \ {b})
        /\ Yours(p, b) /\ ~Mine(s, b) /\ b \notin hdrs /\ b \notin io
        /\ buf[b].flags \cap {"BUSY", "WANTED", "ASYNC", "READ"} = {}
    BY <1>5, <1>6
  <2>2. PICK t : t = Set(buf, b, {"BUSY"})
    OBVIOUS
  <2>3. Flagged(buf, t, b, buf[b].flags \cup {"BUSY"})
    BY <1>3, <2>1, <2>2, SetIs DEF Flags
  <2>4. PICK m : m = Set(t, b, {"ASYNC", "AGE"})
    OBVIOUS
  <2>5. Flagged(t, m, b, t[b].flags \cup {"ASYNC", "AGE"}) /\ m \in [Buf -> HeaderT]
    BY <2>1, <2>3, <2>4, SetIs DEF Flagged, Flags
  <2>6. PICK q : q = [s EXCEPT !.back = "getfree"]
    OBVIOUS
  <2>7. /\ q \in ProcT /\ q.at = "getfree" /\ q.bp = None /\ q.first = s.first /\ q.save = s.save
        /\ q.chan = None /\ q.blk = s.blk /\ q.back = "getfree" /\ q.call = s.call
        /\ q.slept = s.slept
    BY <1>1, <1>2, <2>6 DEF ProcT, Where
  <2>8. Bwrite(p, b, m, q)
    BY <1>6, <2>2, <2>4, <2>6
  <2>9. /\ \A x \in Buf \ {b} : m[x] = buf[x]
        /\ m[b].blk = buf[b].blk /\ m[b].flags = buf[b].flags \cup {"BUSY", "ASYNC", "AGE"}
    BY <2>3, <2>5 DEF Flagged
  <2>10. /\ CallOK(q.call) /\ q.first # b /\ q.save # b
         /\ q.save # None => q.save # q.first
         /\ q.first # None => q.call.op = "breada"
         /\ q.call.op = "breada" /\ q.blk # q.call.ra => q.first = None
         /\ q.slept \/ q.blk = None \/ ~Incore(q.blk)
         /\ q.call.op \in {"bread", "breada"} => q.blk # None
    BY <1>1, <2>1, <2>7 DEF Mine, RunOK, Local, HasOK, BackOK, InGetblk, Searching
  <2>11. \A x \in Buf \ {b} : Alike(buf[x], m[x])
    BY <2>9 DEF Alike
  <2>12. /\ "STALE" \in buf[b].flags => "STALE" \in m[b].flags
         /\ "ASYNC" \notin buf[b].flags /\ "BUSY" \in m[b].flags
         /\ "WANTED" \in buf[b].flags => "WANTED" \in m[b].flags
         /\ "ASYNC" \in m[b].flags
    BY <2>1, <2>9
  <2>13. s.at # "wrote" /\ s.at \notin Owning
    BY <1>1 DEF Owning
  <2>14. q.back \in IF "ASYNC" \in m[b].flags THEN {"user", "getfree", "bflush"}
                    ELSE {"user", "blkflush"}
    BY <2>7, <2>12
  <2> QED BY <1>1, <1>2, <1>6, <2>1, <2>5, <2>7, <2>8, <2>9, <2>10, <2>11, <2>12, <2>13, <2>14,
             BwriteKeeps
<1>7. ASSUME free # <<>>, free' = Tail(free), NEW b, b = Head(free),
             UNCHANGED <<hdrs, room, want, io>>,
             s.save = None, buf' = [Set(buf, b, {"BUSY"}) EXCEPT ![b].blk = None],
             Go(p, [s EXCEPT !.save = b], {})
      PROVE  IInv'
  <2>1. /\ b \in Buf /\ b # None /\ b \in ToSet(free) /\ Lists(free', ToSet(free) \ {b})
        /\ Yours(p, b) /\ ~Mine(s, b) /\ b \notin hdrs /\ b \notin io
        /\ buf[b].flags \cap {"BUSY", "WANTED", "ASYNC", "READ"} = {}
    BY <1>5, <1>7
  <2>2. PICK t : t = Set(buf, b, {"BUSY"})
    OBVIOUS
  <2>3. Flagged(buf, t, b, buf[b].flags \cup {"BUSY"})
    BY <1>3, <2>1, <2>2, SetIs DEF Flags
  <2>4. PICK h \in HeaderT : h = t[b]
    BY <2>1, <2>3 DEF Flagged
  <2>5. PICK k : k = [h EXCEPT !.blk = None]
    OBVIOUS
  <2>6. k \in HeaderT /\ k.blk = None /\ k.flags = h.flags
    BY <2>5 DEF HeaderT
  <2>7. buf' = [t EXCEPT ![b] = k]
    BY <1>7, <2>2, <2>4, <2>5
  <2>8. /\ buf' \in [Buf -> HeaderT] /\ \A x \in Buf \ {b} : buf'[x] = buf[x]
        /\ buf'[b].blk = None /\ buf'[b].flags = buf[b].flags \cup {"BUSY"}
    BY <2>1, <2>3, <2>4, <2>6, <2>7 DEF Flagged
  <2>9. PICK r : r = [s EXCEPT !.save = b]
    OBVIOUS
  <2>10. /\ r \in ProcT /\ r.at = "getfree" /\ r.bp = None /\ r.first = s.first /\ r.save = b
         /\ r.chan = None /\ r.blk = s.blk /\ r.back = "user" /\ r.call = s.call
         /\ r.slept = s.slept
    BY <1>1, <1>2, <2>1, <2>9 DEF ProcT
  <2>11. b # s.first
    BY <2>1 DEF Mine
  <2>12. Local(r)
    BY <1>1, <1>2, <2>1, <2>10, <2>11
       DEF Local, HasOK, BackOK, InGetblk, Searching, Owning, Broken
  <2>13. proc'[p] = r /\ cpu' = p
    BY <1>1, <1>7, <2>9, <2>10, GoIs
  <2>14. \A j \in Blk : Matches(j)' \subseteq Matches(j)
    <3>1. None \notin Blk
      BY BioAssumption
    <3> QED BY <2>8, <3>1 DEF Matches, Is
  <2>15. OneBuffer'
    BY <1>2, <2>14, OneBufferKept DEF IInv
  <2>16. s.slept \/ s.blk = None \/ ~Incore(s.blk)'
    <3>1. s.blk \in Blk \cup {None}
      BY DEF ProcT
    <3> QED BY <1>1, <2>14, <3>1 DEF RunOK, Incore
  <2>17. RunOK(proc[p], p)'
    BY <2>10, <2>13, <2>16 DEF RunOK
  <2>18. Mine(r, b) /\ MineOK(r, b, buf'[b], FALSE)
    BY <2>1, <2>8, <2>10, <2>11 DEF Mine, MineOK, SaveOK, Owning
  <2>19. \A x \in Buf \ {b} : SameTo(s, r, x)
    BY <1>1, <1>7, <2>10, BioAssumption DEF SameTo, Owning
  <2>20. hdrs' = hdrs \ {b} /\ room' \in Int /\ twice' \subseteq Blk /\ twice \subseteq twice'
    BY <1>2, <1>3, <1>7, <2>1
  <2>21. "ASYNC" \notin buf[b].flags /\ "ASYNC" \notin buf'[b].flags /\ "BUSY" \notin buf[b].flags
    BY <2>1, <2>8
  <2>22. s.at # "wrote" /\ r.at # "wrote"
    BY <1>1, <2>10
  <2> QED BY <1>1, <1>2, <1>7, <2>1, <2>8, <2>9, <2>10, <2>12, <2>15, <2>17, <2>18, <2>19, <2>20,
             <2>21, <2>22, TakeKeeps
<1>8. ASSUME free # <<>>, free' = Tail(free), NEW b, b = Head(free), UNCHANGED io,
             buf' = [buf EXCEPT ![b] = Header], hdrs' = hdrs \cup {b},
             room' = room + buf[b].size, want' = want \ {"hdr"}, Go(p, s, want \cap {"hdr"})
      PROVE  IInv'
  <2>1. /\ b \in Buf /\ b # None /\ b \in ToSet(free) /\ Lists(free', ToSet(free) \ {b})
        /\ Yours(p, b) /\ ~Mine(s, b) /\ b \notin hdrs /\ b \notin io
        /\ buf[b].flags \cap {"BUSY", "WANTED", "ASYNC", "READ"} = {}
    BY <1>5, <1>8
  <2>2. Header \in HeaderT /\ Blank(Header)
    BY DEF Header, HeaderT, Blank
  <2>3. /\ buf' \in [Buf -> HeaderT] /\ buf'[b] = Header /\ \A x \in Buf \ {b} : buf'[x] = buf[x]
    BY <1>3, <1>8, <2>2
  <2>4. PICK C : C = want \cap {"hdr"}
    OBVIOUS
  <2>5. Go(p, s, C) /\ C \subseteq {"hdr"}
    BY <1>8, <2>4
  <2>6. /\ Others({p}, C) /\ proc'[p] = s /\ cpu' = p
    BY <1>1, <2>5, GoIs
  <2>7. /\ free' \in Seq(Buf) /\ IsInjective(free') /\ ToSet(free') = ToSet(free) \ {b}
    BY <2>1 DEF Lists
  <2>8. room' \in Int
    BY <1>3, <1>8, <2>1 DEF HeaderT
  <2>9. Typed'
    BY <1>2, <1>3, <1>8, <2>1, <2>3, <2>6, <2>7, <2>8 DEF IInv, Typed, Others
  <2>10. \A j \in Blk : Matches(j)' \subseteq Matches(j)
    <3>1. None \notin Blk /\ Header.blk = None
      BY BioAssumption DEF Header
    <3> QED BY <2>3, <3>1 DEF Matches, Is
  <2>11. OneBuffer'
    BY <1>2, <2>10, OneBufferKept DEF IInv
  <2>12. s.slept \/ s.blk = None \/ ~Incore(s.blk)'
    <3>1. s.blk \in Blk \cup {None}
      BY DEF ProcT
    <3> QED BY <1>1, <2>10, <3>1 DEF RunOK, Incore
  <2>13. RunOK(proc[p], p)' /\ WaitOK(proc[p])'
    BY <1>1, <2>6, <2>12, BioAssumption DEF RunOK, WaitOK
  <2>14. BufOK(b)'
    BY <1>8, <2>1, <2>2, <2>3, <2>6, <2>7, Placed
  <2>15. \A x \in Buf \ {b} : Quiet(x)
    BY <1>8, <2>3, <2>7 DEF Quiet, Alike
  <2>16. \A x \in Buf \ {b} : SameTo(proc[p], proc'[p], x)
    BY <1>1, <2>6 DEF SameTo, Owning
  <2>17. Wakes(C)
    <3>1. \A x \in Buf : Is(x, "BUSY") /\ Is(x, "WANTED") => (Is(x, "BUSY") /\ Is(x, "WANTED"))'
      BY <2>1, <2>3 DEF Is
    <3> QED BY <1>2, <1>8, <2>4, <3>1 DEF Wakes
  <2>18. "dma" \notin C /\ cpu' \in {None, p}
    BY <2>5, <2>6
  <2>19. asyn'.cnt + Num(proc'[p].at = "wrote") + Num(Counts(proc[p], buf[b], b))
           = asyn.cnt + Num(proc[p].at = "wrote") + Num(Counts(proc'[p], buf'[b], b))
    <3>1. Counts(proc[p], buf[b], b) = FALSE /\ Counts(proc'[p], buf'[b], b) = FALSE
      BY <2>1, <2>2, <2>3 DEF Counts, Blank
    <3> QED BY <1>1, <1>2, <2>6, <3>1
  <2> QED BY <1>1, <2>1, <2>6, <2>7, <2>9, <2>11, <2>13, <2>14, <2>15, <2>16, <2>17, <2>18, <2>19,
             StepKeeps
<1> QED BY <1>1, <1>4, <1>6, <1>7, <1>8 DEF Getfree

-----------------------------------------------------------------------------
(* brelse and biodone.                                                     *)

\* The headers after brelse.
LEMMA ReleasedIs ==
    ASSUME NEW t \in [Buf -> HeaderT], NEW b \in Buf
    PROVE  LET u == Released(t, b)
           IN  /\ u \in [Buf -> HeaderT] /\ \A x \in Buf : x # b => u[x] = t[x]
               /\ u[b].blk = t[b].blk /\ u[b].size = t[b].size
               /\ u[b].flags \cap {"BUSY", "WANTED", "ASYNC", "READ"} = {}
               /\ "STALE" \in t[b].flags => "STALE" \in u[b].flags
<1>1. PICK m : m = Set(t, b, {"STALE", "AGE"})
  OBVIOUS
<1>2. Flagged(t, m, b, t[b].flags \cup {"STALE", "AGE"}) /\ m \in [Buf -> HeaderT]
  BY <1>1, SetIs DEF Flagged, Flags
<1>3. PICK n : n = Clear(m, b, {"ERROR", "DELWRI"})
  OBVIOUS
<1>4. Flagged(m, n, b, m[b].flags \ {"ERROR", "DELWRI"})
  BY <1>2, <1>3, ClearIs
<1>5. PICK e : e = IF "ERROR" \in t[b].flags THEN n ELSE t
  OBVIOUS
<1>6. /\ e \in [Buf -> HeaderT] /\ \A x \in Buf : x # b => e[x] = t[x]
      /\ e[b].blk = t[b].blk /\ e[b].size = t[b].size
      /\ "STALE" \in t[b].flags => "STALE" \in e[b].flags
  BY <1>2, <1>4, <1>5 DEF Flagged
<1>7. PICK u : u = Clear(e, b, {"WANTED", "BUSY", "ASYNC", "READ"})
  OBVIOUS
<1>8. Flagged(e, u, b, e[b].flags \ {"WANTED", "BUSY", "ASYNC", "READ"})
  BY <1>6, <1>7, ClearIs
<1>9. Released(t, b) = u
  BY <1>1, <1>3, <1>5, <1>7 DEF Released
<1>10. /\ u \in [Buf -> HeaderT] /\ \A x \in Buf : x # b => u[x] = t[x]
       /\ u[b].blk = t[b].blk /\ u[b].size = t[b].size
       /\ u[b].flags \cap {"BUSY", "WANTED", "ASYNC", "READ"} = {}
       /\ "STALE" \in t[b].flags => "STALE" \in u[b].flags
  BY <1>6, <1>8 DEF Flagged
<1> QED BY <1>9, <1>10

\* The available list after brelse.
LEMMA ReturnedIs ==
    ASSUME free \in Seq(Buf), IsInjective(free), NEW b \in Buf, b \notin ToSet(free), NEW age,
           free' = IF age THEN <<b>> \o free ELSE Append(free, b)
    PROVE  Lists(free', ToSet(free) \cup {b})
<1>1. CASE age
  BY <1>1, ConsIs
<1>2. CASE ~age
  BY <1>2, AppendIs
<1> QED BY <1>1, <1>2

\* p gives b back, and wakes C.
LEMMA ReleaseKeeps ==
    ASSUME IInv, NEW p \in Proc, NEW b \in Buf, NEW t \in [Buf -> HeaderT], NEW r \in ProcT,
           NEW C, r.chan = None, cpu \in {None, p}, cpu' \in {None, p},
           buf' = Released(t, b), Lists(free', ToSet(free) \cup {b}), want' = want \ {"free"},
           proc' = Woken([proc EXCEPT ![p] = r], C), Wanted(t, b) \subseteq C, "dma" \notin C,
           UNCHANGED <<hdrs, room, io, twice>>, asyn' \in [cnt : Int, wait : BOOLEAN],
           asyn.wait => "async" \in C \/ (asyn'.wait /\ (asyn.cnt > 0 => asyn'.cnt > 0)),
           Mine(proc[p], b), ~Mine(r, b), b \notin io,
           \A x \in Buf \ {b} : Alike(buf[x], t[x]), t[b].blk = buf[b].blk,
           "STALE" \in buf[b].flags => "STALE" \in t[b].flags,
           "WANTED" \in buf[b].flags => "WANTED" \in t[b].flags,
           Local(r), RunOK(proc[p], p)',
           asyn'.cnt + Num(r.at = "wrote") + Num(Counts(proc[p], buf[b], b))
             = asyn.cnt + Num(proc[p].at = "wrote"),
           \A x \in Buf \ {b} : SameTo(proc[p], r, x)
    PROVE  IInv'
<1>1. proc \in [Proc -> ProcT] /\ want \subseteq {"free", "hdr"}
  BY DEF IInv, Typed
<1>2. Others({p}, C) /\ proc'[p] = r
  BY <1>1, WakeIs
<1>3. /\ buf' \in [Buf -> HeaderT] /\ \A x \in Buf : x # b => buf'[x] = t[x]
      /\ buf'[b].blk = buf[b].blk
      /\ buf'[b].flags \cap {"BUSY", "WANTED", "ASYNC", "READ"} = {}
      /\ "STALE" \in buf[b].flags => "STALE" \in buf'[b].flags
  BY ReleasedIs
<1>4. free' \in Seq(Buf) /\ IsInjective(free') /\ ToSet(free') = ToSet(free) \cup {b}
  BY DEF Lists
<1>5. Typed'
  BY <1>1, <1>2, <1>3, <1>4 DEF IInv, Typed, Others
<1>6. \A x \in Buf : buf'[x].blk = buf[x].blk
                     /\ ("STALE" \in buf[x].flags => "STALE" \in buf'[x].flags)
  BY <1>3 DEF Alike
<1>7. OneBuffer'
  <2>1. \A k \in Blk : Matches(k)' \subseteq Matches(k)
    BY <1>6 DEF Matches, Is
  <2> QED BY <2>1, OneBufferKept DEF IInv
<1>8. Yours(p, b) /\ b \notin hdrs
  BY YoursIs DEF IInv
<1>9. BufOK(b)'
  BY <1>2, <1>3, <1>4, <1>8, Placed
<1>10. \A x \in Buf \ {b} : Quiet(x)
  BY <1>3, <1>4 DEF Quiet
<1>11. Wakes(C)
  <2>1. ASSUME NEW x \in Buf, Is(x, "BUSY"), Is(x, "WANTED")
        PROVE  x \in C \/ (Is(x, "BUSY") /\ Is(x, "WANTED"))'
    <3>1. CASE x = b
      <4>1. b \in Wanted(t, b)
        BY <2>1, <3>1 DEF Is, Wanted
      <4> QED BY <3>1, <4>1
    <3>2. CASE x # b
      BY <1>3, <2>1, <3>2 DEF Is, Alike
    <3> QED BY <3>1, <3>2
  <2>2. "free" \in want => "free" \in C
    BY DEF Wanted
  <2>3. "hdr" \in want => "hdr" \in want' /\ hdrs' \subseteq hdrs
    OBVIOUS
  <2> QED BY <2>1, <2>2, <2>3 DEF Wakes
<1>12. WaitOK(proc[p])'
  BY <1>2, BioAssumption DEF WaitOK
<1>13. Counts(proc'[p], buf'[b], b) = FALSE
  BY <1>3 DEF Counts
<1>14. asyn'.cnt + Num(proc'[p].at = "wrote") + Num(Counts(proc[p], buf[b], b))
         = asyn.cnt + Num(proc[p].at = "wrote") + Num(Counts(proc'[p], buf'[b], b))
  <2>1. Num(Counts(proc'[p], buf'[b], b)) = 0
    BY <1>13 DEF Num
  <2>2. asyn.cnt + Num(proc[p].at = "wrote") + 0 = asyn.cnt + Num(proc[p].at = "wrote")
    BY DEF IInv, Typed, Num
  <2> QED BY <1>2, <2>1, <2>2
<1>15. \A x \in Buf \ {b} : SameTo(proc[p], proc'[p], x)
  BY <1>2
<1> QED BY <1>2, <1>4, <1>5, <1>7, <1>8, <1>9, <1>10, <1>11, <1>12, <1>14, <1>15, StepKeeps

\* brelse by p, which goes on as r.
LEMMA BrelseKeeps ==
    ASSUME IInv, NEW p \in Proc, NEW b \in Buf, NEW t \in [Buf -> HeaderT], NEW r \in ProcT,
           r.chan = None, cpu \in {None, p}, cpu' \in {None, p},
           Brelse(b, t, [proc EXCEPT ![p] = r]), UNCHANGED <<hdrs, room, asyn, io, twice>>,
           Mine(proc[p], b), ~Mine(r, b), b \notin io,
           \A x \in Buf \ {b} : Alike(buf[x], t[x]), t[b].blk = buf[b].blk,
           "STALE" \in buf[b].flags => "STALE" \in t[b].flags,
           "WANTED" \in buf[b].flags => "WANTED" \in t[b].flags,
           "ASYNC" \notin buf[b].flags,
           Local(r), RunOK(proc[p], p)', r.at # "wrote", proc[p].at # "wrote",
           \A x \in Buf \ {b} : SameTo(proc[p], r, x)
    PROVE  IInv'
<1>1. PICK C : C = Wanted(t, b)
  OBVIOUS
<1>2. /\ buf' = Released(t, b) /\ want' = want \ {"free"}
      /\ proc' = Woken([proc EXCEPT ![p] = r], C)
      /\ free' = IF "AGE" \in buf'[b].flags THEN <<b>> \o free ELSE Append(free, b)
  BY <1>1 DEF Brelse
<1>3. "dma" \notin C
  BY <1>1, BioAssumption DEF Wanted
<1>4. b \notin ToSet(free)
  BY YoursIs DEF IInv
<1>5. Lists(free', ToSet(free) \cup {b})
  BY <1>2, <1>4, ReturnedIs DEF IInv, Typed, Places
<1>6. /\ asyn' \in [cnt : Int, wait : BOOLEAN]
      /\ asyn.wait => "async" \in C \/ (asyn'.wait /\ (asyn.cnt > 0 => asyn'.cnt > 0))
  BY DEF IInv, Typed
<1>7. asyn'.cnt + Num(r.at = "wrote") + Num(Counts(proc[p], buf[b], b))
        = asyn.cnt + Num(proc[p].at = "wrote")
  <2>1. /\ Num(r.at = "wrote") = 0 /\ Num(proc[p].at = "wrote") = 0
        /\ Num(Counts(proc[p], buf[b], b)) = 0
    BY DEF Num, Counts
  <2>2. asyn.cnt + 0 + 0 = asyn.cnt + 0
    BY DEF IInv, Typed
  <2> QED BY <2>1, <2>2
<1> QED BY <1>1, <1>2, <1>3, <1>5, <1>6, <1>7, ReleaseKeeps

\* Where RunOK asks nothing.
LEMMA RunsOn ==
    ASSUME NEW p \in Proc, NEW r \in ProcT, proc'[p] = r, r.chan = None,
           r.at \notin {"match", "wrote", "getfree", "nofree"}, r.back # "getfree"
    PROVE  RunOK(proc[p], p)'
BY DEF RunOK

\* So for WaitOK.
LEMMA WaitsNot ==
    ASSUME NEW p \in Proc, NEW r \in ProcT, proc'[p] = r, r.chan = None
    PROVE  WaitOK(proc[p])'
BY BioAssumption DEF WaitOK

-----------------------------------------------------------------------------
(* Who has a buffer.                                                       *)

\* What is known of a process in the middle of bread, biowait or bwrite.
LEMMA OwnerIs ==
    ASSUME IInv, NEW p \in Proc, NEW at \in {"got", "biowait", "hold", "bwait"}, Runs(p, at)
    PROVE  \E s \in ProcT, b \in Buf :
             /\ s = proc[p] /\ s.at = at /\ s.chan = None /\ s.bp = b /\ b # None
             /\ cpu \in {None, p} /\ Local(s) /\ RunOK(s, p)
             /\ s.save = None /\ s.first # b /\ s.back # "getfree" /\ s.back # "bflush"
             /\ at # "bwait" => s.back = "user"
             /\ at # "got" => s.first = None
             /\ Mine(s, b) /\ Yours(p, b) /\ b \notin ToSet(free) /\ b \notin hdrs
             /\ BpOK(s, buf[b], b \in io)
             /\ \A x \in Buf \ {b} : x # s.first => SameTo(s, User, x)
<1>1. PICK s \in ProcT : /\ s = proc[p] /\ s.at = at /\ s.chan = None /\ cpu \in {None, p}
                         /\ Local(s) /\ RunOK(s, p)
  BY RunsIs
<1>2. /\ s.bp # None /\ s.save = None /\ s.first # s.bp /\ s.back # "getfree"
      /\ s.back # "bflush" /\ (at # "bwait" => s.back = "user")
      /\ at # "got" => s.first = None
  BY <1>1 DEF Local, HasOK, BackOK, InGetblk, Searching, Owning, Broken
<1>3. PICK b \in Buf : b = s.bp
  BY <1>2 DEF ProcT
<1>4. Mine(s, b)
  BY <1>1, <1>3 DEF Mine, Owning
<1>5. /\ Yours(p, b) /\ b \notin ToSet(free) /\ b \notin hdrs
      /\ MineOK(s, b, buf[b], b \in io)
  BY <1>1, <1>4, YoursIs DEF IInv
<1>6. BpOK(s, buf[b], b \in io)
  BY <1>1, <1>3, <1>5 DEF MineOK, Owning
<1>7. \A x \in Buf \ {b} : x # s.first => SameTo(s, User, x)
  BY <1>2, <1>3, BioAssumption DEF SameTo, User, Owning
<1> QED BY <1>1, <1>2, <1>3, <1>4, <1>5, <1>6, <1>7

\* What p has, when it takes nothing.
LEMMA NothingTaken ==
    ASSUME IInv, UNCHANGED free, NEW b \in Buf, b \notin ToSet(free)
    PROVE  Lists(free', ToSet(free) \ {b})
<1>1. Lists(free, ToSet(free))
  BY ListIs DEF IInv, Typed, Places
<1>2. ToSet(free) \ {b} = ToSet(free)
  OBVIOUS
<1> QED BY <1>1, <1>2

\* bread and breada start the request for the buffer they got, or return it.
LEMMA GotKeeps ==
    ASSUME IInv, NEW p \in Proc, Got(p)
    PROVE  IInv'
<1>1. \E s \in ProcT, b \in Buf :
        /\ s = proc[p] /\ s.at = "got" /\ s.chan = None /\ s.bp = b /\ b # None
        /\ cpu \in {None, p} /\ Local(s)
        /\ s.save = None /\ s.first # b /\ s.back = "user"
        /\ Mine(s, b) /\ Yours(p, b) /\ b \notin ToSet(free) /\ b \notin hdrs
        /\ BpOK(s, buf[b], b \in io)
  BY OwnerIs DEF Got
<1>2. PICK s \in ProcT, b \in Buf :
        /\ s = proc[p] /\ s.at = "got" /\ s.chan = None /\ s.bp = b /\ b # None
        /\ cpu \in {None, p} /\ Local(s)
        /\ s.save = None /\ s.first # b /\ s.back = "user"
        /\ Mine(s, b) /\ Yours(p, b) /\ b \notin ToSet(free) /\ b \notin hdrs
        /\ BpOK(s, buf[b], b \in io)
  BY <1>1
<1>3. /\ proc \in [Proc -> ProcT] /\ buf \in [Buf -> HeaderT] /\ room \in Int
      /\ want \subseteq {"free", "hdr"} /\ asyn \in [cnt : Int, wait : BOOLEAN]
      /\ UNCHANGED <<hdrs, room, asyn, twice>>
  BY DEF IInv, Typed, Got
<1>4. /\ b \notin io /\ "BUSY" \in buf[b].flags /\ "ASYNC" \notin buf[b].flags
      /\ buf[b].blk = s.blk
  BY <1>2 DEF BpOK
<1>5. /\ CallOK(s.call) /\ (s.first # None => s.call.op = "breada" /\ s.blk = s.call.ra)
      /\ s.call.op \in {"bread", "breada"} => s.blk # None
  BY <1>2 DEF Local, HasOK, BackOK, InGetblk, Searching
<1>6. ASSUME NEW r \in ProcT, r.chan = None, r.save = None, r.back = "user", r.call = s.call,
             \/ r.at \in {"hold", "biowait"} /\ r.bp = b /\ r.first = None /\ s.first = None
             \/ r.at = "ra" /\ r.bp = None /\ r.first = b /\ s.first = None
                /\ r.call.op = "breada"
             \/ r.at = "join" /\ r.bp = None /\ r.first = s.first /\ r.call.op = "breada"
      PROVE  Local(r) /\ \A x \in Buf \ {b} : SameTo(s, r, x)
  <2>1. HasOK(r)
    BY <1>2, <1>6 DEF HasOK, InGetblk, Searching, Owning, Broken
  <2>2. BackOK(r)
    BY <1>6 DEF BackOK, Broken, InGetblk, Searching
  <2>3. \A x \in Buf \ {b} : SameTo(s, r, x)
    BY <1>2, <1>6, BioAssumption DEF SameTo, Owning
  <2> QED BY <1>5, <1>6, <2>1, <2>2, <2>3 DEF Local
<1>7. PICK h : h = [s EXCEPT !.at = "hold"]
  OBVIOUS
<1>8. /\ h \in ProcT /\ h.at = "hold" /\ h.bp = b /\ h.first = s.first /\ h.save = None
      /\ h.chan = None /\ h.back = "user" /\ h.call = s.call
  BY ONLY <1>2, <1>7 DEF ProcT, Where
<1>9. PICK w : w = [s EXCEPT !.at = "biowait"]
  OBVIOUS
<1>10. /\ w \in ProcT /\ w.at = "biowait" /\ w.bp = b /\ w.first = s.first /\ w.save = None
       /\ w.chan = None /\ w.back = "user" /\ w.call = s.call
  BY ONLY <1>2, <1>9 DEF ProcT, Where
<1>11. PICK f : f = [s EXCEPT !.at = "ra", !.first = b, !.bp = None]
  OBVIOUS
<1>12. /\ f \in ProcT /\ f.at = "ra" /\ f.bp = None /\ f.first = b /\ f.save = None
       /\ f.chan = None /\ f.back = "user" /\ f.call = s.call
  BY ONLY <1>2, <1>11 DEF ProcT, Where
<1>13. PICK j : j = [s EXCEPT !.at = "join", !.bp = None]
  OBVIOUS
<1>14. /\ j \in ProcT /\ j.at = "join" /\ j.bp = None /\ j.first = s.first /\ j.save = None
       /\ j.chan = None /\ j.back = "user" /\ j.call = s.call
  BY ONLY <1>2, <1>13 DEF ProcT, Where
<1>15. ASSUME NEW r \in ProcT, Go(p, r, {}), UNCHANGED <<buf, free, want, io>>,
              s.first = None, r = h \/ (r = f /\ Is(b, "DONE") /\ s.call.op = "breada")
       PROVE  IInv'
  <2>1. Local(r) /\ \A x \in Buf \ {b} : SameTo(s, r, x)
    BY <1>6, <1>8, <1>12, <1>15
  <2>2. proc'[p] = r /\ r.chan = None /\ r.at \in {"hold", "ra"} /\ r.back = "user"
    BY <1>2, <1>3, <1>8, <1>12, <1>15, GoIs
  <2>3. RunOK(proc[p], p)' /\ WaitOK(proc[p])'
    BY <2>2, RunsOn, WaitsNot
  <2>4. Mine(r, b)
    BY <1>8, <1>12, <1>15 DEF Mine, Owning
  <2>5. MineOK(r, b, buf[b], b \in io)
    BY <1>2, <1>4, <1>8, <1>12, <1>15 DEF MineOK, BpOK, FirstOK, Is, Owning
  <2>6. asyn'.cnt + Num(r.at = "wrote") = asyn.cnt + Num(proc[p].at = "wrote")
    BY <1>2, <1>3, <2>2 DEF Num
  <2>7. /\ asyn' \in [cnt : Int, wait : BOOLEAN] /\ want' \subseteq {"free", "hdr"}
        /\ (asyn.wait => asyn'.wait) /\ (asyn.cnt > 0 => asyn'.cnt > 0)
    BY <1>3, <1>15
  <2> QED BY <1>2, <1>3, <1>4, <1>15, <2>1, <2>3, <2>4, <2>5, <2>6, <2>7, QuietStep
<1>16. ASSUME NEW r \in ProcT, NEW F \in {{"READ"}, {"READ", "ASYNC"}},
              Strategy(p, b, Set(buf, b, F), r), UNCHANGED <<free, want>>, ~Is(b, "DONE"),
              s.call.op \in {"bread", "breada"},
              \/ (r = w \/ (r = f /\ s.call.op = "breada")) /\ s.first = None /\ F = {"READ"}
              \/ r = j /\ s.call.op = "breada" /\ F = {"READ", "ASYNC"}
       PROVE  IInv'
  <2>1. Local(r) /\ \A x \in Buf \ {b} : SameTo(s, r, x)
    BY <1>6, <1>10, <1>12, <1>14, <1>16
  <2>2. PICK t : t = Set(buf, b, F)
    OBVIOUS
  <2>3. Flagged(buf, t, b, buf[b].flags \cup F)
    BY <1>3, <2>2, SetIs DEF Flags
  <2>4. /\ t \in [Buf -> HeaderT] /\ \A x \in Buf \ {b} : Alike(buf[x], t[x])
        /\ t[b].blk = buf[b].blk /\ t[b].flags = buf[b].flags \cup F
    BY <2>3 DEF Flagged, Alike
  <2>5. /\ r.at \in {"biowait", "ra", "join"} /\ r.chan = None /\ r.save # b /\ r.back = "user"
        /\ r.at \in {"bwait", "biowait"} => r.bp = b
        /\ r.at = "ra" <=> r.first = b
        /\ r.at = "join" <=> F = {"READ", "ASYNC"}
    BY <1>2, <1>10, <1>12, <1>14, <1>16
  <2>6. /\ "DONE" \notin t[b].flags /\ "BUSY" \in t[b].flags /\ "READ" \in t[b].flags
        /\ "ASYNC" \in t[b].flags <=> r.at = "join"
        /\ t[b].blk # None
        /\ "STALE" \in buf[b].flags => "STALE" \in t[b].flags
        /\ "BUSY" \in buf[b].flags /\ "WANTED" \in buf[b].flags => "WANTED" \in t[b].flags
    BY <1>4, <1>5, <1>16, <2>4, <2>5 DEF Is
  <2>7. Lists(free', ToSet(free) \ {b})
    BY <1>2, <1>16, NothingTaken
  <2>8. Strategy(p, b, t, r) /\ proc[p].at # "wrote"
    BY <1>2, <1>16, <2>2
  <2> QED BY <1>2, <1>3, <1>4, <1>16, <2>1, <2>4, <2>5, <2>6, <2>7, <2>8, StrategyKeeps
<1>17. ASSUME Brelse(b, buf, [proc EXCEPT ![p] = j]), UNCHANGED <<io, cpu>>,
              s.call.op = "breada"
       PROVE  IInv'
  <2>1. Local(j) /\ \A x \in Buf \ {b} : SameTo(s, j, x)
    BY <1>6, <1>14, <1>17
  <2>2. proc' = Woken([proc EXCEPT ![p] = j], Wanted(buf, b))
    BY <1>17 DEF Brelse
  <2>3. proc'[p] = j
    BY <1>3, <1>14, <2>2, WakeIs
  <2>4. RunOK(proc[p], p)'
    BY <1>14, <2>3, RunsOn
  <2>5. ~Mine(j, b)
    BY <1>2, <1>14 DEF Mine, Owning
  <2>6. \A x \in Buf \ {b} : Alike(buf[x], buf[x])
    BY DEF Alike
  <2> QED BY <1>2, <1>3, <1>4, <1>14, <1>17, <2>1, <2>4, <2>5, <2>6, BrelseKeeps
<1>18. s.call.op = "breada" /\ ~(s.call.op = "breada" /\ s.blk = s.call.ra) => s.first = None
  BY <1>5
<1>19. s.call.op # "breada" => s.first = None
  BY <1>5
<1>20. "breada" \notin {"getblk", "ngeteblk", "bread"}
  OBVIOUS
<1>21. PICK mine : mine = IF s.call.op = "breada" THEN f ELSE w
  OBVIOUS
<1>22. PICK ahead \in BOOLEAN : ahead = (s.call.op = "breada" /\ s.blk = s.call.ra)
  OBVIOUS
<1>23. \/ /\ s.call.op \in {"getblk", "ngeteblk", "bread"}
          /\ Go(p, h, {}) /\ UNCHANGED <<buf, free, want, io>>
       \/ /\ ~ahead /\ s.call.op = "breada" /\ Is(b, "DONE")
          /\ Go(p, mine, {}) /\ UNCHANGED <<buf, free, want, io>>
       \/ /\ ~ahead /\ s.call.op \in {"bread", "breada"} /\ ~Is(b, "DONE")
          /\ Strategy(p, b, Set(buf, b, {"READ"}), mine) /\ UNCHANGED <<free, want>>
       \/ /\ ahead /\ Is(b, "DONE")
          /\ Brelse(b, buf, [proc EXCEPT ![p] = j]) /\ UNCHANGED <<io, cpu>>
       \/ /\ ahead /\ ~Is(b, "DONE")
          /\ Strategy(p, b, Set(buf, b, {"READ", "ASYNC"}), j)
          /\ UNCHANGED <<free, want>>
  BY <1>2, <1>7, <1>9, <1>11, <1>13, <1>21, <1>22 DEF Got
<1>24. CASE s.call.op \in {"getblk", "ngeteblk", "bread"} /\ Go(p, h, {})
            /\ UNCHANGED <<buf, free, want, io>>
  <2>1. s.first = None
    BY <1>19, <1>20, <1>24
  <2>2. h \in ProcT /\ Go(p, h, {}) /\ UNCHANGED <<buf, free, want, io>>
    BY <1>8, <1>24
  <2> QED BY <1>15, <2>1, <2>2
<1>25. CASE ~ahead /\ s.call.op = "breada" /\ Is(b, "DONE") /\ Go(p, mine, {})
            /\ UNCHANGED <<buf, free, want, io>>
  BY <1>12, <1>15, <1>18, <1>21, <1>22, <1>25
<1>26. CASE ~ahead /\ s.call.op \in {"bread", "breada"} /\ ~Is(b, "DONE")
            /\ Strategy(p, b, Set(buf, b, {"READ"}), mine) /\ UNCHANGED <<free, want>>
  <2>1. s.first = None
    BY <1>18, <1>19, <1>22, <1>26
  <2>2. mine \in ProcT /\ (mine = w \/ (mine = f /\ s.call.op = "breada"))
    BY <1>10, <1>12, <1>21
  <2> QED BY <1>16, <1>26, <2>1, <2>2
<1>27. CASE ahead /\ Is(b, "DONE") /\ Brelse(b, buf, [proc EXCEPT ![p] = j])
            /\ UNCHANGED <<io, cpu>>
  BY <1>17, <1>22, <1>27
<1>28. CASE ahead /\ ~Is(b, "DONE") /\ Strategy(p, b, Set(buf, b, {"READ", "ASYNC"}), j)
            /\ UNCHANGED <<free, want>>
  <2>1. s.call.op \in {"bread", "breada"} /\ s.call.op = "breada"
    BY <1>22, <1>28
  <2> QED BY <1>14, <1>16, <1>28, <2>1
<1> QED BY <1>23, <1>24, <1>25, <1>26, <1>27, <1>28

\* biowait, and the end of a synchronous bwrite.
LEMMA BiowaitKeeps ==
    ASSUME IInv, NEW p \in Proc, Biowait(p)
    PROVE  IInv'
<1>1. PICK at \in {"biowait", "bwait"} : Runs(p, at)
  BY DEF Biowait
<1>2. \E s \in ProcT, b \in Buf :
        /\ s = proc[p] /\ s.at = at /\ s.chan = None /\ s.bp = b /\ b # None
        /\ cpu \in {None, p} /\ Local(s)
        /\ s.save = None /\ s.back # "getfree" /\ s.back # "bflush"
        /\ at # "bwait" => s.back = "user"
        /\ s.first = None
        /\ Mine(s, b) /\ Yours(p, b) /\ b \notin ToSet(free) /\ b \notin hdrs
        /\ BpOK(s, buf[b], b \in io)
        /\ \A x \in Buf \ {b} : x # s.first => SameTo(s, User, x)
  BY <1>1, OwnerIs
<1>3. PICK s \in ProcT, b \in Buf :
        /\ s = proc[p] /\ s.at = at /\ s.chan = None /\ s.bp = b /\ b # None
        /\ cpu \in {None, p} /\ Local(s)
        /\ s.save = None /\ s.back # "getfree" /\ s.back # "bflush"
        /\ at # "bwait" => s.back = "user"
        /\ s.first = None
        /\ Mine(s, b) /\ Yours(p, b) /\ b \notin ToSet(free) /\ b \notin hdrs
        /\ BpOK(s, buf[b], b \in io)
        /\ \A x \in Buf \ {b} : x # s.first => SameTo(s, User, x)
  BY ONLY <1>2
<1>4. /\ proc \in [Proc -> ProcT] /\ buf \in [Buf -> HeaderT] /\ room \in Int
      /\ want \subseteq {"free", "hdr"} /\ asyn \in [cnt : Int, wait : BOOLEAN]
      /\ UNCHANGED <<hdrs, room, asyn, io, twice>>
  BY DEF IInv, Typed, Biowait
<1>5. /\ "BUSY" \in buf[b].flags /\ "ASYNC" \notin buf[b].flags
      /\ b \in io \/ "DONE" \in buf[b].flags
  BY <1>3 DEF BpOK
<1>6. b \in io => "DONE" \notin buf[b].flags
  BY YoursIs DEF IInv
<1>7. CallOK(s.call) /\ (s.back = "blkflush" => s.call.blk # None)
      /\ s.back \in {"user", "blkflush"}
  BY <1>3 DEF Local, BackOK
<1>8. \A x \in Buf \ {b} : ~(x = s.first) /\ ~(x = s.save) /\ ~(x = s.bp)
  BY <1>3, BioAssumption
<1>9. ASSUME ~Is(b, "DONE"), buf' = Set(buf, b, {"WANTED"}), Sleep(p, s.at, b),
             UNCHANGED <<free, want>>
      PROVE  IInv'
  <2>1. PICK r : r = [s EXCEPT !.at = s.at, !.chan = b]
    OBVIOUS
  <2>2. s \in ProcT /\ b \in Buf /\ at \in {"biowait", "bwait"} /\ s.at = at
    BY <1>3
  <2>3. /\ r \in ProcT /\ r.at = at /\ r.bp = s.bp /\ r.first = s.first /\ r.save = s.save
        /\ r.chan = b /\ r.back = s.back /\ r.call = s.call
    BY ONLY <2>1, <2>2 DEF ProcT, Where, Chan
  <2>4. Go(p, r, {})
    BY <1>3, <1>9, <2>1 DEF Sleep
  <2>5. proc'[p] = r /\ cpu' = None
    BY <1>3, <1>4, <2>3, <2>4, GoIs
  <2>6. HasOK(r) /\ BackOK(r)
    BY <1>3, <1>7, <2>2, <2>3 DEF HasOK, BackOK, InGetblk, Searching, Owning, Broken
  <2>7. Local(r)
    BY <1>7, <2>3, <2>6 DEF Local
  <2>8. Flagged(buf, buf', b, buf[b].flags \cup {"WANTED"})
    BY <1>4, <1>9, SetIs DEF Flags
  <2>9. /\ buf' \in [Buf -> HeaderT] /\ \A x \in Buf \ {b} : Alike(buf[x], buf'[x])
        /\ buf'[b].blk = buf[b].blk /\ buf'[b].flags = buf[b].flags \cup {"WANTED"}
    BY <2>8 DEF Flagged, Alike
  <2>10. b \in io
    BY <1>5, <1>9 DEF Is
  <2>11. RunOK(proc[p], p)'
    <3>1. p # None
      BY BioAssumption
    <3> QED BY <1>3, <2>2, <2>3, <2>5, <3>1 DEF RunOK
  <2>12. WaitOK(proc[p])'
    <3>1. r.chan \in Buf /\ r.chan \notin {"free", "hdr", "async"}
      BY <2>3, BioAssumption
    <3>2. Is(b, "BUSY")' /\ Is(b, "WANTED")'
      BY <1>5, <2>9 DEF Is
    <3> QED BY <1>3, <1>4, <2>2, <2>3, <2>5, <2>10, <3>1, <3>2 DEF WaitOK, Is
  <2>13. Mine(r, b) /\ MineOK(r, b, buf'[b], b \in io)
    BY <1>3, <1>5, <2>2, <2>3, <2>9, <2>10 DEF Mine, MineOK, BpOK, Owning
  <2>14. \A x \in Buf \ {b} : SameTo(s, r, x)
    BY <1>3, <2>3 DEF SameTo
  <2>15. asyn'.cnt + Num(r.at = "wrote") = asyn.cnt + Num(proc[p].at = "wrote")
    BY <1>3, <1>4, <2>2, <2>3 DEF Num
  <2>16. /\ asyn' \in [cnt : Int, wait : BOOLEAN] /\ (asyn.wait => asyn'.wait)
         /\ asyn.cnt > 0 => asyn'.cnt > 0
         /\ want \subseteq want' /\ want' \subseteq {"free", "hdr"}
         /\ "ASYNC" \notin buf'[b].flags
         /\ buf'[b].flags \in {buf[b].flags, buf[b].flags \cup {"WANTED"}}
    BY <1>4, <1>5, <1>9, <2>9
  <2> QED BY <1>3, <1>4, <1>5, <1>9, <2>3, <2>4, <2>7, <2>9, <2>11, <2>12, <2>13, <2>14, <2>15,
             <2>16, MarkStep
<1>10. ASSUME Is(b, "DONE"), s.at = "biowait", Go(p, [s EXCEPT !.at = "hold"], {}),
              UNCHANGED <<buf, free, want>>
       PROVE  IInv'
  <2>1. PICK r : r = [s EXCEPT !.at = "hold"]
    OBVIOUS
  <2>2. /\ r \in ProcT /\ r.at = "hold" /\ r.bp = b /\ r.first = None /\ r.save = None
        /\ r.chan = None /\ r.back = s.back /\ r.call = s.call
    BY ONLY <1>3, <2>1 DEF ProcT, Where
  <2>3. s.back = "user"
    BY <1>3, <1>10
  <2>4. HasOK(r) /\ BackOK(r)
    BY <1>3, <2>2, <2>3 DEF HasOK, BackOK, InGetblk, Searching, Owning, Broken
  <2>5. Local(r)
    BY <1>7, <2>2, <2>4 DEF Local
  <2>6. Go(p, r, {})
    BY <1>10, <2>1
  <2>7. proc'[p] = r
    BY <1>3, <1>4, <2>2, <2>6, GoIs
  <2>8. RunOK(proc[p], p)' /\ WaitOK(proc[p])'
    BY <2>2, <2>3, <2>7, RunsOn, WaitsNot
  <2>9. Mine(r, b) /\ MineOK(r, b, buf[b], b \in io)
    BY <1>3, <1>5, <1>6, <1>10, <2>2 DEF Mine, MineOK, BpOK, Owning, Is
  <2>10. \A x \in Buf \ {b} : SameTo(s, r, x)
    BY <1>3, <2>2 DEF SameTo
  <2>11. asyn'.cnt + Num(r.at = "wrote") = asyn.cnt + Num(proc[p].at = "wrote")
    BY <1>3, <1>4, <2>2 DEF Num
  <2>12. /\ asyn' \in [cnt : Int, wait : BOOLEAN] /\ want' \subseteq {"free", "hdr"}
         /\ (asyn.wait => asyn'.wait) /\ (asyn.cnt > 0 => asyn'.cnt > 0)
    BY <1>4, <1>10
  <2> QED BY <1>3, <1>4, <1>5, <1>10, <2>2, <2>5, <2>6, <2>8, <2>9, <2>10, <2>11, <2>12, QuietStep
<1>11. PICK r : r = IF s.back = "user" THEN User
                    ELSE [s EXCEPT !.at = s.back, !.back = "user", !.bp = None]
  OBVIOUS
<1>12. ASSUME Is(b, "DONE"), s.at = "bwait", Brelse(b, buf, [proc EXCEPT ![p] = r]),
              cpu' = IF s.back = "user" THEN None ELSE p
       PROVE  IInv'
  <2>1. /\ r \in ProcT /\ r.at = s.back /\ r.bp = None /\ r.first = None /\ r.save = None
        /\ r.chan = None /\ r.back = "user" /\ CallOK(r.call)
        /\ s.back = "blkflush" => r.call.blk # None
    <3>1. CASE s.back = "user"
      BY <1>11, <3>1, UserIs DEF User, NoCall, CallOK
    <3>2. CASE s.back = "blkflush"
      <4>1. r = [s EXCEPT !.at = "blkflush", !.back = "user", !.bp = None]
        BY <1>11, <3>2
      <4>2. /\ r \in ProcT /\ r.at = "blkflush" /\ r.bp = None /\ r.first = None /\ r.save = None
            /\ r.chan = None /\ r.back = "user" /\ r.call = s.call
        BY ONLY <1>3, <4>1 DEF ProcT, Where
      <4> QED BY <1>7, <3>2, <4>2
    <3> QED BY <1>7, <3>1, <3>2
  <2>2. HasOK(r) /\ BackOK(r)
    BY <1>7, <2>1 DEF HasOK, BackOK, InGetblk, Searching, Owning, Broken
  <2>3. Local(r)
    BY <2>1, <2>2 DEF Local
  <2>4. proc' = Woken([proc EXCEPT ![p] = r], Wanted(buf, b))
    BY <1>12 DEF Brelse
  <2>5. proc'[p] = r
    BY <1>4, <2>1, <2>4, WakeIs
  <2>6. RunOK(proc[p], p)'
    BY <1>7, <2>1, <2>5, RunsOn
  <2>7. ~Mine(r, b)
    BY <1>3, <2>1 DEF Mine, Owning
  <2>8. \A x \in Buf \ {b} : Alike(buf[x], buf[x])
    BY DEF Alike
  <2>9. b \notin io /\ r.at # "wrote" /\ proc[p].at # "wrote" /\ cpu' \in {None, p}
    BY <1>3, <1>6, <1>7, <1>12, <2>1 DEF Is
  <2>10. \A x \in Buf \ {b} : SameTo(s, r, x)
    BY <1>3, <1>7, <1>8, <2>1 DEF SameTo, Owning
  <2> QED BY <1>3, <1>4, <1>5, <1>12, <2>1, <2>3, <2>6, <2>7, <2>8, <2>9, <2>10, BrelseKeeps
<1> QED BY <1>3, <1>9, <1>10, <1>11, <1>12 DEF Biowait

-----------------------------------------------------------------------------
(* The caller gives the buffer back; blkflush and bflush.                  *)

\* The headers after a change of the block.
LEMMA ModifiedIs ==
    ASSUME buf \in [Buf -> HeaderT], NEW b \in Buf
    PROVE  /\ Modified(b) \in [Buf -> HeaderT]
           /\ \A x \in Buf : /\ Modified(b)[x].blk = buf[x].blk
                             /\ Modified(b)[x].size = buf[x].size
                             /\ Modified(b)[x].flags = buf[x].flags
<1>1. ASSUME NEW x \in Buf
      PROVE  /\ Modified(b)[x] \in HeaderT /\ Modified(b)[x].blk = buf[x].blk
             /\ Modified(b)[x].size = buf[x].size /\ Modified(b)[x].flags = buf[x].flags
  <2>1. PICK h \in HeaderT : h = buf[x]
    OBVIOUS
  <2>2. PICK f \in BOOLEAN : f = IF h.blk = buf[b].blk THEN x = b ELSE h.fresh
    BY DEF HeaderT
  <2>3. Modified(b)[x] = [h EXCEPT !.fresh = f]
    BY <2>1, <2>2 DEF Modified
  <2>4. PICK k : k = [h EXCEPT !.fresh = f]
    OBVIOUS
  <2>5. k \in HeaderT /\ k.blk = h.blk /\ k.size = h.size /\ k.flags = h.flags
    BY <2>4 DEF HeaderT
  <2> QED BY <2>1, <2>3, <2>4, <2>5
<1>2. Modified(b) = [x \in Buf |-> Modified(b)[x]]
  BY DEF Modified
<1> QED BY <1>1, <1>2

\* The caller's buffer, changed and marked.
LEMMA GivenIs ==
    ASSUME IInv, NEW b \in Buf, NEW F \in SUBSET Flags, NEW t, t = Set(Modified(b), b, F)
    PROVE  /\ t \in [Buf -> HeaderT] /\ \A x \in Buf \ {b} : Alike(buf[x], t[x])
           /\ t[b].blk = buf[b].blk /\ t[b].flags = buf[b].flags \cup F
<1>1. buf \in [Buf -> HeaderT]
  BY DEF IInv, Typed
<1>2. PICK m \in [Buf -> HeaderT] :
        /\ m = Modified(b)
        /\ \A x \in Buf : /\ m[x].blk = buf[x].blk /\ m[x].size = buf[x].size
                          /\ m[x].flags = buf[x].flags
  BY <1>1, ModifiedIs
<1>3. Flagged(m, t, b, m[b].flags \cup F)
  BY <1>2, SetIs
<1> QED BY <1>2, <1>3 DEF Flagged, Alike

\* The caller gives its buffer back, by one of the four calls.
LEMMA FinishKeeps ==
    ASSUME IInv, NEW p \in Proc, Finish(p)
    PROVE  IInv'
<1>1. \E s \in ProcT, b \in Buf :
        /\ s = proc[p] /\ s.at = "hold" /\ s.chan = None /\ s.bp = b /\ b # None
        /\ cpu \in {None, p} /\ Local(s)
        /\ s.save = None /\ s.back = "user" /\ s.first = None
        /\ Mine(s, b) /\ Yours(p, b) /\ b \notin ToSet(free) /\ b \notin hdrs
        /\ BpOK(s, buf[b], b \in io)
  BY OwnerIs DEF Finish
<1>2. PICK s \in ProcT, b \in Buf :
        /\ s = proc[p] /\ s.at = "hold" /\ s.chan = None /\ s.bp = b /\ b # None
        /\ cpu \in {None, p} /\ Local(s)
        /\ s.save = None /\ s.back = "user" /\ s.first = None
        /\ Mine(s, b) /\ Yours(p, b) /\ b \notin ToSet(free) /\ b \notin hdrs
        /\ BpOK(s, buf[b], b \in io)
  BY ONLY <1>1
<1>3. /\ proc \in [Proc -> ProcT] /\ buf \in [Buf -> HeaderT]
      /\ UNCHANGED <<hdrs, room, asyn, twice>>
  BY DEF IInv, Typed, Finish
<1>4. b \notin io /\ "BUSY" \in buf[b].flags /\ "ASYNC" \notin buf[b].flags
  BY <1>2 DEF BpOK
<1>5. ASSUME NEW t \in [Buf -> HeaderT], Brelse(b, t, [proc EXCEPT ![p] = User]), cpu' = None,
             UNCHANGED io, \A x \in Buf \ {b} : Alike(buf[x], t[x]), t[b].blk = buf[b].blk,
             buf[b].flags \subseteq t[b].flags
      PROVE  IInv'
  <2>1. PICK r \in ProcT : r = User /\ Local(r)
    BY UserIs
  <2>2. /\ r.at = "user" /\ r.bp = None /\ r.first = None /\ r.save = None /\ r.chan = None
        /\ r.back = "user"
    BY <2>1 DEF User
  <2>3. proc' = Woken([proc EXCEPT ![p] = r], Wanted(t, b))
    BY <1>5, <2>1 DEF Brelse
  <2>4. proc'[p] = r
    BY <1>3, <2>2, <2>3, WakeIs
  <2>5. RunOK(proc[p], p)'
    BY <2>2, <2>4, RunsOn
  <2>6. ~Mine(r, b)
    BY <1>2, <2>2 DEF Mine, Owning
  <2>7. \A x \in Buf \ {b} : SameTo(s, r, x)
    BY <1>2, <2>2 DEF SameTo, Owning
  <2>8. Brelse(b, t, [proc EXCEPT ![p] = r]) /\ proc[p].at # "wrote"
    BY <1>2, <1>5, <2>1
  <2> QED BY <1>2, <1>3, <1>4, <1>5, <2>1, <2>2, <2>5, <2>6, <2>7, <2>8, BrelseKeeps
<1>6. CASE Brelse(b, buf, [proc EXCEPT ![p] = User]) /\ cpu' = None /\ UNCHANGED io
  <2>1. \A x \in Buf \ {b} : Alike(buf[x], buf[x])
    BY DEF Alike
  <2> QED BY <1>3, <1>5, <1>6, <2>1
<1>7. CASE /\ Brelse(b, Set(Modified(b), b, {"DELWRI", "DONE"}), [proc EXCEPT ![p] = User])
           /\ cpu' = None /\ UNCHANGED io
  <2>1. PICK t : t = Set(Modified(b), b, {"DELWRI", "DONE"})
    OBVIOUS
  <2>2. /\ t \in [Buf -> HeaderT] /\ \A x \in Buf \ {b} : Alike(buf[x], t[x])
        /\ t[b].blk = buf[b].blk /\ t[b].flags = buf[b].flags \cup {"DELWRI", "DONE"}
    BY <2>1, GivenIs DEF Flags
  <2> QED BY <1>5, <1>7, <2>1, <2>2
<1>8. ASSUME NEW F \in {{"ASYNC"}, {}}, Bwrite(p, b, Set(Modified(b), b, F), s),
             UNCHANGED <<free, want>>
      PROVE  IInv'
  <2>1. PICK t : t = Set(Modified(b), b, F)
    OBVIOUS
  <2>2. /\ t \in [Buf -> HeaderT] /\ \A x \in Buf \ {b} : Alike(buf[x], t[x])
        /\ t[b].blk = buf[b].blk /\ t[b].flags = buf[b].flags \cup F
    BY <2>1, GivenIs DEF Flags
  <2>3. Bwrite(p, b, t, s)
    BY <1>8, <2>1
  <2>4. Lists(free', ToSet(free) \ {b})
    BY <1>2, <1>8, NothingTaken
  <2>5. /\ CallOK(s.call) /\ s.first # b /\ s.save # b
        /\ s.save # None => s.back = "getfree" /\ s.save # s.first
        /\ s.first # None => s.call.op = "breada" /\ s.back = "getfree"
        /\ s.back = "getfree" /\ s.call.op = "breada" /\ s.blk # s.call.ra => s.first = None
        /\ s.back = "getfree" => s.slept \/ s.blk = None \/ ~Incore(s.blk)
        /\ s.back = "blkflush" => s.call.blk # None
        /\ s.back \in IF "ASYNC" \in t[b].flags THEN {"user", "getfree", "bflush"}
                      ELSE {"user", "blkflush"}
    BY <1>2 DEF Local
  <2>6. /\ "STALE" \in buf[b].flags => "STALE" \in t[b].flags
        /\ "BUSY" \in t[b].flags
        /\ "BUSY" \in buf[b].flags /\ "WANTED" \in buf[b].flags => "WANTED" \in t[b].flags
    BY <1>4, <2>2
  <2>7. /\ s.at # "wrote" /\ (s.at \in Owning => s.bp = b) /\ cpu \in {None, p}
        /\ \A x \in Buf \ {b} : x = s.first <=> x = proc[p].first
        /\ \A x \in Buf \ {b} : x = s.save <=> x = proc[p].save
    BY <1>2
  <2> QED BY <1>2, <1>3, <1>4, <1>8, <2>2, <2>3, <2>4, <2>5, <2>6, <2>7, BwriteKeeps
<1>9. \/ Brelse(b, buf, [proc EXCEPT ![p] = User]) /\ cpu' = None /\ UNCHANGED io
      \/ /\ Brelse(b, Set(Modified(b), b, {"DELWRI", "DONE"}), [proc EXCEPT ![p] = User])
         /\ cpu' = None /\ UNCHANGED io
      \/ \E F \in {{"ASYNC"}, {}} : Bwrite(p, b, Set(Modified(b), b, F), s)
                                   /\ UNCHANGED <<free, want>>
  BY <1>2 DEF Finish
<1> QED BY <1>6, <1>7, <1>8, <1>9

\* What is known of a process that flushes.
LEMMA FlusherIs ==
    ASSUME IInv, NEW p \in Proc, NEW at \in {"blkflush", "bflush"}, Runs(p, at)
    PROVE  \E s \in ProcT :
             /\ s = proc[p] /\ s.at = at /\ s.chan = None /\ cpu \in {None, p} /\ Local(s)
             /\ s.bp = None /\ s.save = None /\ s.first = None /\ s.back = "user"
             /\ at = "blkflush" => s.call.blk # None
<1>1. PICK s \in ProcT : /\ s = proc[p] /\ s.at = at /\ s.chan = None /\ cpu \in {None, p}
                         /\ Local(s)
  BY RunsIs
<1>2. s.back = "user" /\ (at = "blkflush" => s.call.blk # None)
  BY <1>1 DEF Local, BackOK, Broken
<1>3. s.bp = None /\ s.save = None /\ s.first = None
  BY <1>1, <1>2 DEF Local, HasOK, InGetblk, Searching, Owning, Broken
<1> QED BY <1>1, <1>2, <1>3

\* p writes a buffer from the available list, and is back in its loop.
LEMMA FlushKeeps ==
    ASSUME IInv, NEW p \in Proc, NEW s \in ProcT, s = proc[p], s.at \in {"blkflush", "bflush"},
           s.chan = None, cpu \in {None, p}, Local(s), s.bp = None, s.save = None,
           s.first = None, s.back = "user", s.at = "blkflush" => s.call.blk # None,
           NEW b \in ToSet(free), Lists(free', ToSet(free) \ {b}),
           NEW F \in {{"BUSY"}, {"BUSY", "ASYNC"}}, "ASYNC" \in F <=> s.at = "bflush",
           Bwrite(p, b, Set(buf, b, F), [s EXCEPT !.back = s.at]),
           UNCHANGED <<hdrs, room, want, asyn, twice>>
    PROVE  IInv'
<1>1. proc \in [Proc -> ProcT] /\ buf \in [Buf -> HeaderT] /\ b \in Buf
  BY ListIs DEF IInv, Typed, Places
<1>2. /\ Yours(p, b) /\ b \notin hdrs /\ b \notin io
      /\ buf[b].flags \cap {"BUSY", "WANTED", "ASYNC", "READ"} = {}
  BY <1>1, YoursIs DEF IInv
<1>3. PICK t : t = Set(buf, b, F)
  OBVIOUS
<1>4. Flagged(buf, t, b, buf[b].flags \cup F)
  BY <1>1, <1>3, SetIs DEF Flags
<1>5. /\ t \in [Buf -> HeaderT] /\ \A x \in Buf \ {b} : Alike(buf[x], t[x])
      /\ t[b].blk = buf[b].blk /\ t[b].flags = buf[b].flags \cup F
  BY <1>4 DEF Flagged, Alike
<1>6. PICK r : r = [s EXCEPT !.back = s.at]
  OBVIOUS
<1>7. /\ r \in ProcT /\ r.chan = None /\ r.first = None /\ r.save = None /\ r.call = s.call
      /\ r.back = s.at
  <2>1. s \in ProcT /\ s.chan = None /\ s.first = None /\ s.save = None
    OBVIOUS
  <2> QED BY ONLY <1>6, <2>1 DEF ProcT
<1>8. Bwrite(p, b, t, r)
  BY <1>3, <1>6
<1>9. /\ "STALE" \in buf[b].flags => "STALE" \in t[b].flags
      /\ "BUSY" \in t[b].flags /\ "ASYNC" \notin buf[b].flags
      /\ "BUSY" \in buf[b].flags /\ "WANTED" \in buf[b].flags => "WANTED" \in t[b].flags
      /\ "ASYNC" \in t[b].flags <=> s.at = "bflush"
  BY <1>2, <1>5
<1>10. b # None /\ None \notin Buf
  BY <1>1, BioAssumption
<1>11. /\ CallOK(r.call) /\ r.first # b /\ r.save # b
       /\ r.back \in IF "ASYNC" \in t[b].flags THEN {"user", "getfree", "bflush"}
                     ELSE {"user", "blkflush"}
       /\ r.back # "getfree" /\ (r.back = "blkflush" => r.call.blk # None)
  BY <1>7, <1>9, <1>10 DEF Local
<1>12. /\ proc[p].at # "wrote" /\ proc[p].at \notin Owning
       /\ \A x \in Buf \ {b} : x = r.first <=> x = proc[p].first
       /\ \A x \in Buf \ {b} : x = r.save <=> x = proc[p].save
  BY <1>7 DEF Owning
<1> QED BY <1>1, <1>2, <1>5, <1>7, <1>8, <1>9, <1>11, <1>12, BwriteKeeps

\* p returns from the cache, or goes on to wait; buffers may be marked.
LEMMA LeaveKeeps ==
    ASSUME IInv, NEW p \in Proc, NEW s \in ProcT, s = proc[p], s.at \in {"blkflush", "bflush"},
           cpu \in {None, p}, s.bp = None, s.save = None, s.first = None,
           NEW r \in ProcT, Go(p, r, {}), Local(r), r.chan = None, r.at \in {"user", "bdwait"},
           r.bp = None, r.save = None, r.first = None, r.back = "user",
           UNCHANGED <<free, hdrs, room, want, asyn, io, twice>>,
           buf' \in [Buf -> HeaderT], \A x \in Buf : Alike(buf[x], buf'[x])
    PROVE  IInv'
<1>1. proc'[p] = r
  BY GoIs DEF IInv, Typed
<1>2. RunOK(proc[p], p)' /\ WaitOK(proc[p])'
  BY <1>1, RunsOn, WaitsNot
<1>3. \A x \in Buf : SameTo(proc[p], r, x)
  BY BioAssumption DEF SameTo
<1>4. proc[p].at # "wrote" /\ r.at # "wrote"
  OBVIOUS
<1> QED BY <1>2, <1>3, <1>4, MarkStep, BioAssumption DEF IInv, Typed, Num

\* blkflush writes the block, sleeps for its buffer, or returns.
LEMMA BlkflushKeeps ==
    ASSUME IInv, NEW p \in Proc, Blkflush(p)
    PROVE  IInv'
<1>1. \E s \in ProcT :
        /\ s = proc[p] /\ s.at = "blkflush" /\ s.chan = None /\ cpu \in {None, p} /\ Local(s)
        /\ s.bp = None /\ s.save = None /\ s.first = None /\ s.back = "user"
        /\ s.call.blk # None
  BY FlusherIs DEF Blkflush
<1>2. PICK s \in ProcT :
        /\ s = proc[p] /\ s.at = "blkflush" /\ s.chan = None /\ cpu \in {None, p} /\ Local(s)
        /\ s.bp = None /\ s.save = None /\ s.first = None /\ s.back = "user"
        /\ s.call.blk # None
  BY ONLY <1>1
<1>3. /\ proc \in [Proc -> ProcT] /\ buf \in [Buf -> HeaderT]
      /\ UNCHANGED <<hdrs, room, want, asyn, twice>>
  BY DEF IInv, Typed, Blkflush
<1>4. ASSUME NEW b \in Matches(s.call.blk), Is(b, "BUSY"), buf' = Set(buf, b, {"WANTED"}),
             Sleep(p, "blkflush", b), UNCHANGED <<free, io>>
      PROVE  IInv'
  <2>1. b \in Buf /\ buf[b].blk = s.call.blk
    BY DEF Matches
  <2>2. PICK r : r = [s EXCEPT !.at = "blkflush", !.chan = b]
    OBVIOUS
  <2>3. /\ r \in ProcT /\ r.at = "blkflush" /\ r.bp = None /\ r.first = None /\ r.save = None
        /\ r.chan = b /\ r.back = "user" /\ r.call = s.call
    BY ONLY <1>2, <2>1, <2>2 DEF ProcT, Where, Chan
  <2>4. Go(p, r, {})
    BY <1>2, <1>4, <2>2 DEF Sleep
  <2>5. b # None /\ p # None /\ b \notin {"free", "hdr", "async"}
    BY <2>1, BioAssumption
  <2>6. proc'[p] = r /\ cpu' = None
    BY <1>3, <2>3, <2>4, <2>5, GoIs
  <2>7. HasOK(r) /\ BackOK(r)
    BY <1>2, <2>3 DEF HasOK, BackOK, InGetblk, Searching, Owning, Broken
  <2>8. Local(r)
    BY <1>2, <2>3, <2>7 DEF Local
  <2>9. Flagged(buf, buf', b, buf[b].flags \cup {"WANTED"})
    BY <1>3, <1>4, <2>1, SetIs DEF Flags
  <2>10. /\ buf' \in [Buf -> HeaderT] /\ \A x \in Buf : Alike(buf[x], buf'[x])
         /\ "BUSY" \in buf'[b].flags /\ "WANTED" \in buf'[b].flags
    BY <1>2, <1>4, <2>1, <2>9 DEF Flagged, Alike, Is
  <2>11. RunOK(proc[p], p)' /\ WaitOK(proc[p])'
    BY <2>3, <2>5, <2>6, <2>10 DEF RunOK, WaitOK, Is
  <2>12. \A x \in Buf : SameTo(s, r, x)
    BY <1>2, <2>3 DEF SameTo, Owning
  <2>13. s.at # "wrote" /\ r.at # "wrote"
    BY <1>2, <2>3
  <2> QED BY <1>2, <1>3, <1>4, <2>3, <2>4, <2>8, <2>10, <2>11, <2>12, <2>13, MarkStep,
             BioAssumption DEF IInv, Typed, Num
<1>5. ASSUME NEW b \in Matches(s.call.blk), ~Is(b, "BUSY"), free' = Notavail(b),
             Bwrite(p, b, Set(buf, b, {"BUSY"}), [s EXCEPT !.back = "blkflush"])
      PROVE  IInv'
  <2>1. b \in Buf /\ buf[b].blk # None
    BY <1>2 DEF Matches
  <2>2. b \in ToSet(free)
    BY <1>5, <2>1, NotBusyIsFree
  <2>3. Lists(free', ToSet(free) \ {b})
    BY <1>5, <2>2, NotavailIs DEF IInv, Typed, Places
  <2>4. Bwrite(p, b, Set(buf, b, {"BUSY"}), [s EXCEPT !.back = s.at])
    BY <1>2, <1>5
  <2> QED BY <1>2, <1>3, <2>2, <2>3, <2>4, FlushKeeps
<1>6. ASSUME Go(p, User, {}), UNCHANGED <<buf, free, io>>
      PROVE  IInv'
  <2>1. PICK r \in ProcT : r = User /\ Local(r)
    BY UserIs
  <2>2. /\ r.at = "user" /\ r.bp = None /\ r.first = None /\ r.save = None /\ r.chan = None
        /\ r.back = "user"
    BY <2>1 DEF User
  <2>3. buf' \in [Buf -> HeaderT] /\ \A x \in Buf : Alike(buf[x], buf'[x])
    BY <1>3, <1>6 DEF Alike
  <2> QED BY <1>2, <1>3, <1>6, <2>1, <2>2, <2>3, LeaveKeeps
<1> QED BY <1>2, <1>4, <1>5, <1>6 DEF Blkflush

\* bflush writes one delayed write after the other, and invalidates on a close.
LEMMA BflushKeeps ==
    ASSUME IInv, NEW p \in Proc, Bflush(p)
    PROVE  IInv'
<1>1. \E s \in ProcT :
        /\ s = proc[p] /\ s.at = "bflush" /\ s.chan = None /\ cpu \in {None, p} /\ Local(s)
        /\ s.bp = None /\ s.save = None /\ s.first = None /\ s.back = "user"
  BY FlusherIs DEF Bflush
<1>2. PICK s \in ProcT :
        /\ s = proc[p] /\ s.at = "bflush" /\ s.chan = None /\ cpu \in {None, p} /\ Local(s)
        /\ s.bp = None /\ s.save = None /\ s.first = None /\ s.back = "user"
  BY ONLY <1>1
<1>3. /\ proc \in [Proc -> ProcT] /\ buf \in [Buf -> HeaderT] /\ free \in Seq(Buf)
      /\ IsInjective(free) /\ UNCHANGED <<hdrs, room, want, asyn, twice>>
  BY DEF IInv, Typed, Places, Bflush
<1>4. PICK i : i = SelectInSeq(free, LAMBDA b : Is(b, "DELWRI"))
  OBVIOUS
<1>5. ASSUME i # 0, free' = RemoveAt(free, i),
             Bwrite(p, free[i], Set(buf, free[i], {"BUSY", "ASYNC"}),
                    [s EXCEPT !.back = "bflush"])
      PROVE  IInv'
  <2>1. i \in 1 .. Len(free)
    BY <1>3, <1>4, <1>5, FirstDelwri
  <2>2. PICK b : b = free[i]
    OBVIOUS
  <2>3. b \in ToSet(free)
    <3>1. DOMAIN free = 1 .. Len(free)
      BY <1>3, LenProperties
    <3> QED BY <2>1, <2>2, <3>1 DEF ToSet
  <2>4. Lists(free', ToSet(free) \ {b})
    BY <1>3, <1>5, <2>1, <2>2, RemoveAtIs
  <2>5. Bwrite(p, b, Set(buf, b, {"BUSY", "ASYNC"}), [s EXCEPT !.back = s.at])
    BY <1>2, <1>5, <2>2
  <2> QED BY <1>2, <1>3, <2>3, <2>4, <2>5, FlushKeeps
<1>6. PICK r : r = IF s.call.op = "sync" THEN [s EXCEPT !.at = "bdwait"] ELSE User
  OBVIOUS
<1>7. /\ r \in ProcT /\ Local(r) /\ r.chan = None /\ r.at \in {"user", "bdwait"} /\ r.bp = None
      /\ r.save = None /\ r.first = None /\ r.back = "user"
  <2>1. CASE s.call.op = "sync"
    <3>1. r = [s EXCEPT !.at = "bdwait"]
      BY <1>6, <2>1
    <3>2. /\ r \in ProcT /\ r.chan = None /\ r.at = "bdwait" /\ r.bp = None /\ r.call = s.call
          /\ r.save = None /\ r.first = None /\ r.back = "user"
      BY ONLY <1>2, <3>1 DEF ProcT, Where
    <3>3. HasOK(r) /\ BackOK(r)
      BY <3>2 DEF HasOK, BackOK, InGetblk, Searching, Owning, Broken
    <3> QED BY <1>2, <3>2, <3>3 DEF Local
  <2>2. CASE s.call.op # "sync"
    BY <1>6, <2>2, UserIs DEF User
  <2> QED BY <2>1, <2>2
<1>8. ASSUME Go(p, r, {}), UNCHANGED <<free, io>>,
             \/ buf' = [b \in Buf |-> IF buf[b].blk = None THEN buf[b]
                          ELSE [buf[b] EXCEPT !.flags = @ \cup {"STALE", "AGE"}]]
             \/ UNCHANGED buf
      PROVE  IInv'
  <2>1. CASE buf' = [b \in Buf |-> IF buf[b].blk = None THEN buf[b]
                       ELSE [buf[b] EXCEPT !.flags = @ \cup {"STALE", "AGE"}]]
    <3>1. ASSUME NEW x \in Buf
          PROVE  buf'[x] \in HeaderT /\ Alike(buf[x], buf'[x])
      <4>1. PICK h \in HeaderT : h = buf[x]
        BY <1>3
      <4>2. PICK k : k = [h EXCEPT !.flags = @ \cup {"STALE", "AGE"}]
        OBVIOUS
      <4>3. /\ k \in HeaderT /\ k.blk = h.blk /\ k.size = h.size
            /\ k.flags = h.flags \cup {"STALE", "AGE"}
        BY <4>2 DEF HeaderT, Flags
      <4>4. buf'[x] = IF h.blk = None THEN h ELSE k
        BY <2>1, <4>1, <4>2
      <4> QED BY <4>1, <4>3, <4>4 DEF Alike
    <3>2. buf' = [x \in Buf |-> buf'[x]]
      BY <2>1
    <3>3. buf' \in [Buf -> HeaderT]
      BY <3>1, <3>2
    <3> QED BY <1>2, <1>3, <1>7, <1>8, <3>1, <3>3, LeaveKeeps
  <2>2. CASE UNCHANGED buf
    <3>1. buf' \in [Buf -> HeaderT] /\ \A x \in Buf : Alike(buf[x], buf'[x])
      BY <1>3, <2>2 DEF Alike
    <3> QED BY <1>2, <1>3, <1>7, <1>8, <3>1, LeaveKeeps
  <2> QED BY <1>8, <2>1, <2>2
<1>9. CASE i # 0
  BY <1>2, <1>4, <1>5, <1>9 DEF Bflush
<1>10. CASE i = 0
  BY <1>2, <1>4, <1>6, <1>8, <1>10 DEF Bflush
<1> QED BY <1>9, <1>10

\* biodone is through with b, which p has: a piece by piece request.
LEMMA BreakupKeeps ==
    ASSUME IInv, NEW p \in Proc, Breakup(p)
    PROVE  IInv'
<1>1. PICK s \in ProcT : /\ s = proc[p] /\ s.at = "breakup" /\ s.chan = None
                         /\ cpu \in {None, p} /\ Local(s) /\ RunOK(s, p)
  BY RunsIs DEF Breakup
<1>2. PICK b \in Buf : b = s.bp /\ b # None
  BY <1>1, BioAssumption DEF Local, HasOK, Owning, ProcT
<1>3. /\ proc \in [Proc -> ProcT] /\ buf \in [Buf -> HeaderT] /\ free \in Seq(Buf)
      /\ IsInjective(free) /\ asyn \in [cnt : Int, wait : BOOLEAN]
      /\ cpu' = p /\ UNCHANGED <<hdrs, room, io, twice>>
  BY DEF IInv, Typed, Places, Breakup
<1>4. Mine(s, b) /\ Yours(p, b) /\ b \notin ToSet(free) /\ b \notin hdrs
      /\ MineOK(s, b, buf[b], b \in io)
  <2>1. Mine(s, b)
    BY <1>1, <1>2 DEF Mine, Owning
  <2> QED BY <1>1, <2>1, YoursIs DEF IInv
<1>5. BpOK(s, buf[b], b \in io)
  BY <1>1, <1>2, <1>4 DEF MineOK, Owning
<1>6. /\ b \notin io /\ "BUSY" \in buf[b].flags /\ "DONE" \notin buf[b].flags
      /\ "ASYNC" \in buf[b].flags <=> s.then \in {"wrote", "join"}
      /\ "READ" \in buf[b].flags <=> s.then \in {"biowait", "ra", "join"}
  <2>1. "dma" # None
    BY BioAssumption
  <2> QED BY <1>1, <1>5, <2>1 DEF BpOK
<1>7. /\ s.then \in {"wrote", "bwait", "biowait", "ra", "join"} /\ CallOK(s.call)
      /\ s.save # b /\ (s.first = b <=> s.then = "ra")
      /\ s.back = "getfree" => s.slept
      /\ s.then \in {"ra", "join"} => s.call.op = "breada"
  BY <1>1, <1>2 DEF Local, HasOK, BackOK, Owning, Broken
<1>8. PICK r0 : r0 = IF s.then \in {"wrote", "join", "ra"}
                     THEN [s EXCEPT !.at = s.then, !.bp = None]
                     ELSE [s EXCEPT !.at = s.then]
  OBVIOUS
<1>9. PICK r : r = [r0 EXCEPT !.then = "user"]
  OBVIOUS
<1>10. /\ r \in ProcT /\ r.at = s.then /\ r.chan = None /\ r.call = s.call /\ r.first = s.first
       /\ r.save = s.save /\ r.blk = s.blk /\ r.back = s.back /\ r.slept = s.slept
       /\ r.bp = IF s.then \in {"wrote", "join", "ra"} THEN None ELSE b
  <2>1. /\ s \in ProcT /\ s.then \in {"wrote", "bwait", "biowait", "ra", "join"}
        /\ s.bp = b /\ s.chan = None
    BY <1>1, <1>2, <1>7
  <2>2. CASE s.then \in {"wrote", "join", "ra"}
    <3>1. r0 = [s EXCEPT !.at = s.then, !.bp = None]
      BY <1>8, <2>2
    <3>2. /\ r0 \in ProcT /\ r0.at = s.then /\ r0.chan = None /\ r0.call = s.call
          /\ r0.first = s.first /\ r0.save = s.save /\ r0.blk = s.blk /\ r0.back = s.back
          /\ r0.slept = s.slept /\ r0.bp = None
      BY ONLY <2>1, <3>1 DEF ProcT, Where
    <3>3. /\ r \in ProcT /\ r.at = r0.at /\ r.chan = r0.chan /\ r.call = r0.call
          /\ r.first = r0.first /\ r.save = r0.save /\ r.blk = r0.blk /\ r.back = r0.back
          /\ r.slept = r0.slept /\ r.bp = r0.bp
      BY ONLY <1>9, <3>2 DEF ProcT, Where
    <3> QED BY <2>2, <3>2, <3>3
  <2>3. CASE s.then \notin {"wrote", "join", "ra"}
    <3>1. r0 = [s EXCEPT !.at = s.then]
      BY <1>8, <2>3
    <3>2. /\ r0 \in ProcT /\ r0.at = s.then /\ r0.chan = None /\ r0.call = s.call
          /\ r0.first = s.first /\ r0.save = s.save /\ r0.blk = s.blk /\ r0.back = s.back
          /\ r0.slept = s.slept /\ r0.bp = b
      BY ONLY <2>1, <3>1 DEF ProcT, Where
    <3>3. /\ r \in ProcT /\ r.at = r0.at /\ r.chan = r0.chan /\ r.call = r0.call
          /\ r.first = r0.first /\ r.save = r0.save /\ r.blk = r0.blk /\ r.back = r0.back
          /\ r.slept = r0.slept /\ r.bp = r0.bp
      BY ONLY <1>9, <3>2 DEF ProcT, Where
    <3> QED BY <2>3, <3>2, <3>3
  <2> QED BY <2>2, <2>3
<1>11. HasOK(r)
  BY <1>1, <1>2, <1>7, <1>10 DEF Local, HasOK, InGetblk, Searching, Owning, Broken
<1>12. BackOK(r)
  BY <1>1, <1>7, <1>10 DEF Local, BackOK, InGetblk, Searching, Broken
<1>13. Local(r)
  BY <1>7, <1>10, <1>11, <1>12 DEF Local
<1>14. \A x \in Buf \ {b} : SameTo(s, r, x)
  BY <1>2, <1>7, <1>10, BioAssumption DEF SameTo, Owning
<1>15. proc'[p] = r => RunOK(proc[p], p)' /\ WaitOK(proc[p])'
  BY <1>3, <1>7, <1>10, WaitsNot DEF RunOK
<1>16. PICK d : d = Set(buf, b, {"DONE"})
  OBVIOUS
<1>17. Flagged(buf, d, b, buf[b].flags \cup {"DONE"})
  BY <1>3, <1>16, SetIs DEF Flags
<1>18. /\ d \in [Buf -> HeaderT] /\ \A x \in Buf \ {b} : Alike(buf[x], d[x])
       /\ \A x \in Buf \ {b} : d[x] = buf[x]
       /\ d[b].blk = buf[b].blk /\ d[b].flags = buf[b].flags \cup {"DONE"}
  BY <1>17 DEF Flagged, Alike
<1>19. PICK f \in [Proc -> ProcT] : f = [proc EXCEPT ![p] = r]
  BY <1>3, <1>10
<1>20. PICK cnt \in Int : cnt = Count(buf, b)
  BY <1>3 DEF Count
<1>21. PICK last \in BOOLEAN : last = (cnt = 0 /\ asyn.wait)
  OBVIOUS
<1>22. Biodone(b, buf, f)
  BY <1>1, <1>2, <1>8, <1>9, <1>19 DEF Breakup
<1>23. CASE "ASYNC" \in buf[b].flags
  <2>1. /\ asyn' = [cnt |-> cnt, wait |-> asyn.wait /\ ~last]
        /\ Brelse(b, d, IF last THEN Woken(f, {"async"}) ELSE f)
    BY <1>16, <1>20, <1>21, <1>22, <1>23 DEF Biodone
  <2>2. PICK C : C = IF last THEN {"async"} \cup Wanted(d, b) ELSE Wanted(d, b)
    OBVIOUS
  <2>3. proc' = Woken(f, C)
    <3>1. CASE last
      BY <2>1, <2>2, <3>1, WokenTwice DEF Brelse
    <3>2. CASE ~last
      BY <2>1, <2>2, <3>2 DEF Brelse
    <3> QED BY <3>1, <3>2
  <2>4. proc' = Woken([proc EXCEPT ![p] = r], C)
    BY <1>19, <2>3
  <2>5. proc'[p] = r
    BY <1>3, <1>10, <2>4, WakeIs
  <2>6. /\ buf' = Released(d, b) /\ want' = want \ {"free"}
        /\ free' = IF "AGE" \in buf'[b].flags THEN <<b>> \o free ELSE Append(free, b)
    BY <2>1 DEF Brelse
  <2>7. Lists(free', ToSet(free) \cup {b})
    BY <1>3, <1>4, <2>6, ReturnedIs
  <2>8. "dma" \notin C /\ Wanted(d, b) \subseteq C
    BY <2>2, BioAssumption DEF Wanted
  <2>9. s.then \in {"wrote", "join"} /\ r.bp = None /\ ~Mine(r, b)
    BY <1>2, <1>6, <1>7, <1>10, <1>23 DEF Mine, Owning
  <2>10. /\ asyn' \in [cnt : Int, wait : BOOLEAN] /\ asyn'.cnt = cnt
         /\ asyn'.wait = (asyn.wait /\ ~last)
    BY <1>3, <2>1
  <2>11. cnt = IF s.then = "wrote" THEN asyn.cnt - 1 ELSE asyn.cnt
    BY <1>6, <1>20, <1>23, <2>9 DEF Count
  <2>12. asyn.wait => "async" \in C \/ (asyn'.wait /\ (asyn.cnt > 0 => asyn'.cnt > 0))
    BY <1>3, <1>21, <2>2, <2>10, <2>11
  <2>13. asyn'.cnt + Num(r.at = "wrote") + Num(Counts(s, buf[b], b))
           = asyn.cnt + Num(s.at = "wrote")
    <3>1. Num(s.at = "wrote") = 0
      BY <1>1 DEF Num
    <3>2. Counts(s, buf[b], b) = FALSE
      BY <1>1, <1>2, <1>6, <2>9 DEF Counts, Starts, Broken
    <3>3. Num(Counts(s, buf[b], b)) = 0
      BY <3>2 DEF Num
    <3>4. Num(r.at = "wrote") = IF s.then = "wrote" THEN 1 ELSE 0
      BY <1>10 DEF Num
    <3> QED BY <1>3, <2>10, <2>11, <3>1, <3>3, <3>4
  <2>14. /\ "STALE" \in buf[b].flags => "STALE" \in d[b].flags
         /\ "WANTED" \in buf[b].flags => "WANTED" \in d[b].flags
    BY <1>18
  <2> QED BY <1>1, <1>3, <1>4, <1>6, <1>10, <1>13, <1>14, <1>15, <1>18, <2>4, <2>5, <2>6, <2>7,
             <2>8, <2>9, <2>10, <2>12, <2>13, <2>14, ReleaseKeeps
<1>24. CASE "ASYNC" \notin buf[b].flags
  <2>1. buf' = Clear(d, b, {"WANTED"}) /\ proc' = Woken(f, {b}) /\ UNCHANGED <<asyn, free, want>>
    BY <1>16, <1>22, <1>24 DEF Biodone
  <2>2. Others({p}, {b}) /\ proc'[p] = r
    BY <1>3, <1>10, <1>19, <2>1, WakeIs
  <2>3. Flagged(d, buf', b, d[b].flags \ {"WANTED"})
    BY <1>18, <2>1, ClearIs
  <2>4. /\ buf' \in [Buf -> HeaderT] /\ \A x \in Buf \ {b} : buf'[x] = buf[x]
        /\ buf'[b].blk = buf[b].blk
        /\ buf'[b].flags = (buf[b].flags \cup {"DONE"}) \ {"WANTED"}
    BY <1>18, <2>3 DEF Flagged
  <2>5. Typed'
    BY <1>3, <2>1, <2>2, <2>4 DEF IInv, Typed, Others
  <2>6. OneBuffer'
    <3>1. \A k \in Blk : Matches(k)' \subseteq Matches(k)
      BY <2>4 DEF Matches, Is
    <3> QED BY <1>3, <3>1, OneBufferKept DEF IInv
  <2>7. s.then \in {"bwait", "biowait", "ra"}
    BY <1>6, <1>7, <1>24
  <2>8. Mine(r, b) /\ MineOK(r, b, buf'[b], b \in io')
    <3>1. b \notin io'
      BY <1>3, <1>6
    <3>2. "BUSY" \in buf'[b].flags /\ "ASYNC" \notin buf'[b].flags /\ "DONE" \in buf'[b].flags
      BY <1>6, <1>24, <2>4
    <3>3. Mine(r, b)
      BY <1>7, <1>10, <2>7 DEF Mine, Owning
    <3>4. r.at \in {"bwait", "biowait", "ra"} /\ r.save # b
      BY <1>7, <1>10, <2>7
    <3> QED BY <3>1, <3>2, <3>3, <3>4 DEF MineOK, BpOK, FirstOK
  <2>9. BufOK(b)'
    <3>1. b \notin ToSet(free') /\ b \notin hdrs' /\ b \notin io'
      BY <1>3, <1>4, <1>6, <2>1
    <3> QED BY <1>4, <2>2, <2>8, <3>1, Placed
  <2>10. \A x \in Buf \ {b} : Quiet(x)
    BY <1>3, <2>1, <2>4 DEF Quiet, Alike
  <2>11. Wakes({b})
    <3>1. \A x \in Buf : Is(x, "BUSY") /\ Is(x, "WANTED") =>
            x \in {b} \/ (Is(x, "BUSY") /\ Is(x, "WANTED"))'
      BY <2>4 DEF Is
    <3> QED BY <1>3, <2>1, <3>1 DEF Wakes
  <2>12. "dma" \notin {b} /\ IsInjective(free') /\ cpu' \in {None, p}
    BY <1>3, <2>1, BioAssumption
  <2>13. asyn'.cnt + Num(proc'[p].at = "wrote") + Num(Counts(proc[p], buf[b], b))
           = asyn.cnt + Num(proc[p].at = "wrote") + Num(Counts(proc'[p], buf'[b], b))
    <3>1. Counts(proc[p], buf[b], b) = FALSE /\ Counts(proc'[p], buf'[b], b) = FALSE
      BY <1>24, <2>4 DEF Counts
    <3>2. Num(proc'[p].at = "wrote") = 0 /\ Num(proc[p].at = "wrote") = 0
      BY <1>1, <1>10, <2>2, <2>7 DEF Num
    <3> QED BY <2>1, <3>1, <3>2
  <2> QED BY <1>1, <1>4, <1>13, <1>14, <1>15, <2>2, <2>5, <2>6, <2>9, <2>10, <2>11, <2>12, <2>13,
             StepKeeps
<1> QED BY <1>23, <1>24

-----------------------------------------------------------------------------
(* The interrupt of the disk.                                              *)

\* The driver gives b up; of the processes only those may change that sleep in
\* buf_breakup for it, and they go on.
LEMMA DiskStep ==
    ASSUME IInv, NEW b \in Buf, NEW P, NEW C, "dma" \notin C, Others(P, C), Typed',
           cpu' = cpu, IsInjective(free'), OneBuffer',
           \A p \in Proc \cap P : /\ proc[p].at = "breakup" /\ proc[p].bp = b
                                  /\ Kept(proc[p], proc'[p]) /\ proc'[p].chan = None,
           \A k \in Blk : Matches(k)' \subseteq Matches(k), buf'[b].blk = buf[b].blk,
           BufOK(b)', \A x \in Buf \ {b} : Quiet(x), Wakes(C),
           asyn'.cnt + Num(b \in Out) = asyn.cnt + Num(b \in Out')
    PROVE  IInv'
<1>1. ASSUME NEW p \in Proc
      PROVE  /\ Kept(proc[p], proc'[p]) /\ (proc[p].chan = None => proc'[p].chan = None)
             /\ p \in P => proc'[p].chan = None
  <2>1. CASE p \in P
    BY <2>1
  <2>2. CASE p \notin P
    BY <2>2 DEF Others, Stays
  <2> QED BY <2>1, <2>2
<1>2. Locals'
  BY <1>1, KeptLocal DEF IInv, Locals
<1>3. Runners'
  <2>1. ASSUME NEW p \in Proc
        PROVE  RunOK(proc[p], p)'
    <3>1. PICK s \in ProcT, t \in ProcT :
            /\ s = proc[p] /\ t = proc'[p] /\ Kept(s, t) /\ (s.chan = None => t.chan = None)
            /\ RunOK(s, p) /\ Local(s)
      BY <1>1 DEF IInv, Typed, Others, Runners, Locals
    <3>2. s.blk \in Blk \cup {None}
      BY DEF ProcT
    <3>3. s.blk # None /\ ~Incore(s.blk) => ~Incore(s.blk)'
      BY <3>2 DEF Incore
    <3>4. s.at = "match" => buf'[s.bp].blk = s.blk
      <4>1. \A x \in Buf : buf'[x].blk = buf[x].blk
        BY DEF Quiet, Alike
      <4>2. s.at = "match" => s.bp \in Buf
        BY <3>1 DEF Local, HasOK, ProcT
      <4> QED BY <3>1, <4>1, <4>2 DEF RunOK
    <3> QED BY <3>1, <3>3, <3>4 DEF RunOK, Kept
  <2> QED BY <2>1 DEF Runners
<1>4. Places'
  <2>1. \A x \in Buf \ {b} : \A p \in Proc \cap P : SameTo(proc[p], proc'[p], x)
    BY <1>1 DEF SameTo, Kept
  <2> QED BY <2>1, PlacesKept DEF IInv
<1>5. Waits'
  <2>1. \A p \in Proc \cap P : WaitOK(proc[p])'
    <3>1. ASSUME NEW p \in Proc, p \in P
          PROVE  WaitOK(proc[p])'
      BY <1>1, <3>1, BioAssumption DEF WaitOK
    <3> QED BY <3>1
  <2> QED BY <2>1, WaitsKept DEF IInv
<1>6. Counted'
  <2>1. \A p \in Proc, x \in Buf : Starts(proc'[p], x) <=> Starts(proc[p], x)
    BY <1>1, KeptLocal
  <2>2. Wrotes' = Wrotes
    BY <1>1 DEF Wrotes, Kept
  <2>3. ASSUME NEW x \in Buf \ {b}
        PROVE  x \in Out' <=> x \in Out
    <3>1. Quiet(x)
      OBVIOUS
    <3>2. /\ "ASYNC" \in buf'[x].flags <=> "ASYNC" \in buf[x].flags
          /\ "READ" \in buf'[x].flags <=> "READ" \in buf[x].flags
      BY <3>1 DEF Quiet, Alike
    <3> QED BY <2>1, <3>2 DEF Out, Writing, Is
  <2>4. Out \subseteq Buf /\ Out' \subseteq Buf /\ Out' \ {b} = Out \ {b}
    BY <2>3 DEF Out, Writing
  <2>5. PICK R \in Nat : /\ Cardinality(Out) = R + Num(b \in Out)
                         /\ Cardinality(Out') = R + Num(b \in Out')
    BY <2>4, CardOne
  <2>6. asyn.cnt \in Int /\ asyn'.cnt \in Int
    BY DEF IInv, Typed
  <2>7. asyn.cnt + Num(Wrotes # {}) = R + Num(b \in Out)
    BY <2>5 DEF IInv, Counted
  <2>8. asyn'.cnt + Num(Wrotes # {}) = R + Num(b \in Out')
    BY <2>6, <2>7 DEF Num
  <2> QED BY <2>2, <2>5, <2>8 DEF Counted
<1> QED BY <1>2, <1>3, <1>4, <1>5, <1>6 DEF IInv

\* The header when the disk is done.
DiskMoved(b, err) ==
    IF err THEN Set(buf, b, {"ERROR"})
    ELSE IF ~Is(b, "READ") THEN buf ELSE [buf EXCEPT ![b].fresh = disk[buf[b].blk]]

\* The disk changes at most the flag ERROR and what the buffer contains.
LEMMA DiskMovedIs ==
    ASSUME IInv, disk \in [Blk -> BOOLEAN], NEW b \in io, NEW err \in BOOLEAN,
           NEW t, t = DiskMoved(b, err)
    PROVE  \E F \in {{}, {"ERROR"}} : Flagged(buf, t, b, buf[b].flags \cup F)
<1>1. b \in Buf /\ buf \in [Buf -> HeaderT]
  BY DEF IInv, Typed
<1>2. CASE err
  BY <1>1, <1>2, SetIs DEF DiskMoved, Flags
<1>3. CASE ~err /\ ~Is(b, "READ")
  <2>1. t = buf /\ buf[b].flags \cup {} = buf[b].flags
    BY <1>3 DEF DiskMoved
  <2> QED BY <1>1, <2>1 DEF Flagged
<1>4. CASE ~err /\ Is(b, "READ")
  <2>1. buf[b].blk \in Blk
    <3>1. buf[b].blk # None
      BY <1>1, <1>4 DEF IInv, Places, BufOK
    <3> QED BY <1>1, <3>1 DEF HeaderT
  <2>2. PICK h \in HeaderT : h = buf[b]
    BY <1>1
  <2>3. PICK f \in BOOLEAN : f = disk[buf[b].blk]
    BY <2>1
  <2>4. PICK k : k = [h EXCEPT !.fresh = f]
    OBVIOUS
  <2>5. k \in HeaderT /\ k.blk = h.blk /\ k.size = h.size /\ k.flags = h.flags
    BY <2>4 DEF HeaderT
  <2>6. t = [buf EXCEPT ![b] = k]
    BY <1>4, <2>2, <2>3, <2>4 DEF DiskMoved
  <2>7. Flagged(buf, t, b, buf[b].flags \cup {})
    BY <1>1, <2>2, <2>5, <2>6 DEF Flagged
  <2> QED BY <2>7
<1> QED BY <1>2, <1>3, <1>4

\* A request that somebody waits for in buf_breakup.
LEMMA DiskPiece ==
    ASSUME IInv, NEW b \in io, NEW F \in {{}, {"ERROR"}},
           Flagged(buf, buf', b, buf[b].flags \cup F),
           NEW W, W = {p \in Proc : proc[p].at = "breakup" /\ proc[p].bp = b}, W # {},
           proc' = [p \in Proc |-> IF p \in W THEN [proc[p] EXCEPT !.chan = None] ELSE proc[p]],
           io' = io \ {b}, UNCHANGED <<asyn, free, want, hdrs, room, twice, cpu>>
    PROVE  IInv'
<1>1. /\ b \in Buf /\ buf \in [Buf -> HeaderT] /\ proc \in [Proc -> ProcT]
  BY DEF IInv, Typed
<1>2. ASSUME NEW p \in Proc
      PROVE  /\ proc'[p] \in ProcT
             /\ p \in W => Kept(proc[p], proc'[p]) /\ proc'[p].chan = None
             /\ p \notin W => Stays(proc[p], proc'[p], {})
  <2>1. PICK s \in ProcT : s = proc[p]
    BY <1>1
  <2>2. PICK t : t = [s EXCEPT !.chan = None]
    OBVIOUS
  <2>3. t \in ProcT /\ Kept(s, t) /\ t.chan = None
    BY <2>2 DEF ProcT, Kept, Chan
  <2>4. proc'[p] = IF p \in W THEN t ELSE s
    BY <2>1, <2>2
  <2>5. Stays(s, s, {})
    BY DEF Stays, Kept
  <2> QED BY <2>1, <2>3, <2>4, <2>5
<1>3. proc' = [p \in Proc |-> proc'[p]]
  OBVIOUS
<1>4. Others(W, {})
  BY <1>2, <1>3 DEF Others
<1>5. /\ buf' \in [Buf -> HeaderT] /\ \A x \in Buf \ {b} : buf'[x] = buf[x]
      /\ buf'[b].blk = buf[b].blk /\ buf'[b].flags = buf[b].flags \cup F
  BY DEF Flagged
<1>6. Typed'
  BY <1>4, <1>5 DEF IInv, Typed, Others
<1>7. \A k \in Blk : Matches(k)' \subseteq Matches(k)
  BY <1>5 DEF Matches, Is
<1>8. OneBuffer'
  BY <1>7, OneBufferKept DEF IInv
<1>9. PICK p \in W : TRUE
  OBVIOUS
<1>10. PICK s \in ProcT, t \in ProcT :
         /\ s = proc[p] /\ t = proc'[p] /\ s.at = "breakup" /\ s.bp = b /\ Local(s)
         /\ Kept(s, t) /\ t.chan = None
  BY <1>1, <1>2 DEF IInv, Locals
<1>11. /\ Mine(s, b) /\ Yours(p, b) /\ b \notin ToSet(free) /\ b \notin hdrs
       /\ MineOK(s, b, buf[b], b \in io)
  <2>1. Mine(s, b)
    BY <1>10 DEF Mine, Owning
  <2> QED BY <1>1, <1>10, <2>1, YoursIs DEF IInv
<1>12. W = {p}
  <2>1. \A q \in W : Mine(proc[q], b)
    BY DEF Mine, Owning
  <2> QED BY <1>11, <2>1 DEF Yours
<1>13. /\ Mine(t, b) /\ b \notin io'
       /\ MineOK(t, b, buf'[b], b \in io')
  <2>1. BpOK(t, buf'[b], FALSE)
    BY <1>5, <1>10, <1>11 DEF MineOK, BpOK, Kept, Owning
  <2>2. t.at = "breakup" /\ t.bp = b /\ t.first = s.first /\ t.save = s.save
    BY <1>10 DEF Kept
  <2>3. b # s.save
    <3>1. b # None
      BY <1>1, BioAssumption
    <3> QED BY <1>10, <3>1 DEF Local, HasOK
  <2>4. b = t.first => FirstOK(t, b, buf'[b], FALSE)
    BY <1>5, <1>11, <2>2 DEF MineOK, FirstOK
  <2>5. b \notin io' /\ (b \in io') = FALSE
    OBVIOUS
  <2>6. MineOK(t, b, buf'[b], FALSE)
    BY <2>1, <2>2, <2>3, <2>4 DEF MineOK
  <2>7. Mine(t, b)
    BY <2>2 DEF Mine, Owning
  <2>8. MineOK(t, b, buf'[b], b \in io')
    BY <2>5, <2>6
  <2> QED BY <2>5, <2>7, <2>8
<1>14. BufOK(b)'
  BY <1>1, <1>4, <1>10, <1>11, <1>12, <1>13, Placed
<1>15. \A x \in Buf \ {b} : Quiet(x)
  BY <1>5 DEF Quiet, Alike
<1>16. Wakes({})
  <2>1. \A x \in Buf : Is(x, "BUSY") /\ Is(x, "WANTED") => (Is(x, "BUSY") /\ Is(x, "WANTED"))'
    BY <1>5 DEF Is
  <2>2. \A x \in io \ io' : \E q \in Proc : proc[q].at = "breakup" /\ proc[q].bp = x
    BY <1>10
  <2> QED BY <2>1, <2>2 DEF Wakes
<1>17. asyn'.cnt + Num(b \in Out) = asyn.cnt + Num(b \in Out')
  <2>1. \A q \in Proc : Starts(proc'[q], b) <=> Starts(proc[q], b)
    BY <1>2, KeptLocal DEF Stays
  <2>2. b \in Out <=> b \in Out'
    BY <1>1, <1>5, <2>1 DEF Out, Writing, Is
  <2> QED BY <2>2 DEF Num
<1>18. IsInjective(free')
  BY DEF IInv, Places
<1> QED BY <1>1, <1>2, <1>4, <1>5, <1>6, <1>7, <1>8, <1>14, <1>15, <1>16, <1>17, <1>18, DiskStep

\* A whole request: biodone.
LEMMA DiskWhole ==
    ASSUME IInv, NEW b \in io, NEW F \in {{}, {"ERROR"}}, NEW t,
           Flagged(buf, t, b, buf[b].flags \cup F),
           {p \in Proc : proc[p].at = "breakup" /\ proc[p].bp = b} = {},
           Biodone(b, t, proc), io' = io \ {b}, UNCHANGED <<hdrs, room, twice, cpu>>
    PROVE  IInv'
<1>1. /\ b \in Buf /\ buf \in [Buf -> HeaderT] /\ proc \in [Proc -> ProcT] /\ free \in Seq(Buf)
      /\ IsInjective(free) /\ asyn \in [cnt : Int, wait : BOOLEAN]
  BY DEF IInv, Typed, Places
<1>2. /\ t \in [Buf -> HeaderT] /\ \A x \in Buf \ {b} : t[x] = buf[x]
      /\ t[b].blk = buf[b].blk /\ t[b].flags = buf[b].flags \cup F
  BY DEF Flagged
<1>3. PICK d : d = Set(t, b, {"DONE"})
  OBVIOUS
<1>4. Flagged(t, d, b, t[b].flags \cup {"DONE"})
  BY <1>1, <1>2, <1>3, SetIs DEF Flags
<1>5. /\ d \in [Buf -> HeaderT] /\ \A x \in Buf \ {b} : d[x] = buf[x]
      /\ d[b].blk = buf[b].blk /\ d[b].flags = buf[b].flags \cup F \cup {"DONE"}
  BY <1>2, <1>4 DEF Flagged
<1>6. \A q \in Proc : ~Starts(proc[q], b)
  BY DEF Starts, Broken
<1>7. ASSUME NEW q \in Proc, Mine(proc[q], b)
      PROVE  /\ "ASYNC" \notin buf[b].flags /\ proc[q].save # b
             /\ proc[q].at \in Owning /\ b = proc[q].bp => proc[q].at \in {"biowait", "bwait"}
  <2>1. MineOK(proc[q], b, buf[b], b \in io)
    BY <1>1, <1>7 DEF IInv, Places, BufOK
  <2> QED BY <1>7, <2>1 DEF Mine, MineOK, BpOK, FirstOK, SaveOK, Owning
<1>8. /\ "BUSY" \in buf[b].flags /\ b \notin ToSet(free) /\ b \notin hdrs
  BY <1>1 DEF IInv, Places, BufOK, Is
<1>9. b \in Out <=> "ASYNC" \in buf[b].flags /\ "READ" \notin buf[b].flags
  BY <1>1, <1>6 DEF Out, Writing, Is
<1>10. PICK cnt \in Int : cnt = Count(t, b)
  BY <1>1 DEF Count
<1>11. PICK last \in BOOLEAN : last = (cnt = 0 /\ asyn.wait)
  OBVIOUS
<1>12. b \notin io'
  OBVIOUS
<1>13. CASE "ASYNC" \in buf[b].flags
  <2>1. /\ asyn' = [cnt |-> cnt, wait |-> asyn.wait /\ ~last]
        /\ Brelse(b, d, IF last THEN Woken(proc, {"async"}) ELSE proc)
    BY <1>2, <1>3, <1>10, <1>11, <1>13 DEF Biodone
  <2>2. PICK C : C = IF last THEN {"async"} \cup Wanted(d, b) ELSE Wanted(d, b)
    OBVIOUS
  <2>3. proc' = Woken(proc, C)
    <3>1. CASE last
      BY <1>1, <2>1, <2>2, <3>1, WokenTwice DEF Brelse
    <3>2. CASE ~last
      BY <2>1, <2>2, <3>2 DEF Brelse
    <3> QED BY <3>1, <3>2
  <2>4. Others({}, C)
    BY <1>1, <2>3, WokenIs DEF Others
  <2>5. /\ buf' = Released(d, b) /\ want' = want \ {"free"}
        /\ free' = IF "AGE" \in buf'[b].flags THEN <<b>> \o free ELSE Append(free, b)
    BY <2>1 DEF Brelse
  <2>6. Lists(free', ToSet(free) \cup {b})
    BY <1>1, <1>8, <2>5, ReturnedIs
  <2>7. free' \in Seq(Buf) /\ IsInjective(free') /\ ToSet(free') = ToSet(free) \cup {b}
    BY <2>6 DEF Lists
  <2>8. /\ buf' \in [Buf -> HeaderT] /\ \A x \in Buf : x # b => buf'[x] = d[x]
        /\ buf'[b].blk = d[b].blk
        /\ buf'[b].flags \cap {"BUSY", "WANTED", "ASYNC", "READ"} = {}
        /\ "STALE" \in d[b].flags => "STALE" \in buf'[b].flags
    BY <1>1, <1>5, <2>5, ReleasedIs
  <2>9. /\ asyn' \in [cnt : Int, wait : BOOLEAN] /\ asyn'.cnt = cnt
        /\ asyn'.wait = (asyn.wait /\ ~last)
    BY <1>1, <2>1
  <2>10. Typed'
    BY <2>4, <2>5, <2>7, <2>8, <2>9 DEF IInv, Typed, Others
  <2>11. "dma" \notin C /\ Wanted(d, b) \subseteq C
    BY <1>1, <2>2, BioAssumption DEF Wanted
  <2>12. \A x \in Buf : buf'[x].blk = buf[x].blk
                        /\ ("STALE" \in buf[x].flags => "STALE" \in buf'[x].flags)
    BY <1>5, <2>8
  <2>13. \A k \in Blk : Matches(k)' \subseteq Matches(k)
    BY <2>12 DEF Matches, Is
  <2>14. OneBuffer'
    BY <2>13, OneBufferKept DEF IInv
  <2>15. \A q \in Proc : ~Mine(proc'[q], b)
    BY <1>7, <1>13, <2>4, KeptLocal DEF Others, Stays
  <2>16. BufOK(b)'
    BY <1>8, <1>12, <2>7, <2>8, <2>15 DEF BufOK
  <2>17. \A x \in Buf \ {b} : Quiet(x)
    BY <1>5, <2>7, <2>8 DEF Quiet, Alike
  <2>18. cnt = IF "READ" \in buf[b].flags THEN asyn.cnt ELSE asyn.cnt - 1
    BY <1>2, <1>10, <1>13 DEF Count
  <2>19. asyn.wait => "async" \in C \/ (asyn'.wait /\ (asyn.cnt > 0 => asyn'.cnt > 0))
    BY <1>1, <1>11, <2>2, <2>9, <2>18
  <2>20. Wakes(C)
    <3>1. ASSUME NEW x \in Buf, Is(x, "BUSY"), Is(x, "WANTED")
          PROVE  x \in C \/ (Is(x, "BUSY") /\ Is(x, "WANTED"))'
      <4>1. CASE x = b
        <5>1. b \in Wanted(d, b)
          BY <1>5, <3>1, <4>1 DEF Is, Wanted
        <5> QED BY <2>11, <4>1, <5>1
      <4>2. CASE x # b
        BY <1>5, <2>8, <3>1, <4>2 DEF Is
      <4> QED BY <4>1, <4>2
    <3>2. "free" \in want => "free" \in C
      BY <2>11 DEF Wanted
    <3>3. \A x \in io \ io' : Is(x, "ASYNC")
      BY <1>13 DEF Is
    <3>4. "hdr" \in want => "hdr" \in want' /\ hdrs' \subseteq hdrs
      BY <2>5
    <3> QED BY <2>19, <3>1, <3>2, <3>3, <3>4 DEF Wakes
  <2>21. asyn'.cnt + Num(b \in Out) = asyn.cnt + Num(b \in Out')
    <3>1. b \notin Out'
      BY <2>8 DEF Out, Writing, Is
    <3>2. Num(b \in Out') = 0
      BY <3>1 DEF Num
    <3>3. Num(b \in Out) = IF "READ" \in buf[b].flags THEN 0 ELSE 1
      BY <1>9, <1>13 DEF Num
    <3> QED BY <1>1, <2>9, <2>18, <3>2, <3>3
  <2>22. cpu' = cpu
    OBVIOUS
  <2>23. PICK P : P = {}
    OBVIOUS
  <2>24. Others(P, C) /\ \A p \in Proc \cap P : FALSE
    BY <2>4, <2>23
  <2> QED BY <1>1, <2>7, <2>10, <2>11, <2>12, <2>13, <2>14, <2>16, <2>17, <2>20, <2>21, <2>22,
             <2>24, DiskStep
<1>14. CASE "ASYNC" \notin buf[b].flags
  <2>1. buf' = Clear(d, b, {"WANTED"}) /\ proc' = Woken(proc, {b}) /\ UNCHANGED <<asyn, free, want>>
    BY <1>2, <1>3, <1>14 DEF Biodone
  <2>2. Others({}, {b})
    BY <1>1, <2>1, WokenIs DEF Others
  <2>3. Flagged(d, buf', b, d[b].flags \ {"WANTED"})
    BY <1>1, <1>5, <2>1, ClearIs
  <2>4. /\ buf' \in [Buf -> HeaderT] /\ \A x \in Buf \ {b} : buf'[x] = buf[x]
        /\ buf'[b].blk = buf[b].blk
        /\ buf'[b].flags = (buf[b].flags \cup F \cup {"DONE"}) \ {"WANTED"}
    BY <1>5, <2>3 DEF Flagged
  <2>5. Typed'
    BY <2>1, <2>2, <2>4 DEF IInv, Typed, Others
  <2>6. \A k \in Blk : Matches(k)' \subseteq Matches(k)
    BY <2>4 DEF Matches, Is
  <2>7. OneBuffer'
    BY <2>6, OneBufferKept DEF IInv
  <2>8. ASSUME NEW q \in Proc
        PROVE  /\ Mine(proc'[q], b) <=> Mine(proc[q], b)
               /\ Mine(proc[q], b) => MineOK(proc'[q], b, buf'[b], FALSE)
    <3>1. PICK s \in ProcT, u \in ProcT : s = proc[q] /\ u = proc'[q] /\ Kept(s, u)
      BY <1>1, <2>2 DEF Others, Stays
    <3>2. Mine(u, b) <=> Mine(s, b)
      BY <3>1, KeptLocal
    <3>3. ASSUME Mine(s, b)
          PROVE  MineOK(u, b, buf'[b], FALSE)
      <4>1. /\ s.save # b
            /\ s.at \in Owning /\ b = s.bp => s.at \in {"biowait", "bwait"}
        BY <1>7, <3>1, <3>3
      <4>2. "BUSY" \in buf'[b].flags /\ "ASYNC" \notin buf'[b].flags /\ "DONE" \in buf'[b].flags
        BY <1>8, <1>14, <2>4
      <4>3. u.at = s.at /\ u.bp = s.bp /\ u.save = s.save
        BY <3>1 DEF Kept
      <4> QED BY <4>1, <4>2, <4>3 DEF MineOK, BpOK, FirstOK
    <3> QED BY <3>1, <3>2, <3>3
  <2>9. BufOK(b)'
    <3>1. /\ b \notin ToSet(free') /\ b \notin hdrs' /\ b \notin io' /\ (b \in io') = FALSE
      BY <1>8, <2>1
    <3>2. PICK q \in Proc : Mine(proc[q], b)
      BY <1>1, <1>8, <1>14 DEF IInv, Places, BufOK, Is
    <3>3. \A u \in Proc : Mine(proc'[u], b) => MineOK(proc'[u], b, buf'[b], b \in io')
      BY <2>8, <3>1
    <3>4. \A u, v \in Proc : Mine(proc'[u], b) /\ Mine(proc'[v], b) => u = v
      BY <1>1, <2>8 DEF IInv, Places, BufOK
    <3>5. Mine(proc'[q], b)
      BY <2>8, <3>2
    <3> QED BY <3>1, <3>3, <3>4, <3>5 DEF BufOK
  <2>10. \A x \in Buf \ {b} : Quiet(x)
    BY <2>1, <2>4 DEF Quiet, Alike
  <2>11. Wakes({b})
    <3>1. \A x \in Buf : Is(x, "BUSY") /\ Is(x, "WANTED") =>
            x \in {b} \/ (Is(x, "BUSY") /\ Is(x, "WANTED"))'
      BY <2>4 DEF Is
    <3>2. \A x \in io \ io' : x \in {b}
      OBVIOUS
    <3> QED BY <2>1, <3>1, <3>2 DEF Wakes
  <2>12. "dma" \notin {b} /\ IsInjective(free') /\ cpu' = cpu
    BY <1>1, <2>1, BioAssumption
  <2>13. asyn'.cnt + Num(b \in Out) = asyn.cnt + Num(b \in Out')
    <3>1. b \notin Out /\ b \notin Out'
      BY <1>9, <1>14, <2>4 DEF Out, Writing, Is
    <3> QED BY <2>1, <3>1 DEF Num
  <2>14. PICK P, C : P = {} /\ C = {b}
    OBVIOUS
  <2>15. Others(P, C) /\ (\A p \in Proc \cap P : FALSE) /\ Wakes(C) /\ "dma" \notin C
    BY <2>2, <2>11, <2>12, <2>14
  <2> QED BY <1>1, <2>4, <2>5, <2>6, <2>7, <2>9, <2>10, <2>12, <2>13, <2>15, DiskStep
<1> QED BY <1>13, <1>14

\* The disk is done with a buffer, or with a piece of it.
LEMMA DiskDoneKeeps ==
    ASSUME IInv, disk \in [Blk -> BOOLEAN], NEW b \in Buf, DiskDone(b)
    PROVE  IInv'
<1>1. PICK W : W = {p \in Proc : proc[p].at = "breakup" /\ proc[p].bp = b}
  OBVIOUS
<1>2. PICK err \in BOOLEAN :
        IF W = {} THEN Biodone(b, DiskMoved(b, err), proc)
        ELSE /\ buf' = DiskMoved(b, err)
             /\ proc' = [p \in Proc |-> IF p \in W THEN [proc[p] EXCEPT !.chan = None]
                                        ELSE proc[p]]
             /\ UNCHANGED <<asyn, free, want>>
  BY <1>1 DEF DiskDone, DiskMoved
<1>3. b \in io /\ io' = io \ {b} /\ UNCHANGED <<hdrs, room, twice, cpu>>
  BY DEF DiskDone
<1>4. PICK t : t = DiskMoved(b, err)
  OBVIOUS
<1>5. PICK F \in {{}, {"ERROR"}} : Flagged(buf, t, b, buf[b].flags \cup F)
  BY <1>3, <1>4, DiskMovedIs
<1>6. CASE W = {}
  BY <1>1, <1>2, <1>3, <1>4, <1>5, <1>6, DiskWhole
<1>7. CASE W # {}
  <2>1. Flagged(buf, buf', b, buf[b].flags \cup F)
    BY <1>2, <1>4, <1>5, <1>7
  <2>2. /\ proc' = [p \in Proc |-> IF p \in W THEN [proc[p] EXCEPT !.chan = None] ELSE proc[p]]
        /\ UNCHANGED <<asyn, free, want>>
    BY <1>2, <1>7
  <2> QED BY <1>1, <1>3, <1>7, <2>1, <2>2, DiskPiece
<1> QED BY <1>6, <1>7

-----------------------------------------------------------------------------
(* Every behaviour.                                                        *)

\* The variables that IInv does not look at.
Disk == disk \in [Blk -> BOOLEAN] /\ odd \in 0 .. MaxOdd

\* At the start every header is on bhdrlist and every process outside.
LEMMA InitHolds ==
    ASSUME Init
    PROVE  IInv /\ Disk
<1>1. Header \in HeaderT /\ Blank(Header)
  BY DEF Header, HeaderT, Blank
<1>2. buf \in [Buf -> HeaderT] /\ \A b \in Buf : buf[b] = Header
  BY <1>1 DEF Init
<1>3. proc \in [Proc -> ProcT] /\ \A p \in Proc : proc[p] = User /\ Local(proc[p])
  BY UserIs DEF Init
<1>4. /\ User.at = "user" /\ User.chan = None /\ User.bp = None /\ User.first = None
      /\ User.save = None /\ User.back = "user"
  BY DEF User
<1>5. free \in Seq(Buf) /\ free = <<>> /\ IsInjective(free) /\ ToSet(free) = {}
  BY DEF Init, IsInjective, ToSet
<1>6. Typed
  BY <1>2, <1>3, <1>5, BioAssumption DEF Init, Typed
<1>7. Locals
  BY <1>3 DEF Locals
<1>8. Runners
  <2>1. \A p \in Proc : p # None
    BY BioAssumption
  <2> QED BY <1>3, <1>4, <2>1 DEF Init, Runners, RunOK
<1>9. OneBuffer
  <2>1. \A k \in Blk : Matches(k) = {}
    BY <1>2, BioAssumption DEF Matches, Header
  <2> QED BY <2>1 DEF OneBuffer
<1>10. \A p \in Proc, b \in Buf : ~Mine(proc[p], b)
  BY <1>3, <1>4, BioAssumption DEF Mine, Owning
<1>11. Places
  <2>1. hdrs = Buf /\ io = {}
    BY DEF Init
  <2>2. \A b \in Buf : BufOK(b)
    BY <1>1, <1>2, <1>5, <1>10, <2>1 DEF BufOK
  <2> QED BY <1>5, <2>2 DEF Places
<1>12. Waits
  BY <1>3, <1>4, BioAssumption DEF Waits, WaitOK
<1>13. Counted
  <2>1. Wrotes = {} /\ Out = {}
    BY <1>2, <1>3, <1>4 DEF Wrotes, Out, Writing, Is, Header
  <2>2. Num(Wrotes # {}) = 0 /\ Cardinality(Out) = 0
    BY <2>1, FS_EmptySet DEF Num
  <2> QED BY <2>2 DEF Init, Counted
<1>14. Disk
  BY BioAssumption DEF Init, Disk
<1> QED BY <1>6, <1>7, <1>8, <1>9, <1>11, <1>12, <1>13, <1>14 DEF IInv

\* What is on disk changes where the contents are known.
LEMMA DiskKeeps ==
    ASSUME IInv, Disk, Next
    PROVE  Disk'
<1>1. buf \in [Buf -> HeaderT]
  BY DEF IInv, Typed
<1>2. MaxOdd \in Nat
  BY BioAssumption
<1>3. ASSUME NEW b \in Buf, DiskDone(b)
      PROVE  Disk'
  <2>1. buf[b].fresh \in BOOLEAN
    BY <1>1 DEF HeaderT
  <2>2. PICK err \in BOOLEAN :
             /\ err => odd < MaxOdd
             /\ odd' = IF err THEN odd + 1 ELSE odd
             /\ disk' = disk \/ disk' = [disk EXCEPT ![buf[b].blk] = buf[b].fresh]
    BY <1>3 DEF DiskDone
  <2>3. disk' \in [Blk -> BOOLEAN]
    BY <2>1, <2>2 DEF Disk
  <2>4. odd' \in 0 .. MaxOdd
    BY <1>2, <2>2 DEF Disk
  <2> QED BY <2>3, <2>4 DEF Disk
<1>4. ASSUME NEW p \in Proc, Finish(p)
      PROVE  Disk'
  BY <1>4 DEF Finish, Disk
<1>5. ASSUME NEW p \in Proc, Nofree(p)
      PROVE  Disk'
  <2>1. UNCHANGED disk
    BY <1>5 DEF Nofree
  <2>2. odd' = odd \/ (odd < MaxOdd /\ odd' = odd + 1)
    BY <1>5 DEF Nofree
  <2> QED BY <1>2, <2>1, <2>2 DEF Disk
<1>6. ASSUME NEW p \in Proc,
             \/ \E c \in Calls : Start(p, c)
             \/ Search(p) \/ Match(p) \/ Getfree(p) \/ Kmem(p) \/ Got(p) \/ ReadAhead(p)
             \/ Breakup(p) \/ Biowait(p) \/ Wrote(p) \/ Blkflush(p) \/ Bflush(p) \/ Bdwait(p)
      PROVE  UNCHANGED <<disk, odd>>
  BY <1>6 DEF Start, Search, Match, Getfree, Kmem, Got, ReadAhead, Breakup, Biowait, Wrote,
              Blkflush, Bflush, Bdwait
<1>7. UNCHANGED <<disk, odd>> => Disk'
  BY DEF Disk
<1> QED BY <1>3, <1>4, <1>5, <1>6, <1>7 DEF Next

\* Every action keeps the invariant.
LEMMA NextKeeps ==
    ASSUME IInv, Disk, Next
    PROVE  IInv'
<1>1. ASSUME NEW p \in Proc, NEW c \in Calls, Start(p, c)
      PROVE  IInv'
  BY <1>1, StartKeeps
<1>2. ASSUME NEW p \in Proc, Search(p) \/ Match(p) \/ Getfree(p) \/ Nofree(p) \/ Kmem(p)
      PROVE  IInv'
  BY <1>2, SearchKeeps, MatchKeeps, GetfreeKeeps, NofreeKeeps, KmemKeeps
<1>3. ASSUME NEW p \in Proc, Got(p) \/ ReadAhead(p) \/ Breakup(p) \/ Biowait(p) \/ Wrote(p)
      PROVE  IInv'
  BY <1>3, GotKeeps, ReadAheadKeeps, BreakupKeeps, BiowaitKeeps, WroteKeeps
<1>4. ASSUME NEW p \in Proc, Finish(p) \/ Blkflush(p) \/ Bflush(p) \/ Bdwait(p)
      PROVE  IInv'
  BY <1>4, FinishKeeps, BlkflushKeeps, BflushKeeps, BdwaitKeeps
<1>5. ASSUME NEW b \in Buf, DiskDone(b)
      PROVE  IInv'
  BY <1>5, DiskDoneKeeps DEF Disk
<1> QED BY <1>1, <1>2, <1>3, <1>4, <1>5 DEF Next

\* What no step changes.
LEMMA StutterKeeps ==
    ASSUME IInv, Disk, UNCHANGED vars
    PROVE  IInv' /\ Disk'
<1>1. Disk'
  BY DEF vars, Disk
<1>2. Typed' /\ Locals'
  BY DEF vars, IInv, Typed, Locals
<1>3. \A k : Matches(k)' = Matches(k)
  BY DEF vars, Matches, Is
<1>4. Runners' /\ OneBuffer'
  BY <1>3 DEF vars, IInv, Runners, RunOK, Incore, OneBuffer
<1>5. Places' /\ Waits'
  BY DEF vars, IInv, Places, BufOK, Waits, WaitOK, Is
<1>6. Counted'
  <2>1. Out' = Out /\ Wrotes' = Wrotes
    BY DEF vars, Out, Writing, Is, Wrotes
  <2> QED BY <2>1 DEF vars, IInv, Counted
<1> QED BY <1>1, <1>2, <1>4, <1>5, <1>6 DEF IInv

\* The inductive invariant holds in every behaviour of the cache.
THEOREM Invariant == Spec => [](IInv /\ Disk)
<1>1. Init => IInv /\ Disk
  BY InitHolds
<1>2. IInv /\ Disk /\ [Next]_vars => (IInv /\ Disk)'
  BY NextKeeps, DiskKeeps, StutterKeeps
<1> QED BY <1>1, <1>2, PTL DEF Spec

-----------------------------------------------------------------------------
(* What follows from it.                                                   *)

\* The buffer that a process has, and who has a buffer, in the terms of Bio.
LEMMA OwnersAre ==
    ASSUME IInv, NEW b \in Buf
    PROVE  Owners(b) = {p \in Proc : Mine(proc[p], b)}
<1>1. ASSUME NEW p \in Proc
      PROVE  Mine(proc[p], b) <=> \/ proc[p].bp = b /\ proc[p].at # "match"
                                  \/ b \in {proc[p].first, proc[p].save}
  <2>1. proc[p].bp # None <=> proc[p].at \in Owning \cup {"match"}
    BY DEF IInv, Locals, Local, HasOK
  <2>2. b # None
    BY BioAssumption
  <2>3. "match" \notin Owning
    BY DEF Owning
  <2> QED BY <2>1, <2>2, <2>3 DEF Mine
<1> QED BY <1>1 DEF Owners

\* The places of one buffer: it has one, and only one.
LEMMA PlaceOfOne ==
    ASSUME IInv, NEW b \in Buf
    PROVE  /\ b \in hdrs => b \notin ToSet(free) /\ Owners(b) = {} /\ ~Alone(b)
           /\ b \in ToSet(free) => Owners(b) = {} /\ ~Alone(b)
           /\ Alone(b) => Owners(b) = {}
           /\ b \in hdrs \/ b \in ToSet(free) \/ Owners(b) # {} \/ Alone(b)
<1>1. BufOK(b)
  BY DEF IInv, Places
<1>2. Owners(b) = {p \in Proc : Mine(proc[p], b)}
  BY OwnersAre
<1>3. b \in hdrs \/ b \in ToSet(free) => Owners(b) = {}
  BY <1>1, <1>2 DEF BufOK
<1>4. b \in hdrs \/ b \in ToSet(free) => b \notin io
  BY <1>1 DEF BufOK
<1>5. b \in ToSet(free) => b \notin hdrs
  BY <1>1 DEF BufOK
<1>6. b \in hdrs \/ b \in ToSet(free) \/ b \in io \/ Owners(b) # {}
  BY <1>1, <1>2 DEF BufOK
<1> QED BY <1>3, <1>4, <1>5, <1>6 DEF Alone

\* A set of at most one element has at most the number one.
LEMMA AtMostOne ==
    ASSUME NEW S, \A x, y \in S : x = y
    PROVE  IsFiniteSet(S) /\ Cardinality(S) \in 0 .. 1
<1>1. CASE S = {}
  BY <1>1, FS_EmptySet
<1>2. CASE S # {}
  <2>1. PICK x \in S : TRUE
    BY <1>2
  <2>2. S = {x}
    BY <2>1
  <2> QED BY <2>2, FS_Singleton
<1> QED BY <1>1, <1>2

\* A buffer is BUSY, except in the moment it is made, unless it is free.
LEMMA BusyUnlessFree ==
    ASSUME IInv, NEW b \in Buf, buf[b].size > 0
    PROVE  Is(b, "BUSY") <=> b \notin ToSet(free)
<1>1. BufOK(b) /\ buf[b].size # 0
  BY DEF IInv, Places, Typed, HeaderT
<1>2. b \in ToSet(free) => ~Is(b, "BUSY")
  BY <1>1 DEF BufOK, Is
<1>3. b \notin hdrs
  BY <1>1 DEF BufOK, Blank
<1>4. b \in io => Is(b, "BUSY")
  BY <1>1 DEF BufOK
<1>5. ASSUME NEW p \in Proc, Mine(proc[p], b)
      PROVE  Is(b, "BUSY")
  <2>1. MineOK(proc[p], b, buf[b], b \in io)
    BY <1>1, <1>5 DEF BufOK
  <2> QED BY <1>1, <1>5, <2>1 DEF Mine, MineOK, BpOK, FirstOK, SaveOK, Blank, Is
<1> QED BY <1>1, <1>2, <1>3, <1>4, <1>5 DEF BufOK

\* Every buffer is accounted for.
LEMMA OwnershipFollows ==
    ASSUME IInv
    PROVE  Ownership
<1>1. IsInjective(free)
  BY DEF IInv, Places
<1>2. ASSUME NEW b \in Buf
      PROVE  LET place == <<b \in hdrs, b \in ToSet(free), Owners(b) # {}, Alone(b)>>
             IN  /\ Cardinality({i \in 1 .. 4 : place[i]}) = 1
                 /\ Cardinality(Owners(b)) <= 1
                 /\ buf[b].size > 0 => (Is(b, "BUSY") <=> b \notin ToSet(free))
  <2> DEFINE place == <<b \in hdrs, b \in ToSet(free), Owners(b) # {}, Alone(b)>>
             held == {i \in 1 .. 4 : place[i]}
  <2>1. \E i \in 1 .. 4 : held = {i}
    <3>1. /\ place[1] <=> b \in hdrs
          /\ place[2] <=> b \in ToSet(free)
          /\ place[3] <=> Owners(b) # {}
          /\ place[4] <=> Alone(b)
      OBVIOUS
    <3>2. /\ b \in hdrs => b \notin ToSet(free) /\ Owners(b) = {} /\ ~Alone(b)
          /\ b \in ToSet(free) => Owners(b) = {} /\ ~Alone(b)
          /\ Alone(b) => Owners(b) = {}
          /\ b \in hdrs \/ b \in ToSet(free) \/ Owners(b) # {} \/ Alone(b)
      BY PlaceOfOne
    <3> HIDE DEF place
    <3>3. CASE b \in hdrs
      <4>1. held = {1}
        BY <3>1, <3>2, <3>3
      <4> QED BY <4>1
    <3>4. CASE b \in ToSet(free)
      <4>1. held = {2}
        BY <3>1, <3>2, <3>4
      <4> QED BY <4>1
    <3>5. CASE Owners(b) # {}
      <4>1. held = {3}
        BY <3>1, <3>2, <3>5
      <4> QED BY <4>1
    <3>6. CASE Alone(b)
      <4>1. held = {4}
        BY <3>1, <3>2, <3>6
      <4> QED BY <4>1
    <3> QED BY <3>2, <3>3, <3>4, <3>5, <3>6
  <2>2. Cardinality(held) = 1
    BY <2>1, FS_Singleton
  <2>3. \A p, q \in Owners(b) : p = q
    <3>1. BufOK(b)
      BY DEF IInv, Places
    <3> QED BY <3>1, OwnersAre DEF BufOK
  <2>4. Cardinality(Owners(b)) <= 1
    <3>1. PICK n \in 0 .. 1 : n = Cardinality(Owners(b))
      BY <2>3, AtMostOne
    <3> QED BY <3>1
  <2> HIDE DEF place, held
  <2>5. Cardinality({i \in 1 .. 4 : place[i]}) = 1
    BY <2>2 DEF held
  <2> QED BY <2>4, <2>5, BusyUnlessFree DEF place
<1> QED BY <1>1, <1>2 DEF Ownership

\* Whoever sleeps has a reason to.
LEMMA SleepersFollow ==
    ASSUME IInv
    PROVE  SleepersWait
<1> SUFFICES ASSUME NEW p \in Proc
             PROVE  /\ proc[p].chan \in Buf => Is(proc[p].chan, "BUSY")
                                               /\ Is(proc[p].chan, "WANTED")
                    /\ proc[p].chan = "free" => "free" \in want /\ (free = <<>> \/ proc[p].raced)
                    /\ proc[p].chan = "hdr" => "hdr" \in want /\ hdrs = {}
                    /\ proc[p].chan = "async" => asyn.wait /\ asyn.cnt # 0
                    /\ proc[p].at \in {"biowait", "bwait"} /\ proc[p].chan # None =>
                         proc[p].bp \in io /\ ~Is(proc[p].bp, "ASYNC")
  BY DEF SleepersWait
<1>1. WaitOK(proc[p])
  BY DEF IInv, Waits
<1>2. proc[p].chan = "async" => asyn.wait /\ asyn.cnt # 0
  BY <1>1 DEF WaitOK
<1>3. ASSUME proc[p].at \in {"biowait", "bwait"}, proc[p].chan # None
      PROVE  proc[p].bp \in io /\ ~Is(proc[p].bp, "ASYNC")
  <2>1. proc[p].bp \in io
    BY <1>1, <1>3 DEF WaitOK
  <2>2. proc[p].bp \in Buf /\ BufOK(proc[p].bp)
    BY <2>1 DEF IInv, Typed, Places
  <2>3. proc[p].at \in Owning
    BY <1>3 DEF Owning
  <2>4. BpOK(proc[p], buf[proc[p].bp], proc[p].bp \in io)
    BY <2>2, <2>3 DEF BufOK, Mine, MineOK
  <2> QED BY <1>3, <2>1, <2>4 DEF BpOK, Is
<1> QED BY <1>1, <1>2, <1>3 DEF WaitOK

\* No block has two buffers, unless it is in twice.
LEMMA OneBufferFollows ==
    ASSUME IInv
    PROVE  OneBufferPerBlock
<1> SUFFICES ASSUME NEW k \in Blk \ twice
             PROVE  Cardinality(Matches(k)) <= 1
  BY DEF OneBufferPerBlock
<1>1. \A a, b \in Matches(k) : a = b
  BY DEF IInv, OneBuffer
<1>2. PICK n \in 0 .. 1 : n = Cardinality(Matches(k))
  BY <1>1, AtMostOne
<1> QED BY <1>2

\* The variables and what is on disk have their types.
THEOREM TypeCorrect == Spec => [](Typed /\ Disk)
<1>1. IInv /\ Disk => Typed /\ Disk
  BY DEF IInv
<1> QED BY <1>1, Invariant, PTL

\* Every buffer is in one place, and in the hands of one process at most:
\* what getnewbuf, getblk, brelse and the driver hand on is never given twice.
THEOREM OwnershipAlways == Spec => []Ownership
<1>1. IInv /\ Disk => Ownership
  BY OwnershipFollows
<1> QED BY <1>1, Invariant, PTL

\* A block has one valid buffer, unless a getblk slept in getfreeblk and did
\* not search the hash again.
THEOREM OneBufferAlways == Spec => []OneBufferPerBlock
<1>1. IInv /\ Disk => OneBufferPerBlock
  BY OneBufferFollows
<1> QED BY <1>1, Invariant, PTL

\* Who sleeps lacks what it waits for, and will be woken.
THEOREM SleepersAlwaysWait == Spec => []SleepersWait
<1>1. IInv /\ Disk => SleepersWait
  BY SleepersFollow
<1> QED BY <1>1, Invariant, PTL

-----------------------------------------------------------------------------
(* bdwait.                                                                 *)

\* Only a request larger than a page is broken up.
Large(p) == proc[p].at = "breakup" => buf[proc[p].bp].size > PAGESIZE
Larges == \A p \in Proc : Large(p)

\* A process goes on as r after s: it asks for memory only when it has found
\* no free buffer, it keeps its savebp for the block it was taken for, and
\* takes one that has the size of the block.
Asks(s) == IF s.blk = None THEN PAGESIZE ELSE bsize[s.blk]
Goes(s, r) ==
    /\ r.at = "kmem" => s.at = "nofree"
    /\ r.save # None => /\ r.blk = s.blk
                        /\ r.save = s.save \/ buf[r.save].size = Asks(s)

\* The buffers whose sizes a step of p may change.
Resized(p) ==
    {x \in Buf : /\ proc[p].at \in {"getfree", "nofree", "kmem"}
                 /\ x \in ToSet(free) \/ x \in hdrs \/ Mine(proc[p], x)}

\* What a step of p leaves to the others: they stay where they are, and the
\* buffers they have keep their sizes.
Turn(p) ==
    /\ \A q \in Proc \ {p} : Kept(proc[q], proc'[q])
    /\ \A x \in Buf \ Resized(p) : buf'[x].size = buf[x].size
    /\ Large(p)' /\ Goes(proc[p], proc'[p])

\* Hence the requests that the others have broken up stay large.
LEMMA LargesKept ==
    ASSUME IInv, Larges, NEW p \in Proc, Turn(p)
    PROVE  Larges'
<1> SUFFICES ASSUME NEW q \in Proc, q # p, proc'[q].at = "breakup"
             PROVE  buf'[proc'[q].bp].size > PAGESIZE
  BY DEF Larges, Large, Turn
<1>1. Kept(proc[q], proc'[q])
  BY DEF Turn
<1>2. proc[q].at = "breakup" /\ proc'[q].bp = proc[q].bp
  BY <1>1 DEF Kept
<1>3. PICK b \in Buf : b = proc[q].bp
  BY <1>2 DEF IInv, Typed, Locals, Local, HasOK, Owning, ProcT
<1>4. Mine(proc[q], b)
  BY <1>2, <1>3 DEF Mine, Owning
<1>5. b \notin ToSet(free) /\ b \notin hdrs /\ ~Mine(proc[p], b)
  BY <1>4 DEF IInv, Places, BufOK
<1>6. buf'[b].size = buf[b].size
  BY <1>5 DEF Turn, Resized
<1>7. buf[b].size > PAGESIZE
  BY <1>2, <1>3 DEF Larges, Large
<1> QED BY <1>2, <1>3, <1>6, <1>7

\* A step after which p goes on as r.
LEMMA GoTurn ==
    ASSUME IInv, NEW p \in Proc, NEW r, NEW C, Go(p, r, C), r.at # "breakup", Goes(proc[p], r),
           \A x \in Buf \ Resized(p) : buf'[x].size = buf[x].size
    PROVE  Turn(p)
<1>1. proc \in [Proc -> ProcT]
  BY DEF IInv, Typed
<1>2. PICK w : w = Woken(proc, C)
  OBVIOUS
<1>3. w \in [Proc -> ProcT] /\ \A q \in Proc : Stays(proc[q], w[q], C)
  BY <1>1, <1>2, WokenIs
<1>4. proc' = [w EXCEPT ![p] = r]
  BY <1>2 DEF Go
<1>5. proc'[p] = r /\ \A q \in Proc \ {p} : proc'[q] = w[q]
  BY <1>3, <1>4
<1> QED BY <1>3, <1>5 DEF Turn, Stays, Large

\* A step in which p hands b to the strategy routine.
LEMMA StrategyTurn ==
    ASSUME IInv, NEW p \in Proc, NEW b \in Buf, NEW t \in [Buf -> HeaderT], NEW r \in ProcT,
           r.chan = None, r.at \in {"wrote", "bwait", "biowait", "ra", "join"}, Goes(proc[p], r),
           Strategy(p, b, t, r), \A x \in Buf : t[x].size = buf[x].size
    PROVE  Turn(p)
<1>1. proc \in [Proc -> ProcT]
  BY DEF IInv, Typed
<1>2. r.at \notin {"user", "hold", "kmem"}
  OBVIOUS
<1>3. /\ buf' = t /\ io' = io \cup {b}
      /\ \E v \in ProcT :
           /\ Go(p, v, {}) /\ proc'[p] = v /\ Others({p}, {}) /\ cpu' \in {None, p}
           /\ \/ v = r /\ cpu' = p
              \/ /\ v.at = "breakup" /\ v.then = r.at /\ v.chan = "dma" /\ v.bp = b
                 /\ v.call = r.call /\ v.first = r.first /\ v.save = r.save
                 /\ v.blk = r.blk /\ v.back = r.back
                 /\ v.slept = (r.slept \/ r.back = "getfree") /\ cpu' = None
                 /\ t[b].size > PAGESIZE
  BY <1>1, <1>2, StrategyIs
<1>4. PICK v \in ProcT : /\ proc'[p] = v /\ Others({p}, {})
                         /\ \/ v = r
                            \/ /\ v.bp = b /\ t[b].size > PAGESIZE /\ v.at = "breakup"
                               /\ v.save = r.save /\ v.blk = r.blk
  BY <1>3
<1>5. Large(p)' /\ Goes(proc[p], proc'[p])
  BY <1>3, <1>4 DEF Large, Goes
<1> QED BY <1>3, <1>4, <1>5 DEF Turn, Others, Stays

\* By bwrite.
LEMMA BwriteTurn ==
    ASSUME IInv, NEW p \in Proc, NEW b \in Buf, NEW t \in [Buf -> HeaderT], NEW r \in ProcT,
           r.chan = None, Bwrite(p, b, t, r), \A x \in Buf : t[x].size = buf[x].size,
           Goes(proc[p], r)
    PROVE  Turn(p)
<1>1. \E u \in [Buf -> HeaderT], w \in ProcT : Writes(b, t, r, u, w) /\ Strategy(p, b, u, w)
  BY BwriteIs
<1>2. PICK u \in [Buf -> HeaderT], w \in ProcT : Writes(b, t, r, u, w) /\ Strategy(p, b, u, w)
  BY ONLY <1>1
<1>3. w.chan = None /\ w.at \in {"wrote", "bwait"} /\ Goes(proc[p], w)
  BY <1>2 DEF Writes, Goes
<1>4. \A x \in Buf : u[x].size = buf[x].size
  BY <1>2 DEF Writes, Flagged
<1> QED BY <1>2, <1>3, <1>4, StrategyTurn

\* A step with which p gives b back.
LEMMA BrelseTurn ==
    ASSUME IInv, NEW p \in Proc, NEW b \in Buf, NEW t \in [Buf -> HeaderT], NEW r \in ProcT,
           r.chan = None, r.at # "breakup", Goes(proc[p], r),
           Brelse(b, t, [proc EXCEPT ![p] = r]),
           \A x \in Buf : t[x].size = buf[x].size
    PROVE  Turn(p)
<1>1. proc \in [Proc -> ProcT]
  BY DEF IInv, Typed
<1>2. PICK C : C = Wanted(t, b)
  OBVIOUS
<1>3. buf' = Released(t, b) /\ proc' = Woken([proc EXCEPT ![p] = r], C)
  BY <1>2 DEF Brelse
<1>4. \A x \in Buf : buf'[x].size = buf[x].size
  BY <1>3, ReleasedIs
<1>5. Others({p}, C) /\ proc'[p] = r
  BY <1>1, <1>3, WakeIs
<1> QED BY <1>4, <1>5 DEF Turn, Others, Stays, Large

\* Marks do not change sizes.
LEMMA SetSizes ==
    ASSUME NEW t \in [Buf -> HeaderT], NEW b \in Buf, NEW F \in SUBSET Flags
    PROVE  /\ Set(t, b, F) \in [Buf -> HeaderT] /\ Clear(t, b, F) \in [Buf -> HeaderT]
           /\ \A x \in Buf : Set(t, b, F)[x].size = t[x].size /\ Clear(t, b, F)[x].size = t[x].size
BY SetIs, ClearIs DEF Flagged

\* Calls, and what getblk does before it has a buffer.
LEMMA SearchTurn ==
    ASSUME IInv, NEW p \in Proc,
           (\E c \in Calls : Start(p, c)) \/ Search(p) \/ ReadAhead(p) \/ Wrote(p) \/ Bdwait(p)
    PROVE  Turn(p)
<1>1. PICK s \in ProcT : s = proc[p] /\ Local(s)
  BY DEF IInv, Typed, Locals
<1>2. UNCHANGED buf
  BY DEF Start, Search, ReadAhead, Wrote, Bdwait
<1>3. User.at = "user" /\ User.save = None
  BY DEF User
<1>4. ASSUME NEW c \in Calls, Start(p, c)
      PROVE  Turn(p)
  <2>1. PICK a : a = CASE c.op \in {"bread", "getblk"} -> "getblk"
                       [] c.op = "breada" -> IF Incore(c.blk) THEN "ra" ELSE "getblk"
                       [] c.op = "ngeteblk" -> "getfree"
                       [] c.op = "blkflush" -> "blkflush"
                       [] OTHER -> "bflush"
    OBVIOUS
  <2>2. a # "breakup"
    BY <2>1
  <2>3. PICK r : r = [User EXCEPT !.call = c, !.blk = c.blk, !.at = a]
    OBVIOUS
  <2>4. r.at = a /\ Goes(s, r)
    BY <2>1, <2>3 DEF User, Goes
  <2>5. Go(p, r, {})
    BY <1>4, <2>1, <2>3 DEF Start
  <2> QED BY <1>1, <1>2, <2>2, <2>4, <2>5, GoTurn
<1>5. ASSUME Search(p)
      PROVE  Turn(p)
  <2>1. PICK r : Go(p, r, {}) /\ \/ \E b \in Buf : r = [s EXCEPT !.at = "match", !.bp = b]
                                 \/ r = [s EXCEPT !.at = "getfree", !.slept = FALSE]
    BY <1>1, <1>5 DEF Search, Matches
  <2>2. r.at # "breakup" /\ Goes(s, r)
    BY <2>1 DEF ProcT, Goes
  <2> QED BY <1>1, <1>2, <2>1, <2>2, GoTurn
<1>6. ASSUME ReadAhead(p)
      PROVE  Turn(p)
  <2>1. PICK r : /\ Go(p, r, {})
                 /\ \/ r = [s EXCEPT !.at = "getblk", !.blk = s.call.ra]
                    \/ r = [s EXCEPT !.at = "join"]
                    \/ r = [s EXCEPT !.at = "getblk", !.blk = s.call.blk, !.call.op = "bread"]
                    \/ r = [s EXCEPT !.at = "biowait", !.bp = s.first, !.first = None,
                                     !.blk = s.call.blk]
    BY <1>1, <1>6 DEF ReadAhead
  <2>2. s.save = None
    <3>1. s.at \in {"ra", "join"}
      BY <1>1, <1>6 DEF ReadAhead, Runs
    <3> QED BY <1>1, <3>1 DEF Local, HasOK, BackOK, Broken
  <2>3. r.at # "breakup" /\ Goes(s, r)
    BY <2>1, <2>2 DEF ProcT, Goes
  <2> QED BY <1>1, <1>2, <2>1, <2>3, GoTurn
<1>7. ASSUME Wrote(p)
      PROVE  Turn(p)
  <2>1. PICK r : /\ Go(p, r, {})
                 /\ r = IF s.back = "user" THEN User ELSE [s EXCEPT !.at = s.back, !.back = "user"]
    BY <1>1, <1>7 DEF Wrote
  <2>2. s.back # "breakup"
    BY <1>1 DEF Local, BackOK
  <2>3. s.back # "kmem"
    BY <1>1 DEF Local, BackOK
  <2>4. r.at # "breakup" /\ Goes(s, r)
    BY <1>3, <2>1, <2>2, <2>3 DEF ProcT, Goes
  <2> QED BY <1>1, <1>2, <2>1, <2>4, GoTurn
<1>8. ASSUME Bdwait(p)
      PROVE  Turn(p)
  <2>1. PICK r : Go(p, r, {}) /\ (r = [s EXCEPT !.at = "bdwait", !.chan = "async"] \/ r = User)
    BY <1>1, <1>8 DEF Bdwait, Sleep
  <2>2. r.at # "breakup" /\ Goes(s, r)
    BY <1>3, <2>1 DEF ProcT, Goes
  <2> QED BY <1>1, <1>2, <2>1, <2>2, GoTurn
<1> QED BY <1>4, <1>5, <1>6, <1>7, <1>8

\* getblk takes a buffer it found; getfreeblk writes a free buffer, keeps it
\* or gives its memory back.
LEMMA TakeTurn ==
    ASSUME IInv, NEW p \in Proc, Match(p) \/ Getfree(p)
    PROVE  Turn(p)
<1>1. /\ buf \in [Buf -> HeaderT] /\ proc \in [Proc -> ProcT]
      /\ free \in Seq(Buf) /\ IsInjective(free)
  BY DEF IInv, Typed, Places
<1>2. PICK s \in ProcT : s = proc[p]
  BY <1>1
<1>3. ASSUME Match(p)
      PROVE  Turn(p)
  <2>1. s.at = "match" /\ s.chan = None /\ Local(s)
    BY <1>2, <1>3, RunsIs DEF Match
  <2>2. PICK b \in Buf : b = s.bp
    BY <2>1 DEF Local, HasOK, ProcT
  <2>3. PICK r : /\ Go(p, r, {})
                 /\ \/ buf' = Set(buf, b, {"WANTED"})
                       /\ r = [s EXCEPT !.at = "getblk", !.bp = None, !.chan = b]
                    \/ buf' = Set(Clear(buf, b, {"AGE"}), b, {"BUSY"})
                       /\ r = [s EXCEPT !.at = "got"]
    BY <1>2, <1>3, <2>2 DEF Match
  <2>4. r.at # "breakup" /\ Goes(s, r)
    BY <2>3 DEF ProcT, Goes
  <2>5. \A x \in Buf : buf'[x].size = buf[x].size
    <3>1. {"WANTED"} \in SUBSET Flags /\ {"BUSY"} \in SUBSET Flags /\ {"AGE"} \in SUBSET Flags
      BY DEF Flags
    <3>2. \A x \in Buf : Set(buf, b, {"WANTED"})[x].size = buf[x].size
      BY <1>1, <3>1, SetSizes
    <3>3. PICK c \in [Buf -> HeaderT] : /\ c = Clear(buf, b, {"AGE"})
                                        /\ \A x \in Buf : c[x].size = buf[x].size
      BY <1>1, <3>1, SetSizes
    <3>4. \A x \in Buf : Set(c, b, {"BUSY"})[x].size = c[x].size
      BY <3>1, SetSizes
    <3> QED BY <2>3, <3>2, <3>3, <3>4
  <2>6. Go(p, r, {})
    BY <2>3
  <2> QED BY <1>2, <2>4, <2>5, <2>6, GoTurn
<1>4. ASSUME Getfree(p)
      PROVE  Turn(p)
  <2>1. s.at = "getfree" /\ s.chan = None
    BY <1>2, <1>4, RunsIs DEF Getfree
  <2>2. CASE Go(p, [s EXCEPT !.at = "nofree"], {}) /\ UNCHANGED buf
    <3>1. PICK r : r = [s EXCEPT !.at = "nofree"]
      OBVIOUS
    <3>2. r.at # "breakup" /\ Goes(s, r)
      BY <3>1 DEF ProcT, Goes
    <3> QED BY <1>2, <2>2, <3>1, <3>2, GoTurn
  <2>3. ASSUME free # <<>>
        PROVE  Head(free) \in Buf /\ Head(free) \in ToSet(free)
    BY <1>1, <2>3, TailIs, ListIs
  <2>4. ASSUME NEW b, b = Head(free), free # <<>>,
               Bwrite(p, b, Set(Set(buf, b, {"BUSY"}), b, {"ASYNC", "AGE"}),
                      [s EXCEPT !.back = "getfree"])
        PROVE  Turn(p)
    <3>1. PICK t : t = Set(Set(buf, b, {"BUSY"}), b, {"ASYNC", "AGE"})
      OBVIOUS
    <3>2. t \in [Buf -> HeaderT] /\ \A x \in Buf : t[x].size = buf[x].size
      BY <1>1, <2>3, <2>4, <3>1, SetSizes DEF Flags
    <3>3. PICK r : r = [s EXCEPT !.back = "getfree"]
      OBVIOUS
    <3>4. r \in ProcT /\ r.chan = None /\ Goes(s, r)
      BY <2>1, <3>3 DEF ProcT, Where, Goes
    <3> QED BY <1>2, <2>3, <2>4, <3>1, <3>2, <3>3, <3>4, BwriteTurn
  <2>5. ASSUME NEW b, b = Head(free), free # <<>>,
               buf' = [Set(buf, b, {"BUSY"}) EXCEPT ![b].blk = None],
               buf[b].size = Size(p), Go(p, [s EXCEPT !.save = b], {})
        PROVE  Turn(p)
    <3>1. PICK t \in [Buf -> HeaderT] : /\ t = Set(buf, b, {"BUSY"})
                                        /\ \A x \in Buf : t[x].size = buf[x].size
      BY <1>1, <2>3, <2>5, SetSizes DEF Flags
    <3>2. \A x \in Buf \ {b} : buf'[x].size = buf[x].size
      BY <2>5, <3>1
    <3>3. PICK r : r = [s EXCEPT !.save = b]
      OBVIOUS
    <3>4. r.at # "breakup" /\ Goes(s, r)
      <4>1. r.at = s.at /\ r.blk = s.blk /\ r.save = b
        BY <3>3 DEF ProcT
      <4> QED BY <1>2, <2>1, <2>5, <4>1 DEF Goes, Asks, Size
    <3>5. b \in Resized(p)
      BY <1>2, <2>1, <2>3, <2>5 DEF Resized
    <3> QED BY <1>2, <2>5, <3>2, <3>3, <3>4, <3>5, GoTurn
  <2>6. ASSUME NEW b, b = Head(free), free # <<>>, buf' = [buf EXCEPT ![b] = Header],
               NEW C, Go(p, s, C)
        PROVE  Turn(p)
    <3>1. \A x \in Buf \ {b} : buf'[x].size = buf[x].size
      BY <1>1, <2>6
    <3>2. b \in Resized(p)
      BY <1>2, <2>1, <2>3, <2>6 DEF Resized
    <3>3. s.at # "breakup" /\ Goes(s, s)
      BY <2>1 DEF Goes
    <3> QED BY <1>2, <2>6, <3>1, <3>2, <3>3, GoTurn
  <2>7. PICK b : b = Head(free)
    OBVIOUS
  <2>8. \/ Go(p, [s EXCEPT !.at = "nofree"], {}) /\ UNCHANGED buf
        \/ /\ free # <<>>
           /\ Bwrite(p, b, Set(Set(buf, b, {"BUSY"}), b, {"ASYNC", "AGE"}),
                     [s EXCEPT !.back = "getfree"])
        \/ /\ free # <<>> /\ buf' = [Set(buf, b, {"BUSY"}) EXCEPT ![b].blk = None]
           /\ buf[b].size = Size(p) /\ Go(p, [s EXCEPT !.save = b], {})
        \/ free # <<>> /\ buf' = [buf EXCEPT ![b] = Header] /\ \E C : Go(p, s, C)
    BY <1>2, <1>4, <2>7 DEF Getfree
  <2> QED BY <2>2, <2>4, <2>5, <2>6, <2>7, <2>8
<1> QED BY <1>3, <1>4

\* p has memory for a header, or waits for it.
LEMMA NofreeTurn ==
    ASSUME IInv, NEW p \in Proc, Nofree(p) \/ Kmem(p)
    PROVE  Turn(p)
<1>1. /\ buf \in [Buf -> HeaderT] /\ proc \in [Proc -> ProcT]
      /\ None \notin Buf /\ hdrs \subseteq Buf
  BY BioAssumption DEF IInv, Typed
<1>2. PICK s \in ProcT : s = proc[p] /\ Local(s)
  BY DEF IInv, Typed, Locals
<1>3. ASSUME NEW b \in Buf, Assign(p, b), b \in hdrs \/ Mine(s, b), s.at \in {"nofree", "kmem"}
      PROVE  Turn(p)
  <2>1. Go(p, [s EXCEPT !.at = "got", !.bp = b, !.save = None, !.slept = FALSE], {})
    BY <1>2, <1>3 DEF Assign
  <2>2. PICK r : r = [s EXCEPT !.at = "got", !.bp = b, !.save = None, !.slept = FALSE]
    OBVIOUS
  <2>3. \A x \in Buf \ {b} : buf'[x] = buf[x]
    BY <1>1, <1>3 DEF Assign
  <2>4. r.at # "breakup" /\ Goes(s, r)
    BY <2>2 DEF ProcT, Goes
  <2>5. b \in Resized(p)
    BY <1>2, <1>3 DEF Resized
  <2> QED BY <1>2, <2>1, <2>2, <2>3, <2>4, <2>5, GoTurn
<1>4. ASSUME NEW r, Go(p, r, {}), r.at # "breakup", Goes(s, r), UNCHANGED buf
      PROVE  Turn(p)
  BY <1>2, <1>4, GoTurn
<1>5. ASSUME Kmem(p)
      PROVE  Turn(p)
  <2>1. s.at = "kmem" /\ Assign(p, s.bp)
    BY <1>2, <1>5 DEF Kmem, Runs
  <2>2. s.bp \in Buf
    BY <1>2, <2>1 DEF Local, HasOK, Owning, ProcT
  <2>3. Mine(s, s.bp)
    BY <2>1 DEF Mine, Owning
  <2> QED BY <1>3, <2>1, <2>2, <2>3
<1>6. ASSUME Nofree(p)
      PROVE  Turn(p)
  <2>1. PICK l : l = [s EXCEPT !.at = Loop(p), !.slept = FALSE]
    OBVIOUS
  <2>2. s.at = "nofree"
    BY <1>2, <1>6 DEF Nofree, Runs
  <2>3. PICK f : f = [l EXCEPT !.chan = "free", !.raced = (free # <<>>)]
    OBVIOUS
  <2>4. PICK h : h = [l EXCEPT !.chan = "hdr"]
    OBVIOUS
  <2>5. /\ f.at # "breakup" /\ Goes(s, f)
        /\ h.at # "breakup" /\ Goes(s, h)
    BY <2>1, <2>2, <2>3, <2>4 DEF ProcT, Loop, Goes
  <2>6. ASSUME NEW b \in hdrs, NEW r, r = [s EXCEPT !.at = "kmem", !.bp = b, !.slept = TRUE]
        PROVE  r.at # "breakup" /\ Goes(s, r)
    BY <2>2, <2>6 DEF ProcT, Goes
  <2>7. s.save # None => s.save \in Buf /\ Mine(s, s.save)
    BY DEF ProcT, Mine
  <2>8. \/ s.save # None /\ Assign(p, s.save)
        \/ Go(p, f, {}) /\ UNCHANGED buf
        \/ Go(p, h, {}) /\ UNCHANGED buf
        \/ \E b \in hdrs :
             \/ Assign(p, b)
             \/ Go(p, [s EXCEPT !.at = "kmem", !.bp = b, !.slept = TRUE], {}) /\ UNCHANGED buf
    BY <1>2, <1>6, <2>1, <2>3, <2>4 DEF Nofree
  <2> QED BY <1>1, <1>3, <1>4, <2>2, <2>5, <2>6, <2>7, <2>8
<1> QED BY <1>5, <1>6

\* bread and breada start a request or return the buffer.
LEMMA GotTurn ==
    ASSUME IInv, NEW p \in Proc, Got(p)
    PROVE  Turn(p)
<1>1. /\ buf \in [Buf -> HeaderT] /\ {"READ"} \in SUBSET Flags /\ {"READ", "ASYNC"} \in SUBSET Flags
  BY DEF IInv, Typed, Flags
<1>2. PICK s \in ProcT : /\ s = proc[p] /\ s.at = "got" /\ s.chan = None /\ Local(s)
  BY RunsIs DEF Got
<1>3. PICK b \in Buf : b = s.bp
  BY <1>2 DEF Local, HasOK, Owning, ProcT
<1>4. PICK m : m = IF s.call.op = "breada" THEN [s EXCEPT !.at = "ra", !.first = b, !.bp = None]
                   ELSE [s EXCEPT !.at = "biowait"]
  OBVIOUS
<1>5. m \in ProcT /\ m.chan = None /\ m.at \in {"ra", "biowait"} /\ Goes(s, m)
  <2>1. s \in ProcT /\ s.chan = None /\ b \in Buf
    BY <1>2
  <2>2. CASE s.call.op = "breada"
    <3>1. m = [s EXCEPT !.at = "ra", !.first = b, !.bp = None]
      BY <1>4, <2>2
    <3> QED BY ONLY <2>1, <3>1 DEF ProcT, Where, Goes
  <2>3. CASE s.call.op # "breada"
    <3>1. m = [s EXCEPT !.at = "biowait"]
      BY <1>4, <2>3
    <3> QED BY ONLY <2>1, <3>1 DEF ProcT, Where, Goes
  <2> QED BY <2>2, <2>3
<1>6. PICK j : j = [s EXCEPT !.at = "join", !.bp = None]
  OBVIOUS
<1>7. j \in ProcT /\ j.chan = None /\ j.at = "join" /\ Goes(s, j)
  <2>1. s \in ProcT /\ s.chan = None
    BY <1>2
  <2> QED BY ONLY <1>6, <2>1 DEF ProcT, Where, Goes
<1>8. PICK h : h = [s EXCEPT !.at = "hold"]
  OBVIOUS
<1>9. h.at = "hold" /\ Goes(s, h)
  BY <1>8 DEF ProcT, Goes
<1>10. \/ Go(p, h, {}) /\ UNCHANGED buf
       \/ Go(p, m, {}) /\ UNCHANGED buf
       \/ Strategy(p, b, Set(buf, b, {"READ"}), m)
       \/ Brelse(b, buf, [proc EXCEPT ![p] = j])
       \/ Strategy(p, b, Set(buf, b, {"READ", "ASYNC"}), j)
  BY <1>2, <1>3, <1>4, <1>6, <1>8 DEF Got
<1>11. CASE UNCHANGED buf /\ (Go(p, h, {}) \/ Go(p, m, {}))
  BY <1>2, <1>5, <1>9, <1>11, GoTurn
<1>12. CASE Brelse(b, buf, [proc EXCEPT ![p] = j])
  BY <1>1, <1>2, <1>7, <1>12, BrelseTurn
<1>13. CASE Strategy(p, b, Set(buf, b, {"READ"}), m)
  <2>1. PICK t \in [Buf -> HeaderT] : /\ t = Set(buf, b, {"READ"})
                                      /\ \A x \in Buf : t[x].size = buf[x].size
    BY <1>1, SetSizes
  <2> QED BY <1>2, <1>5, <1>13, <2>1, StrategyTurn
<1>14. CASE Strategy(p, b, Set(buf, b, {"READ", "ASYNC"}), j)
  <2>1. PICK t \in [Buf -> HeaderT] : /\ t = Set(buf, b, {"READ", "ASYNC"})
                                      /\ \A x \in Buf : t[x].size = buf[x].size
    BY <1>1, SetSizes
  <2> QED BY <1>2, <1>7, <1>14, <2>1, StrategyTurn
<1> QED BY <1>10, <1>11, <1>12, <1>13, <1>14

\* What biodone does to sizes and to what processes do.
LEMMA BiodoneFrame ==
    ASSUME IInv, NEW b \in Buf, NEW t \in [Buf -> HeaderT], NEW f \in [Proc -> ProcT],
           Biodone(b, t, f)
    PROVE  /\ \A x \in Buf : buf'[x].size = t[x].size
           /\ \A q \in Proc : Kept(f[q], proc'[q])
<1>1. {"DONE"} \in SUBSET Flags
  BY DEF Flags
<1>2. PICK d \in [Buf -> HeaderT] : /\ d = Set(t, b, {"DONE"})
                                    /\ \A x \in Buf : d[x].size = t[x].size
  BY <1>1, SetSizes
<1>3. CASE "ASYNC" \in t[b].flags
  <2>1. PICK g : /\ g = Woken(f, {"async"}) \/ g = f
                 /\ Brelse(b, d, g)
    BY <1>2, <1>3 DEF Biodone
  <2>2. g \in [Proc -> ProcT] /\ \A q \in Proc : Kept(f[q], g[q])
    <3>1. CASE g = Woken(f, {"async"})
      BY <3>1, WokenIs DEF Stays
    <3>2. CASE g = f
      BY <3>2 DEF Kept
    <3> QED BY <2>1, <3>1, <3>2
  <2>3. buf' = Released(d, b) /\ proc' = Woken(g, Wanted(d, b))
    BY <2>1 DEF Brelse
  <2>4. \A q \in Proc : Kept(g[q], proc'[q])
    BY <2>2, <2>3, WokenIs DEF Stays
  <2>5. \A q \in Proc : Kept(f[q], proc'[q])
    BY <2>2, <2>4 DEF Kept
  <2>6. \A x \in Buf : buf'[x].size = d[x].size
    <3>1. \A x \in Buf : x # b => buf'[x] = d[x]
      BY <2>3, ReleasedIs
    <3>2. buf'[b].size = d[b].size
      BY <2>3, ReleasedIs
    <3> QED BY <3>1, <3>2
  <2> QED BY <1>2, <2>5, <2>6
<1>4. CASE "ASYNC" \notin t[b].flags
  <2>1. buf' = Clear(d, b, {"WANTED"}) /\ proc' = Woken(f, {b})
    BY <1>2, <1>4 DEF Biodone
  <2>2. \A q \in Proc : Kept(f[q], proc'[q])
    BY <2>1, WokenIs DEF Stays
  <2>3. \A x \in Buf : buf'[x].size = d[x].size
    BY <2>1, ClearIs DEF Flagged
  <2> QED BY <1>2, <2>2, <2>3
<1> QED BY <1>3, <1>4

\* A broken-up request is done.
LEMMA BreakupTurn ==
    ASSUME IInv, NEW p \in Proc, Breakup(p)
    PROVE  Turn(p)
<1>1. buf \in [Buf -> HeaderT] /\ proc \in [Proc -> ProcT]
  BY DEF IInv, Typed
<1>2. PICK s \in ProcT : /\ s = proc[p] /\ s.at = "breakup" /\ s.chan = None /\ Local(s)
  BY RunsIs DEF Breakup
<1>3. PICK b \in Buf : b = s.bp
  BY <1>2 DEF Local, HasOK, Owning, ProcT
<1>4. s.then \in {"wrote", "bwait", "biowait", "ra", "join"}
  BY <1>2 DEF Local, BackOK
<1>5. PICK i : i = IF s.then \in {"wrote", "join", "ra"} THEN [s EXCEPT !.at = s.then, !.bp = None]
                   ELSE [s EXCEPT !.at = s.then]
  OBVIOUS
<1>6. PICK r : r = [i EXCEPT !.then = "user"]
  OBVIOUS
<1>7. i \in ProcT /\ i.at = s.then /\ i.save = s.save /\ i.blk = s.blk
  <2>1. s \in ProcT /\ s.then \in {"wrote", "bwait", "biowait", "ra", "join"}
    BY <1>4
  <2>2. CASE s.then \in {"wrote", "join", "ra"}
    <3>1. i = [s EXCEPT !.at = s.then, !.bp = None]
      BY <1>5, <2>2
    <3> QED BY ONLY <2>1, <3>1 DEF ProcT, Where
  <2>3. CASE s.then \notin {"wrote", "join", "ra"}
    <3>1. i = [s EXCEPT !.at = s.then]
      BY <1>5, <2>3
    <3> QED BY ONLY <2>1, <3>1 DEF ProcT, Where
  <2> QED BY <2>2, <2>3
<1>8. r \in ProcT /\ r.at # "breakup" /\ Goes(s, r)
  BY <1>4, <1>6, <1>7 DEF ProcT, Where, Goes
<1>9. PICK f \in [Proc -> ProcT] : f = [proc EXCEPT ![p] = r]
  BY <1>1, <1>8
<1>10. Biodone(b, buf, f)
  BY <1>2, <1>3, <1>5, <1>6, <1>9 DEF Breakup
<1>11. /\ \A x \in Buf : buf'[x].size = buf[x].size
       /\ \A q \in Proc : Kept(f[q], proc'[q])
  BY <1>1, <1>10, BiodoneFrame
<1>12. f[p] = r /\ \A q \in Proc \ {p} : f[q] = proc[q]
  BY <1>1, <1>9
<1>13. proc'[p].at # "breakup" /\ \A q \in Proc \ {p} : Kept(proc[q], proc'[q])
  BY <1>8, <1>11, <1>12 DEF Kept
<1>14. Goes(proc[p], proc'[p])
  BY <1>2, <1>8, <1>11, <1>12 DEF Kept, Goes
<1> QED BY <1>11, <1>13, <1>14 DEF Turn, Large

\* p waits for its buffer, or has it; bwrite releases it.
LEMMA BiowaitTurn ==
    ASSUME IInv, NEW p \in Proc, Biowait(p)
    PROVE  Turn(p)
<1>1. buf \in [Buf -> HeaderT] /\ {"WANTED"} \in SUBSET Flags
  BY DEF IInv, Typed, Flags
<1>2. PICK s \in ProcT : /\ s = proc[p] /\ s.at \in {"biowait", "bwait"} /\ s.chan = None
                         /\ Local(s)
  BY RunsIs DEF Biowait
<1>3. PICK b \in Buf : b = s.bp
  BY <1>2 DEF Local, HasOK, Owning, ProcT
<1>4. PICK r : r = IF s.back = "user" THEN User
                   ELSE [s EXCEPT !.at = s.back, !.back = "user", !.bp = None]
  OBVIOUS
<1>5. r \in ProcT /\ r.chan = None /\ r.at # "breakup" /\ Goes(s, r)
  <2>1. s.back \in {"user", "blkflush"}
    BY <1>2 DEF Local, BackOK, Broken
  <2>2. CASE s.back = "user"
    BY <1>4, <2>2, UserIs DEF User, Goes
  <2>3. CASE s.back = "blkflush"
    <3>1. s \in ProcT /\ s.chan = None
      BY <1>2
    <3>2. r = [s EXCEPT !.at = "blkflush", !.back = "user", !.bp = None]
      BY <1>4, <2>3
    <3> QED BY ONLY <3>1, <3>2 DEF ProcT, Where, Goes
  <2> QED BY <2>1, <2>2, <2>3
<1>6. \/ buf' = Set(buf, b, {"WANTED"}) /\ Go(p, [s EXCEPT !.at = s.at, !.chan = b], {})
      \/ Go(p, [s EXCEPT !.at = "hold"], {}) /\ UNCHANGED buf
      \/ Brelse(b, buf, [proc EXCEPT ![p] = r])
  BY <1>2, <1>3, <1>4 DEF Biowait, Sleep
<1>7. ASSUME NEW u, u = [s EXCEPT !.at = s.at, !.chan = b] \/ u = [s EXCEPT !.at = "hold"]
      PROVE  u.at # "breakup" /\ Goes(s, u)
  BY <1>2, <1>7 DEF ProcT, Goes
<1>8. CASE buf' = Set(buf, b, {"WANTED"}) /\ Go(p, [s EXCEPT !.at = s.at, !.chan = b], {})
  <2>1. \A x \in Buf : buf'[x].size = buf[x].size
    BY <1>1, <1>8, SetSizes
  <2> QED BY <1>2, <1>7, <1>8, <2>1, GoTurn
<1>9. CASE Go(p, [s EXCEPT !.at = "hold"], {}) /\ UNCHANGED buf
  BY <1>2, <1>7, <1>9, GoTurn
<1>10. CASE Brelse(b, buf, [proc EXCEPT ![p] = r])
  BY <1>1, <1>2, <1>5, <1>10, BrelseTurn
<1> QED BY <1>6, <1>8, <1>9, <1>10

\* The caller gives its buffer back.
LEMMA FinishTurn ==
    ASSUME IInv, NEW p \in Proc, Finish(p)
    PROVE  Turn(p)
<1>1. buf \in [Buf -> HeaderT]
  BY DEF IInv, Typed
<1>2. PICK s \in ProcT : /\ s = proc[p] /\ s.at = "hold" /\ s.chan = None /\ Local(s)
  BY RunsIs DEF Finish
<1>3. PICK b \in Buf : b = s.bp
  BY <1>2 DEF Local, HasOK, Owning, ProcT
<1>4. PICK r \in ProcT : r = User /\ r.chan = None /\ r.at = "user" /\ Goes(s, r)
  BY UserIs DEF User, Goes
<1>5. PICK m \in [Buf -> HeaderT] : /\ m = Modified(b)
                                    /\ \A x \in Buf : m[x].size = buf[x].size
  BY <1>1, ModifiedIs
<1>6. ASSUME NEW F \in SUBSET Flags
      PROVE  Set(m, b, F) \in [Buf -> HeaderT] /\ \A x \in Buf : Set(m, b, F)[x].size = buf[x].size
  BY <1>5, SetSizes
<1>7. {"DELWRI", "DONE"} \in SUBSET Flags /\ {"ASYNC"} \in SUBSET Flags /\ {} \in SUBSET Flags
  BY DEF Flags
<1>8. \/ Brelse(b, buf, [proc EXCEPT ![p] = r])
      \/ Brelse(b, Set(m, b, {"DELWRI", "DONE"}), [proc EXCEPT ![p] = r])
      \/ \E F \in {{"ASYNC"}, {}} : Bwrite(p, b, Set(m, b, F), s)
  BY <1>2, <1>3, <1>4, <1>5 DEF Finish
<1>9. ASSUME NEW t \in [Buf -> HeaderT], Brelse(b, t, [proc EXCEPT ![p] = r]),
             \A x \in Buf : t[x].size = buf[x].size
      PROVE  Turn(p)
  BY <1>2, <1>4, <1>9, BrelseTurn
<1>10. ASSUME NEW F \in {{"ASYNC"}, {}}, Bwrite(p, b, Set(m, b, F), s)
       PROVE  Turn(p)
  <2>1. Goes(s, s)
    BY <1>2 DEF Goes
  <2> QED BY <1>2, <1>6, <1>7, <1>10, <2>1, BwriteTurn
<1> QED BY <1>1, <1>6, <1>7, <1>8, <1>9, <1>10

\* blkflush and bflush.
LEMMA FlushTurn ==
    ASSUME IInv, NEW p \in Proc, Blkflush(p) \/ Bflush(p)
    PROVE  Turn(p)
<1>1. /\ buf \in [Buf -> HeaderT] /\ free \in Seq(Buf) /\ IsInjective(free)
      /\ {"WANTED"} \in SUBSET Flags /\ {"BUSY"} \in SUBSET Flags
      /\ {"BUSY", "ASYNC"} \in SUBSET Flags
  BY DEF IInv, Typed, Places, Flags
<1>2. PICK s \in ProcT : s = proc[p] /\ s.at \in {"blkflush", "bflush"} /\ s.chan = None
  BY RunsIs DEF Blkflush, Bflush
<1>3. ASSUME NEW b \in Buf, NEW F \in {{"BUSY"}, {"BUSY", "ASYNC"}},
             NEW k \in {"blkflush", "bflush"},
             Bwrite(p, b, Set(buf, b, F), [s EXCEPT !.back = k])
      PROVE  Turn(p)
  <2>1. PICK r : r = [s EXCEPT !.back = k]
    OBVIOUS
  <2>2. r \in ProcT /\ r.chan = None /\ Goes(s, r)
    BY <1>2, <2>1 DEF ProcT, Where, Goes
  <2>3. PICK t \in [Buf -> HeaderT] : /\ t = Set(buf, b, F)
                                      /\ \A x \in Buf : t[x].size = buf[x].size
    BY <1>1, SetSizes
  <2> QED BY <1>2, <1>3, <2>1, <2>2, <2>3, BwriteTurn
<1>4. ASSUME NEW r, Go(p, r, {}), r.at # "breakup", Goes(s, r),
             \A x \in Buf : buf'[x].size = buf[x].size
      PROVE  Turn(p)
  BY <1>2, <1>4, GoTurn
<1>5. User.at # "breakup" /\ Goes(s, User)
  BY DEF User, Goes
<1>6. ASSUME Blkflush(p)
      PROVE  Turn(p)
  <2>1. \/ \E b \in Buf : /\ buf' = Set(buf, b, {"WANTED"})
                          /\ Go(p, [s EXCEPT !.at = "blkflush", !.chan = b], {})
        \/ \E b \in Buf : Bwrite(p, b, Set(buf, b, {"BUSY"}), [s EXCEPT !.back = "blkflush"])
        \/ Go(p, User, {}) /\ UNCHANGED buf
    BY <1>2, <1>6 DEF Blkflush, Matches, Sleep
  <2>2. ASSUME NEW b \in Buf, buf' = Set(buf, b, {"WANTED"}),
               Go(p, [s EXCEPT !.at = "blkflush", !.chan = b], {})
        PROVE  Turn(p)
    <3>1. PICK r : r = [s EXCEPT !.at = "blkflush", !.chan = b]
      OBVIOUS
    <3>2. r.at # "breakup" /\ Goes(s, r)
      BY <3>1 DEF ProcT, Goes
    <3>3. \A x \in Buf : buf'[x].size = buf[x].size
      BY <1>1, <2>2, SetSizes
    <3> QED BY <1>4, <2>2, <3>1, <3>2, <3>3
  <2> QED BY <1>3, <1>4, <1>5, <2>1, <2>2
<1>7. ASSUME Bflush(p)
      PROVE  Turn(p)
  <2>1. PICK i : i = SelectInSeq(free, LAMBDA b : Is(b, "DELWRI"))
    OBVIOUS
  <2>2. CASE i # 0
    <3>1. Bwrite(p, free[i], Set(buf, free[i], {"BUSY", "ASYNC"}), [s EXCEPT !.back = "bflush"])
      BY <1>2, <1>7, <2>1, <2>2 DEF Bflush
    <3>2. i \in 1 .. Len(free)
      BY <1>1, <2>1, <2>2, FirstDelwri
    <3>3. free[i] \in Buf
      BY <1>1, <3>2, LenProperties
    <3> QED BY <1>3, <3>1, <3>3
  <2>3. CASE i = 0
    <3>1. /\ Go(p, IF s.call.op = "sync" THEN [s EXCEPT !.at = "bdwait"] ELSE User, {})
          /\ \/ buf' = [b \in Buf |-> IF buf[b].blk = None THEN buf[b]
                               ELSE [buf[b] EXCEPT !.flags = @ \cup {"STALE", "AGE"}]]
             \/ UNCHANGED buf
      BY <1>2, <1>7, <2>1, <2>3 DEF Bflush
    <3>2. ASSUME NEW x \in Buf
          PROVE  buf'[x].size = buf[x].size
      <4>1. PICK h \in HeaderT : h = buf[x]
        BY <1>1
      <4>2. [h EXCEPT !.flags = @ \cup {"STALE", "AGE"}].size = h.size
        BY DEF HeaderT
      <4> QED BY <3>1, <4>1, <4>2
    <3>3. PICK r : r = [s EXCEPT !.at = "bdwait"]
      OBVIOUS
    <3>4. r.at # "breakup" /\ Goes(s, r)
      BY <3>3 DEF ProcT, Goes
    <3> QED BY <1>4, <1>5, <3>1, <3>2, <3>3, <3>4
  <2> QED BY <2>2, <2>3
<1> QED BY <1>6, <1>7

\* The interrupt moves nobody and changes no size.
LEMMA DiskFrame ==
    ASSUME IInv, Disk, NEW b \in Buf, DiskDone(b)
    PROVE  /\ \A x \in Buf : buf'[x].size = buf[x].size
           /\ \A q \in Proc : Kept(proc[q], proc'[q])
<1>1. buf \in [Buf -> HeaderT] /\ proc \in [Proc -> ProcT] /\ b \in io
  BY DEF IInv, Typed, DiskDone
<1>2. PICK W : W = {p \in Proc : proc[p].at = "breakup" /\ proc[p].bp = b}
  OBVIOUS
<1>3. PICK err \in BOOLEAN :
        IF W = {} THEN Biodone(b, DiskMoved(b, err), proc)
        ELSE /\ buf' = DiskMoved(b, err)
             /\ proc' = [p \in Proc |-> IF p \in W THEN [proc[p] EXCEPT !.chan = None]
                                        ELSE proc[p]]
  BY <1>2 DEF DiskDone, DiskMoved
<1>4. PICK t \in [Buf -> HeaderT] : /\ t = DiskMoved(b, err)
                                    /\ \A x \in Buf : t[x].size = buf[x].size
  <2>1. PICK t : t = DiskMoved(b, err)
    OBVIOUS
  <2>2. PICK F \in {{}, {"ERROR"}} : Flagged(buf, t, b, buf[b].flags \cup F)
    BY <1>1, <2>1, DiskMovedIs DEF Disk
  <2> QED BY <2>1, <2>2 DEF Flagged
<1>5. CASE W = {}
  <2>1. Biodone(b, t, proc)
    BY <1>3, <1>4, <1>5
  <2> QED BY <1>1, <1>4, <2>1, BiodoneFrame
<1>6. CASE W # {}
  <2>1. ASSUME NEW q \in Proc
        PROVE  Kept(proc[q], proc'[q])
    <3>1. PICK s \in ProcT : s = proc[q]
      BY <1>1
    <3>2. Kept(s, [s EXCEPT !.chan = None]) /\ Kept(s, s)
      BY DEF Kept, ProcT
    <3> QED BY <1>3, <1>6, <3>1, <3>2
  <2> QED BY <1>3, <1>4, <1>6, <2>1
<1> QED BY <1>5, <1>6

\* A step is the turn of a process, which leaves bdwait by Bdwait only, or
\* an interrupt.
LEMMA StepIs ==
    ASSUME IInv, Disk, Next
    PROVE  \/ \E p \in Proc : Turn(p) /\ (proc[p].at = "bdwait" => Bdwait(p))
           \/ /\ \A x \in Buf : buf'[x].size = buf[x].size
              /\ \A q \in Proc : Kept(proc[q], proc'[q])
<1>1. ASSUME NEW p \in Proc,
             (\E c \in Calls : Start(p, c)) \/ Search(p) \/ ReadAhead(p) \/ Wrote(p) \/ Bdwait(p)
      PROVE  Turn(p) /\ (proc[p].at = "bdwait" => Bdwait(p))
  BY <1>1, SearchTurn DEF Start, Search, ReadAhead, Wrote, Runs
<1>2. ASSUME NEW p \in Proc, Match(p) \/ Getfree(p) \/ Nofree(p) \/ Kmem(p) \/ Got(p)
      PROVE  Turn(p) /\ (proc[p].at = "bdwait" => Bdwait(p))
  BY <1>2, TakeTurn, NofreeTurn, GotTurn DEF Match, Getfree, Nofree, Kmem, Got, Runs
<1>3. ASSUME NEW p \in Proc, Breakup(p) \/ Biowait(p) \/ Finish(p) \/ Blkflush(p) \/ Bflush(p)
      PROVE  Turn(p) /\ (proc[p].at = "bdwait" => Bdwait(p))
  BY <1>3, BreakupTurn, BiowaitTurn, FinishTurn, FlushTurn
     DEF Breakup, Biowait, Finish, Blkflush, Bflush, Runs
<1>4. ASSUME NEW b \in Buf, DiskDone(b)
      PROVE  /\ \A x \in Buf : buf'[x].size = buf[x].size
             /\ \A q \in Proc : Kept(proc[q], proc'[q])
  BY <1>4, DiskFrame
<1> QED BY <1>1, <1>2, <1>3, <1>4 DEF Next

\* Larges holds all the time.
LEMMA LargesStay ==
    ASSUME IInv, Disk, Larges, [Next]_vars
    PROVE  Larges'
<1>1. CASE UNCHANGED vars
  BY <1>1 DEF vars, Larges, Large
<1>2. ASSUME NEW p \in Proc, Turn(p)
      PROVE  Larges'
  BY <1>2, LargesKept
<1>3. ASSUME \A x \in Buf : buf'[x].size = buf[x].size, \A q \in Proc : Kept(proc[q], proc'[q])
      PROVE  Larges'
  <2> SUFFICES ASSUME NEW q \in Proc, proc'[q].at = "breakup"
               PROVE  buf'[proc'[q].bp].size > PAGESIZE
    BY DEF Larges, Large
  <2>1. proc[q].at = "breakup" /\ proc'[q].bp = proc[q].bp
    BY <1>3 DEF Kept
  <2>2. proc[q].bp \in Buf
    BY <2>1 DEF IInv, Typed, Locals, Local, HasOK, Owning, ProcT
  <2> QED BY <1>3, <2>1, <2>2 DEF Larges, Large
<1> QED BY <1>1, <1>2, <1>3, StepIs

\* bdwait goes back to its caller when the asynchronous writes that are still
\* under way are in somebody's buf_breakup.
LEMMA BdwaitReturns ==
    ASSUME IInv, Larges, NEW p \in Proc, Bdwait(p), proc'[p].at = "user", NEW b \in Writing
    PROVE  buf[b].size > PAGESIZE
<1>1. PICK s \in ProcT : /\ s = proc[p] /\ s.at = "bdwait" /\ cpu \in {None, p}
                         /\ proc \in [Proc -> ProcT]
  BY RunsIs DEF Bdwait
<1>2. asyn.cnt = 0
  <2>1. SUFFICES ASSUME asyn.cnt # 0
                 PROVE  FALSE
    OBVIOUS
  <2>2. PICK r : r = [s EXCEPT !.at = "bdwait", !.chan = "async"]
    OBVIOUS
  <2>3. r \in ProcT /\ r.at = "bdwait"
    BY <2>2 DEF ProcT, Where, Chan
  <2>4. Go(p, r, {})
    BY <1>1, <2>1, <2>2 DEF Bdwait, Sleep
  <2>5. proc'[p] = r
    BY <1>1, <2>3, <2>4, GoIs
  <2> QED BY <2>3, <2>5
<1>3. Wrotes = {}
  <2>1. \A q \in Proc : q # p => cpu # q
    BY <1>1, BioAssumption
  <2> QED BY <1>1, <2>1 DEF Wrotes, IInv, Runners, RunOK
<1>4. Out \subseteq Buf /\ IsFiniteSet(Out)
  <2>1. Out \subseteq Buf
    BY DEF Out, Writing
  <2> QED BY <2>1, BioAssumption, FS_Subset
<1>5. Cardinality(Out) = 0
  BY <1>2, <1>3 DEF IInv, Counted, Num
<1>6. Out = {}
  BY <1>4, <1>5, FS_EmptySet
<1>7. PICK q \in Proc : Starts(proc[q], b)
  BY <1>6 DEF Out
<1>8. proc[q].at = "breakup" /\ proc[q].bp = b
  BY <1>7 DEF Starts, Broken
<1> QED BY <1>8 DEF Larges, Large

\* bdwait returns when no asynchronous write is left, but for those that a
\* strategy routine breaks up: basyncnt leaves out no other.
THEOREM BdwaitAlwaysWaits == Spec => BdwaitWaits
<1>1. Init => IInv /\ Disk /\ Larges
  <2>1. Init => Larges
    BY DEF Init, Larges, Large, User
  <2> QED BY <2>1, InitHolds
<1>2. IInv /\ Disk /\ Larges /\ [Next]_vars => (IInv /\ Disk /\ Larges)'
  BY NextKeeps, DiskKeeps, StutterKeeps, LargesStay
<1>3. IInv /\ Disk /\ Larges /\ [Next]_vars =>
        [\A p \in Proc : Runs(p, "bdwait") /\ proc'[p].at = "user" =>
           \A b \in Writing : buf[b].size > PAGESIZE]_vars
  <2> SUFFICES ASSUME IInv, Disk, Larges, Next, NEW p \in Proc, Runs(p, "bdwait"),
                      proc'[p].at = "user", NEW b \in Writing
               PROVE  buf[b].size > PAGESIZE
    OBVIOUS
  <2>1. proc[p].at = "bdwait"
    BY DEF Runs
  <2>2. ~Kept(proc[p], proc'[p])
    BY <2>1 DEF Kept
  <2>3. PICK q \in Proc : Turn(q) /\ (proc[q].at = "bdwait" => Bdwait(q))
    BY <2>2, StepIs
  <2>4. q = p
    BY <2>2, <2>3 DEF Turn
  <2> QED BY <2>1, <2>3, <2>4, BdwaitReturns
<1> QED BY <1>1, <1>2, <1>3, PTL DEF Spec, BdwaitWaits


-----------------------------------------------------------------------------
(* The memory of the buffers.                                              *)

\* g sums up z over each set of buffers, one after the other.
One(s) == CHOOSE x \in s : TRUE
IsSum(g, z) ==
    /\ g \in [SUBSET Buf -> Int]
    /\ \A s \in SUBSET Buf : g[s] = IF s = {} THEN 0 ELSE g[s \ {One(s)}] + z[One(s)]

\* Without one of its buffers a set has one less.
LEMMA LessOne ==
    ASSUME NEW s \in SUBSET Buf
    PROVE  /\ Cardinality(s) \in Nat /\ Cardinality(s) <= Cardinality(Buf)
           /\ s # {} => /\ One(s) \in s /\ s \ {One(s)} \in SUBSET Buf
                        /\ Cardinality(s \ {One(s)}) = Cardinality(s) - 1
<1>1. s # {} => One(s) \in s
  BY DEF One
<1>2. IsFiniteSet(s) /\ Cardinality(s) <= Cardinality(Buf)
  BY BioAssumption, FS_Subset
<1> QED BY <1>1, <1>2, FS_RemoveElement, FS_CardinalityType

\* Of some sets of buffers one is such that without its first it is not one of them.
LEMMA SmallestSet ==
    ASSUME NEW Bad \in SUBSET SUBSET Buf, Bad # {}
    PROVE  \E s \in Bad : s = {} \/ s \ {One(s)} \notin Bad
<1>1. PICK N : N = {Cardinality(s) : s \in Bad}
  OBVIOUS
<1>2. N \subseteq Nat /\ N # {}
  BY <1>1, LessOne
<1>3. PICK n \in N : \A m \in N : n <= m
  <2>1. \E j \in N : \A k \in N : ~(k < j)
    <3> DEFINE R == OpToRel(<, Nat)
    <3>1. IsWellFoundedOn(R, Nat)
      BY NatLessThanWellFounded
    <3>2. PICK j \in N : \A k \in N : ~(<<k, j>> \in R)
      BY <1>2, <3>1, WFMin
    <3> QED BY <1>2, <3>2 DEF OpToRel
  <2> QED BY <1>2, <2>1
<1>4. PICK s \in Bad : Cardinality(s) = n
  BY <1>1
<1>5. ASSUME s # {}, s \ {One(s)} \in Bad
      PROVE  FALSE
  <2>1. Cardinality(s \ {One(s)}) \in N
    BY <1>1, <1>5
  <2>2. Cardinality(s \ {One(s)}) = n - 1 /\ n \in Nat
    BY <1>2, <1>4, <1>5, LessOne
  <2> QED BY <1>3, <2>1, <2>2
<1> QED BY <1>5

\* g adds up z over the sets of at most n buffers.
SumsTo(g, z, n) ==
    /\ g \in [SUBSET Buf -> Int]
    /\ \A s \in SUBSET Buf : Cardinality(s) <= n =>
         g[s] = IF s = {} THEN 0 ELSE g[s \ {One(s)}] + z[One(s)]

\* There is one for every n, hence one for all sets.
LEMMA SumExists ==
    ASSUME NEW z \in [Buf -> Int]
    PROVE  \E g : IsSum(g, z)
<1> DEFINE Bad == {n \in Nat : ~\E g : SumsTo(g, z, n)}
<1>1. ASSUME Bad # {}
      PROVE  FALSE
  <2>1. PICK n \in Bad : \A m \in Bad : ~(m < n)
    <3> DEFINE R == OpToRel(<, Nat)
    <3>1. IsWellFoundedOn(R, Nat)
      BY NatLessThanWellFounded
    <3>2. Bad \subseteq Nat
      OBVIOUS
    <3> HIDE DEF Bad
    <3>3. PICK j \in Bad : \A k \in Bad : ~(<<k, j>> \in R)
      BY <1>1, <3>1, <3>2, WFMin
    <3> QED BY <3>2, <3>3 DEF OpToRel
  <2>2. n \in Nat /\ ~\E g : SumsTo(g, z, n)
    OBVIOUS
  <2>3. CASE n = 0
    <3>1. PICK g : g = [s \in SUBSET Buf |-> 0]
      OBVIOUS
    <3>2. \A s \in SUBSET Buf : Cardinality(s) <= 0 => s = {}
      <4>1. ASSUME NEW s \in SUBSET Buf, Cardinality(s) <= 0
            PROVE  s = {}
        <5>1. IsFiniteSet(s)
          BY BioAssumption, FS_Subset
        <5>2. Cardinality(s) \in Nat
          BY LessOne
        <5>3. Cardinality(s) = 0
          BY <4>1, <5>2
        <5> QED BY <5>1, <5>3, FS_EmptySet
      <4> QED BY <4>1
    <3>3. SumsTo(g, z, 0)
      BY <3>1, <3>2 DEF SumsTo
    <3> QED BY <2>2, <2>3, <3>3
  <2>4. CASE n # 0
    <3>1. n - 1 \in Nat /\ n - 1 < n
      BY <2>2, <2>4
    <3>2. n - 1 \notin Bad
      BY <2>1, <3>1
    <3>3. PICK g : SumsTo(g, z, n - 1)
      BY <3>1, <3>2
    <3>4. PICK h : h = [s \in SUBSET Buf |-> IF Cardinality(s) <= n - 1 THEN g[s]
                                              ELSE g[s \ {One(s)}] + z[One(s)]]
      OBVIOUS
    <3>5. ASSUME NEW s \in SUBSET Buf, s # {}
          PROVE  z[One(s)] \in Int /\ g[s] \in Int /\ g[s \ {One(s)}] \in Int
      BY <3>3, <3>5, LessOne DEF SumsTo
    <3>6. {} \in SUBSET Buf /\ Cardinality({}) = 0 /\ 0 <= n - 1
      BY <3>1, FS_EmptySet
    <3>7. g[{}] = 0 /\ h[{}] = 0
      BY <3>3, <3>4, <3>6 DEF SumsTo
    <3>8. h \in [SUBSET Buf -> Int]
      <4>1. ASSUME NEW s \in SUBSET Buf, s # {}
            PROVE  h[s] \in Int
        <5>1. h[s] = g[s] \/ h[s] = g[s \ {One(s)}] + z[One(s)]
          BY <3>4
        <5>2. z[One(s)] \in Int /\ g[s] \in Int /\ g[s \ {One(s)}] \in Int
          BY <3>5, <4>1
        <5> QED BY <5>1, <5>2
      <4>2. ASSUME NEW s \in SUBSET Buf
            PROVE  h[s] \in Int
        <5>1. CASE s = {}
          <6>1. h[s] = 0
            BY <3>7, <5>1
          <6> QED BY <6>1
        <5>2. CASE s # {}
          BY <4>1, <5>2
        <5> QED BY <5>1, <5>2
      <4>3. h = [s \in SUBSET Buf |-> h[s]]
        BY <3>4
      <4> QED BY <4>2, <4>3
    <3>9. ASSUME NEW s \in SUBSET Buf, Cardinality(s) <= n, s # {}
          PROVE  h[s] = h[s \ {One(s)}] + z[One(s)]
      <4>1. PICK r \in SUBSET Buf : r = s \ {One(s)} /\ Cardinality(r) = Cardinality(s) - 1
        BY <3>9, LessOne
      <4>2. Cardinality(s) \in Nat /\ Cardinality(r) <= n - 1
        BY <2>2, <3>9, <4>1, LessOne
      <4>3. h[r] = g[r]
        BY <3>4, <4>2
      <4>4. Cardinality(s) <= n - 1 => g[s] = g[r] + z[One(s)]
        BY <3>3, <3>9, <4>1 DEF SumsTo
      <4> QED BY <3>4, <4>1, <4>3, <4>4
    <3>10. SumsTo(h, z, n)
      BY <3>7, <3>8, <3>9 DEF SumsTo
    <3> QED BY <2>2, <3>10
  <2> QED BY <2>3, <2>4
<1>2. PICK n \in Nat : n = Cardinality(Buf)
  BY BioAssumption, FS_CardinalityType
<1>3. PICK g : SumsTo(g, z, n)
  BY <1>1
<1>4. IsSum(g, z)
  BY <1>2, <1>3, LessOne DEF SumsTo, IsSum
<1> QED BY <1>4

\* The sizes of the headers t.
LEMMA SizesAre ==
    ASSUME NEW t \in [Buf -> HeaderT], NEW z, z = [b \in Buf |-> t[b].size]
    PROVE  z \in [Buf -> Nat] /\ z \in [Buf -> Int]
<1>1. ASSUME NEW b \in Buf
      PROVE  z[b] \in Nat /\ z[b] \in Int
  <2>1. t[b] \in HeaderT /\ z[b] = t[b].size
    OBVIOUS
  <2> QED BY <2>1 DEF HeaderT
<1> QED BY <1>1

\* Memory is such a sum of the sizes.
LEMMA MemoryIs ==
    ASSUME NEW t \in [Buf -> HeaderT]
    PROVE  \E g : IsSum(g, [b \in Buf |-> t[b].size]) /\ Memory(t) = g[Buf]
<1> DEFINE body(f) == [s \in SUBSET Buf |-> IF s = {} THEN 0
                         ELSE LET x == CHOOSE x \in s : TRUE IN f[s \ {x}] + t[x].size]
<1>1. PICK z \in [Buf -> Int] : z = [b \in Buf |-> t[b].size]
  BY SizesAre
<1>2. \A b \in Buf : t[b].size = z[b]
  BY <1>1
<1>3. PICK g : IsSum(g, z)
  BY SumExists
<1>4. g = body(g)
  <2>1. \A s \in SUBSET Buf : g[s] = body(g)[s]
    <3>1. ASSUME NEW s \in SUBSET Buf
          PROVE  g[s] = body(g)[s]
      <4>1. CASE s = {}
        BY <1>3, <4>1 DEF IsSum
      <4>2. CASE s # {}
        <5>1. g[s] = g[s \ {One(s)}] + z[One(s)] /\ One(s) \in Buf
          BY <1>3, <4>2, LessOne DEF IsSum
        <5>2. body(g)[s] = g[s \ {One(s)}] + t[One(s)].size
          BY <4>2 DEF One
        <5> QED BY <1>2, <5>1, <5>2
      <4> QED BY <4>1, <4>2
    <3> QED BY <3>1
  <2>2. body(g) = [s \in SUBSET Buf |-> body(g)[s]] /\ g = [s \in SUBSET Buf |-> g[s]]
    BY <1>3 DEF IsSum
  <2> HIDE DEF body
  <2> QED BY <2>1, <2>2
<1>5. PICK f : f = CHOOSE h : h = body(h)
  OBVIOUS
<1>6. f = body(f)
  <2> HIDE DEF body
  <2> QED BY <1>4, <1>5
<1>7. Memory(t) = f[Buf]
  BY <1>5 DEF Memory, FoldSet, MapThenFoldSet
<1>8. f \in [SUBSET Buf -> Int]
  <2> DEFINE Bad == {s \in SUBSET Buf : f[s] \notin Int}
  <2>1. ASSUME Bad # {}
        PROVE  FALSE
    <3>1. PICK s \in Bad : s = {} \/ s \ {One(s)} \notin Bad
      <4>1. Bad \in SUBSET SUBSET Buf
        OBVIOUS
      <4> HIDE DEF Bad
      <4> QED BY <2>1, <4>1, SmallestSet
    <3>2. s \in SUBSET Buf /\ f[s] \notin Int
      OBVIOUS
    <3>3. s # {}
      BY <1>6, <3>2
    <3>4. One(s) \in Buf /\ s \ {One(s)} \in SUBSET Buf
      BY <3>2, <3>3, LessOne
    <3>5. f[s \ {One(s)}] \in Int
      BY <3>1, <3>3, <3>4
    <3>6. f[s] = f[s \ {One(s)}] + t[One(s)].size
      BY <1>6, <3>2, <3>3 DEF One
    <3> QED BY <1>1, <1>2, <3>2, <3>4, <3>5, <3>6
  <2>2. \A s \in SUBSET Buf : f[s] \in Int
    BY <2>1
  <2>3. f = [s \in SUBSET Buf |-> f[s]]
    BY <1>6
  <2> QED BY <2>2, <2>3
<1>9. IsSum(f, z)
  <2>1. ASSUME NEW s \in SUBSET Buf, s # {}
        PROVE  f[s] = f[s \ {One(s)}] + z[One(s)]
    <3>1. f[s] = f[s \ {One(s)}] + t[One(s)].size
      BY <1>6, <2>1 DEF One
    <3>2. One(s) \in Buf
      BY <2>1, LessOne
    <3> QED BY <1>2, <3>1, <3>2
  <2>2. f[{}] = 0
    BY <1>6
  <2> QED BY <1>8, <2>1, <2>2 DEF IsSum
<1> QED BY <1>1, <1>7, <1>9

\* The sums of y are those of z, but for b.
LEMMA SumsDiffer ==
    ASSUME NEW z \in [Buf -> Int], NEW y \in [Buf -> Int], NEW g, NEW h, IsSum(g, z), IsSum(h, y),
           NEW b \in Buf, \A x \in Buf \ {b} : y[x] = z[x]
    PROVE  h[Buf] = g[Buf] + y[b] - z[b]
<1> DEFINE Add(s) == IF b \in s THEN y[b] - z[b] ELSE 0
           Bad == {s \in SUBSET Buf : h[s] # g[s] + Add(s)}
<1>1. ASSUME Bad # {}
      PROVE  FALSE
  <2>1. PICK s \in Bad : s = {} \/ s \ {One(s)} \notin Bad
    <3>1. Bad \in SUBSET SUBSET Buf
      OBVIOUS
    <3> HIDE DEF Bad
    <3> QED BY <1>1, <3>1, SmallestSet
  <2>2. s \in SUBSET Buf /\ h[s] # g[s] + Add(s)
    OBVIOUS
  <2>3. s # {}
    <3>1. {} \in SUBSET Buf /\ b \notin {}
      OBVIOUS
    <3>2. h[{}] = 0 /\ g[{}] = 0 /\ Add({}) = 0
      BY <3>1 DEF IsSum
    <3> QED BY <2>2, <3>2
  <2>4. PICK x \in s, r \in SUBSET Buf : x = One(s) /\ r = s \ {x} /\ x \in Buf
    BY <2>2, <2>3, LessOne
  <2>5. h[r] = g[r] + Add(r)
    BY <2>1, <2>3, <2>4
  <2>6. h[s] = h[r] + y[x] /\ g[s] = g[r] + z[x]
    BY <2>2, <2>3, <2>4 DEF IsSum
  <2>7. g[r] \in Int /\ y[x] \in Int /\ z[x] \in Int /\ y[b] \in Int /\ z[b] \in Int
    BY <2>4 DEF IsSum
  <2>8. CASE x = b
    BY <2>2, <2>4, <2>5, <2>6, <2>7, <2>8
  <2>9. CASE x # b
    <3>1. y[x] = z[x] /\ (b \in r <=> b \in s)
      BY <2>4, <2>9
    <3> QED BY <2>2, <2>5, <2>6, <2>7, <3>1
  <2> QED BY <2>8, <2>9
<1>2. h[Buf] = g[Buf] + Add(Buf)
  BY <1>1
<1>3. g[Buf] \in Int
  BY DEF IsSum
<1> QED BY <1>2, <1>3

\* A step that changes the size of b only changes the memory by as much.
LEMMA MemoryMoves ==
    ASSUME NEW t \in [Buf -> HeaderT], NEW u \in [Buf -> HeaderT], NEW b \in Buf,
           \A x \in Buf \ {b} : u[x].size = t[x].size
    PROVE  /\ Memory(t) \in Int /\ Memory(u) = Memory(t) + u[b].size - t[b].size
<1>1. PICK z \in [Buf -> Int] : z = [x \in Buf |-> t[x].size]
  BY SizesAre
<1>2. PICK y \in [Buf -> Int] : y = [x \in Buf |-> u[x].size]
  BY SizesAre
<1>3. PICK g : IsSum(g, z) /\ Memory(t) = g[Buf]
  BY <1>1, MemoryIs
<1>4. PICK h : IsSum(h, y) /\ Memory(u) = h[Buf]
  BY <1>2, MemoryIs
<1>5. \A x \in Buf \ {b} : y[x] = z[x]
  BY <1>1, <1>2
<1>6. h[Buf] = g[Buf] + y[b] - z[b]
  BY <1>3, <1>4, <1>5, SumsDiffer
<1>7. g[Buf] \in Int
  BY <1>3 DEF IsSum
<1> QED BY <1>1, <1>2, <1>3, <1>4, <1>6, <1>7

\* The memory is not negative.
LEMMA MemoryBounds ==
    ASSUME NEW t \in [Buf -> HeaderT]
    PROVE  Memory(t) \in Nat
<1>1. PICK z \in [Buf -> Nat] : z = [x \in Buf |-> t[x].size] /\ z \in [Buf -> Int]
  BY SizesAre
<1>2. PICK g : IsSum(g, z) /\ Memory(t) = g[Buf]
  BY <1>1, MemoryIs
<1> DEFINE Bad == {s \in SUBSET Buf : ~(g[s] >= 0)}
<1>3. ASSUME Bad # {}
      PROVE  FALSE
  <2>1. PICK s \in Bad : s = {} \/ s \ {One(s)} \notin Bad
    <3>1. Bad \in SUBSET SUBSET Buf
      OBVIOUS
    <3> HIDE DEF Bad
    <3> QED BY <1>3, <3>1, SmallestSet
  <2>2. s \in SUBSET Buf /\ ~(g[s] >= 0)
    OBVIOUS
  <2>3. s # {}
    <3>1. {} \in SUBSET Buf
      OBVIOUS
    <3>2. g[{}] = 0
      BY <1>2, <3>1 DEF IsSum
    <3> QED BY <2>2, <3>2
  <2>4. PICK x \in s, r \in SUBSET Buf : x = One(s) /\ r = s \ {x} /\ x \in Buf
    BY <2>2, <2>3, LessOne
  <2>5. g[r] >= 0
    BY <2>1, <2>3, <2>4
  <2>6. g[s] = g[r] + z[x] /\ g[r] \in Int /\ z[x] \in Nat
    BY <1>2, <2>2, <2>3, <2>4 DEF IsSum
  <2> QED BY <2>2, <2>5, <2>6
<1>4. g[Buf] >= 0
  BY <1>3
<1> QED BY <1>2, <1>4 DEF IsSum

\* Nor does it change when no size does.
LEMMA MemoryStays ==
    ASSUME NEW t \in [Buf -> HeaderT], NEW u \in [Buf -> HeaderT],
           \A x \in Buf : u[x].size = t[x].size
    PROVE  Memory(t) \in Int /\ Memory(u) = Memory(t)
<1>1. CASE Buf = {}
  <2>1. PICK g : IsSum(g, [x \in Buf |-> t[x].size]) /\ Memory(t) = g[Buf]
    BY MemoryIs
  <2>2. PICK h : IsSum(h, [x \in Buf |-> u[x].size]) /\ Memory(u) = h[Buf]
    BY MemoryIs
  <2> QED BY <1>1, <2>1, <2>2 DEF IsSum
<1>2. CASE Buf # {}
  <2>1. PICK b \in Buf : TRUE
    BY <1>2
  <2>2. Memory(t) \in Int /\ Memory(u) = Memory(t) + u[b].size - t[b].size
    BY MemoryMoves
  <2>3. u[b].size = t[b].size /\ t[b].size \in Nat
    BY DEF HeaderT
  <2> QED BY <2>2, <2>3
<1> QED BY <1>1, <1>2

\* At the start there is none.
LEMMA MemoryNone ==
    ASSUME NEW t \in [Buf -> HeaderT], \A x \in Buf : t[x].size = 0
    PROVE  Memory(t) = 0
<1>1. PICK z \in [Buf -> Nat] : z = [x \in Buf |-> t[x].size] /\ z \in [Buf -> Int]
  BY SizesAre
<1>2. PICK g : IsSum(g, z) /\ Memory(t) = g[Buf]
  BY <1>1, MemoryIs
<1> DEFINE Bad == {s \in SUBSET Buf : g[s] # 0}
<1>3. ASSUME Bad # {}
      PROVE  FALSE
  <2>1. PICK s \in Bad : s = {} \/ s \ {One(s)} \notin Bad
    <3>1. Bad \in SUBSET SUBSET Buf
      OBVIOUS
    <3> HIDE DEF Bad
    <3> QED BY <1>3, <3>1, SmallestSet
  <2>2. s \in SUBSET Buf /\ g[s] # 0
    OBVIOUS
  <2>3. s # {}
    <3>1. {} \in SUBSET Buf
      OBVIOUS
    <3>2. g[{}] = 0
      BY <1>2, <3>1 DEF IsSum
    <3> QED BY <2>2, <3>2
  <2>4. PICK x \in s, r \in SUBSET Buf : x = One(s) /\ r = s \ {x} /\ x \in Buf
    BY <2>2, <2>3, LessOne
  <2>5. g[r] = 0
    BY <2>1, <2>3, <2>4
  <2>6. g[s] = g[r] + z[x] /\ z[x] = 0
    BY <1>1, <1>2, <2>2, <2>3, <2>4 DEF IsSum
  <2> QED BY <2>2, <2>5, <2>6
<1>4. g[Buf] = 0
  BY <1>3
<1> QED BY <1>2, <1>4

\* The headers whose memory somebody sleeps for in kmem_zalloc.
Kmems == {b \in Buf : \E p \in Proc : proc[p].at = "kmem" /\ proc[p].bp = b}

\* A block of the size p asks for fits into bufhwm, and a savebp has that size.
Fits(p) ==
    /\ proc[p].at = "kmem" => Size(p) <= bufhwm
    /\ proc[p].save # None => buf[proc[p].save].size = Size(p)

\* The memory of the buffers, what is left of bufhwm, and by how much the
\* sleeps in kmem_zalloc that are over may have passed it.
Accounts ==
    /\ room + Memory(buf) = bufhwm
    /\ Cardinality(Kmems) <= odd /\ room >= -((odd - Cardinality(Kmems)) * bufhwm)
    /\ \A b \in Buf : buf[b].size <= bufhwm
    /\ \A p \in Proc : Fits(p)

\* The sleepers in kmem_zalloc are finitely many.
LEMMA KmemsAre ==
    ASSUME IInv
    PROVE  Kmems \subseteq Buf /\ IsFiniteSet(Kmems) /\ Cardinality(Kmems) \in Nat
<1>1. Kmems \subseteq Buf
  BY DEF Kmems
<1> QED BY <1>1, BioAssumption, FS_Subset, FS_CardinalityType

\* Those who do not act keep what they ask for.
LEMMA OthersFit ==
    ASSUME IInv, NEW p \in Proc, Turn(p), NEW q \in Proc, q # p, Fits(q)
    PROVE  Fits(q)'
<1>1. Kept(proc[q], proc'[q])
  BY DEF Turn
<1>2. Size(q)' = Size(q)
  BY <1>1 DEF Kept, Size
<1>3. ASSUME proc[q].save # None
      PROVE  buf'[proc[q].save].size = buf[proc[q].save].size
  <2>1. PICK b \in Buf : b = proc[q].save
    BY <1>3 DEF IInv, Typed, ProcT
  <2>2. Mine(proc[q], b)
    BY <2>1 DEF Mine
  <2>3. b \notin ToSet(free) /\ b \notin hdrs /\ ~Mine(proc[p], b)
    BY <2>2 DEF IInv, Places, BufOK
  <2> QED BY <2>1, <2>3 DEF Turn, Resized
<1> QED BY <1>1, <1>2, <1>3 DEF Fits, Kept

\* Only p comes to kmem_zalloc or leaves it.
LEMMA KmemsMove ==
    ASSUME IInv, NEW p \in Proc, Turn(p)
    PROVE  /\ proc[p].at # "kmem" /\ proc'[p].at # "kmem" => Kmems' = Kmems
           /\ \A b \in Buf : proc[p].at = "kmem" /\ proc[p].bp = b /\ proc'[p].at # "kmem" =>
                b \in Kmems /\ Kmems' = Kmems \ {b}
           /\ \A b \in Buf : proc[p].at # "kmem" /\ proc'[p].at = "kmem" /\ proc'[p].bp = b =>
                Kmems' = Kmems \cup {b}
<1>1. \A q \in Proc \ {p} : Kept(proc[q], proc'[q])
  BY DEF Turn
<1>2. \A q \in Proc \ {p}, b \in Buf :
        proc'[q].at = "kmem" /\ proc'[q].bp = b <=> proc[q].at = "kmem" /\ proc[q].bp = b
  BY <1>1 DEF Kept
<1>3. proc[p].at # "kmem" /\ proc'[p].at # "kmem" => Kmems' = Kmems
  BY <1>2 DEF Kmems
<1>4. ASSUME NEW b \in Buf, proc[p].at = "kmem", proc[p].bp = b, proc'[p].at # "kmem"
      PROVE  b \in Kmems /\ Kmems' = Kmems \ {b}
  <2>1. ASSUME NEW q \in Proc, proc[q].at = "kmem", proc[q].bp = b
        PROVE  q = p
    <3>1. Mine(proc[q], b) /\ Mine(proc[p], b)
      BY <1>4, <2>1 DEF Mine, Owning
    <3> QED BY <3>1 DEF IInv, Places, BufOK
  <2> QED BY <1>2, <1>4, <2>1 DEF Kmems
<1>5. ASSUME NEW b \in Buf, proc[p].at # "kmem", proc'[p].at = "kmem", proc'[p].bp = b
      PROVE  Kmems' = Kmems \cup {b}
  BY <1>2, <1>5 DEF Kmems
<1> QED BY <1>3, <1>4, <1>5

\* The room after one more block, and with one more sleep in kmem_zalloc.
LEMMA RoomLess ==
    ASSUME NEW r \in Int, NEW n \in Int, NEW z \in Nat, z <= bufhwm, r >= -(n * bufhwm)
    PROVE  r - z >= -((n + 1) * bufhwm)
<1>1. bufhwm \in Nat
  BY BioAssumption
<1>2. (n + 1) * bufhwm = n * bufhwm + bufhwm /\ n * bufhwm \in Int
  BY <1>1
<1> QED BY <1>1, <1>2

\* The more sleeps, the less room there may be.
LEMMA RoomMore ==
    ASSUME NEW r \in Int, NEW n \in Int, NEW m \in Int, n <= m, r >= -(n * bufhwm)
    PROVE  r >= -(m * bufhwm)
<1>1. bufhwm \in Nat
  BY BioAssumption
<1>2. PICK d \in Nat : m = n + d
  <2>1. m - n \in Nat /\ m = n + (m - n)
    OBVIOUS
  <2> QED BY <2>1
<1>3. m * bufhwm = n * bufhwm + d * bufhwm /\ d * bufhwm >= 0
      /\ n * bufhwm \in Int /\ d * bufhwm \in Int
  BY <1>1, <1>2
<1> QED BY <1>3

\* Fits, of p, from Goes.
LEMMA OneFits ==
    ASSUME IInv, NEW p \in Proc, Turn(p), Fits(p), proc'[p].at # "kmem",
           proc'[p].save # None => buf'[proc'[p].save].size = buf[proc'[p].save].size
    PROVE  Fits(p)'
<1>1. Goes(proc[p], proc'[p])
  BY DEF Turn
<1>2. ASSUME proc'[p].save # None
      PROVE  buf[proc'[p].save].size = Size(p)' /\ Size(p)' = Size(p)
  <2>1. Size(p)' = Size(p)
    BY <1>1, <1>2 DEF Goes, Size
  <2> QED BY <1>1, <1>2, <2>1 DEF Goes, Asks, Size, Fits
<1> QED BY <1>2 DEF Fits

\* What the processes ask for after a step that does not change a size.
LEMMA SizesStay ==
    ASSUME IInv, Typed', NEW p \in Proc, Turn(p), Accounts,
           \A x \in Buf : buf'[x].size = buf[x].size
    PROVE  /\ Memory(buf') = Memory(buf) /\ Memory(buf) \in Nat
           /\ \A x \in Buf : buf'[x].size <= bufhwm
           /\ proc'[p].at # "kmem" => \A q \in Proc : Fits(q)'
           /\ \A q \in Proc \ {p} : Fits(q)'
<1>1. buf \in [Buf -> HeaderT] /\ buf' \in [Buf -> HeaderT]
  BY DEF IInv, Typed
<1>2. Memory(buf') = Memory(buf) /\ Memory(buf) \in Nat
  BY <1>1, MemoryStays, MemoryBounds
<1>3. \A q \in Proc \ {p} : Fits(q)'
  BY OthersFit DEF Accounts
<1>4. ASSUME proc'[p].at # "kmem"
      PROVE  Fits(p)'
  <2>1. proc'[p].save \in Buf \cup {None}
    BY DEF Typed, ProcT
  <2> QED BY <1>4, <2>1, OneFits DEF Accounts
<1> QED BY <1>2, <1>3, <1>4 DEF Accounts

\* A step that moves no memory.
LEMMA AccountsStay ==
    ASSUME IInv, Typed', NEW p \in Proc, Turn(p), Accounts, UNCHANGED <<room, odd>>,
           proc[p].at # "kmem", proc'[p].at # "kmem",
           \A x \in Buf : buf'[x].size = buf[x].size
    PROVE  Accounts'
<1>1. Kmems' = Kmems
  BY KmemsMove
<1>2. /\ Memory(buf') = Memory(buf) /\ \A x \in Buf : buf'[x].size <= bufhwm
      /\ \A q \in Proc : Fits(q)'
  BY SizesStay
<1> QED BY <1>1, <1>2 DEF Accounts

\* Where it is not in getfreeblk a process moves none.
LEMMA PlainAccounts ==
    ASSUME IInv, Typed', NEW p \in Proc, Turn(p), Accounts, UNCHANGED <<room, odd>>,
           proc[p].at \notin {"getfree", "nofree", "kmem"}
    PROVE  Accounts'
<1>1. \A x \in Buf : buf'[x].size = buf[x].size
  BY DEF Turn, Resized
<1>2. proc'[p].at # "kmem"
  BY DEF Turn, Goes
<1> QED BY <1>1, <1>2, AccountsStay

\* The room that is left is a number, at most bufhwm.
LEMMA RoomIs ==
    ASSUME IInv, Accounts, Disk
    PROVE  /\ room \in Int /\ room <= bufhwm /\ bufhwm \in Nat /\ odd \in Nat
           /\ Memory(buf) \in Nat /\ room + Memory(buf) = bufhwm
<1>1. Memory(buf) \in Nat
  BY MemoryBounds DEF IInv, Typed
<1>2. room \in Int /\ bufhwm \in Nat /\ odd \in Nat
  BY BioAssumption DEF IInv, Typed, Disk
<1> QED BY <1>1, <1>2 DEF Accounts

\* getfreeblk gives the memory of a buffer back.
LEMMA DiscardAccounts ==
    ASSUME IInv, Disk, Typed', NEW p \in Proc, Turn(p), Accounts, UNCHANGED odd,
           proc[p].at = "getfree", NEW b \in Buf, b \in ToSet(free),
           buf' = [buf EXCEPT ![b] = Header], room' = room + buf[b].size,
           NEW C, Go(p, proc[p], C)
    PROVE  Accounts'
<1>1. /\ buf \in [Buf -> HeaderT] /\ buf' \in [Buf -> HeaderT] /\ proc \in [Proc -> ProcT]
      /\ proc[p] \in ProcT
  BY DEF IInv, Typed
<1>2. proc'[p] = proc[p]
  BY <1>1, GoIs
<1>3. Kmems' = Kmems
  BY <1>2, KmemsMove
<1>4. buf'[b].size = 0 /\ buf[b].size \in Nat /\ \A x \in Buf \ {b} : buf'[x] = buf[x]
  BY <1>1 DEF Header, HeaderT
<1>5. Memory(buf') = Memory(buf) + buf'[b].size - buf[b].size
  BY <1>1, <1>4, MemoryMoves
<1>6. /\ room \in Int /\ bufhwm \in Nat /\ odd \in Nat /\ Memory(buf) \in Nat
      /\ room + Memory(buf) = bufhwm
  BY RoomIs
<1>7. room' + Memory(buf') = bufhwm
  BY <1>4, <1>5, <1>6
<1>8. room' >= -((odd' - Cardinality(Kmems')) * bufhwm)
  <2>1. PICK n \in Int : n = odd - Cardinality(Kmems)
    BY <1>6, KmemsAre
  <2>2. room >= -(n * bufhwm) /\ n * bufhwm \in Int
    BY <1>6, <2>1 DEF Accounts
  <2>3. room' >= -(n * bufhwm)
    BY <1>4, <1>6, <2>2
  <2> QED BY <1>3, <2>1, <2>3
<1>9. \A x \in Buf : buf'[x].size <= bufhwm
  BY <1>4, <1>6 DEF Accounts
<1>10. \A q \in Proc \ {p} : Fits(q)'
  BY OthersFit DEF Accounts
<1>11. Fits(p)'
  <2>1. proc[p].save # b
    <3>1. ASSUME proc[p].save = b
          PROVE  FALSE
      <4>1. Mine(proc[p], b)
        BY <3>1 DEF Mine
      <4> QED BY <4>1 DEF IInv, Places, BufOK
    <3> QED BY <3>1
  <2>2. proc[p].save \in Buf \cup {None}
    BY <1>1 DEF ProcT
  <2> QED BY <1>2, <1>4, <2>1, <2>2, OneFits DEF Accounts
<1> QED BY <1>3, <1>7, <1>8, <1>9, <1>10, <1>11 DEF Accounts

\* getfreeblk's loop.
LEMMA GetfreeAccounts ==
    ASSUME IInv, Disk, Typed', NEW p \in Proc, Turn(p), Accounts, Getfree(p)
    PROVE  Accounts'
<1>1. /\ buf \in [Buf -> HeaderT] /\ buf' \in [Buf -> HeaderT] /\ proc \in [Proc -> ProcT]
      /\ free \in Seq(Buf) /\ IsInjective(free)
  BY DEF IInv, Typed, Places
<1>2. PICK s \in ProcT : s = proc[p] /\ s.at = "getfree" /\ s.chan = None
  BY RunsIs DEF Getfree
<1>3. proc'[p].at # "kmem" /\ UNCHANGED odd
  BY <1>2 DEF Turn, Goes, Getfree
<1>4. ASSUME \A x \in Buf : buf'[x].size = buf[x].size, UNCHANGED room
      PROVE  Accounts'
  BY <1>2, <1>3, <1>4, AccountsStay
<1>5. PICK b : b = Head(free)
  OBVIOUS
<1>6. free # <<>> => b \in Buf /\ b \in ToSet(free)
  BY <1>1, <1>5, TailIs, ListIs
<1>7. ASSUME free # <<>>, UNCHANGED room,
             Bwrite(p, b, Set(Set(buf, b, {"BUSY"}), b, {"ASYNC", "AGE"}),
                    [s EXCEPT !.back = "getfree"])
      PROVE  Accounts'
  <2>1. PICK t : t = Set(Set(buf, b, {"BUSY"}), b, {"ASYNC", "AGE"})
    OBVIOUS
  <2>2. t \in [Buf -> HeaderT] /\ \A x \in Buf : t[x].size = buf[x].size
    BY <1>1, <1>6, <1>7, <2>1, SetSizes DEF Flags
  <2>3. PICK r : r = [s EXCEPT !.back = "getfree"]
    OBVIOUS
  <2>4. r \in ProcT
    BY <2>3 DEF ProcT, Where
  <2>5. PICK u \in [Buf -> HeaderT], w \in ProcT : Writes(b, t, r, u, w) /\ Strategy(p, b, u, w)
    BY <1>6, <1>7, <2>1, <2>2, <2>3, <2>4, BwriteIs
  <2>6. buf' = u
    BY <2>5 DEF Strategy
  <2>7. \A x \in Buf : buf'[x].size = buf[x].size
    BY <2>2, <2>5, <2>6 DEF Writes, Flagged
  <2> QED BY <1>4, <1>7, <2>7
<1>8. ASSUME free # <<>>, UNCHANGED room, buf' = [Set(buf, b, {"BUSY"}) EXCEPT ![b].blk = None]
      PROVE  Accounts'
  <2>1. PICK t \in [Buf -> HeaderT] : /\ t = Set(buf, b, {"BUSY"})
                                      /\ \A x \in Buf : t[x].size = buf[x].size
    BY <1>1, <1>6, <1>8, SetSizes DEF Flags
  <2>2. PICK h \in HeaderT : h = t[b]
    BY <1>6, <1>8, <2>1
  <2>3. [h EXCEPT !.blk = None].size = h.size
    BY DEF HeaderT
  <2>4. buf' = [t EXCEPT ![b] = [h EXCEPT !.blk = None]]
    BY <1>8, <2>1, <2>2
  <2>5. \A x \in Buf : buf'[x].size = buf[x].size
    BY <1>6, <1>8, <2>1, <2>2, <2>3, <2>4
  <2> QED BY <1>4, <1>8, <2>5
<1>9. ASSUME free # <<>>, buf' = [buf EXCEPT ![b] = Header], room' = room + buf[b].size,
             NEW C, Go(p, s, C)
      PROVE  Accounts'
  BY <1>2, <1>3, <1>6, <1>9, DiscardAccounts
<1>10. \/ UNCHANGED <<buf, room>>
       \/ /\ free # <<>> /\ UNCHANGED room
          /\ Bwrite(p, b, Set(Set(buf, b, {"BUSY"}), b, {"ASYNC", "AGE"}),
                    [s EXCEPT !.back = "getfree"])
       \/ /\ free # <<>> /\ UNCHANGED room
          /\ buf' = [Set(buf, b, {"BUSY"}) EXCEPT ![b].blk = None]
       \/ /\ free # <<>> /\ buf' = [buf EXCEPT ![b] = Header] /\ room' = room + buf[b].size
          /\ \E C : Go(p, s, C)
  BY <1>2, <1>5 DEF Getfree
<1> QED BY <1>4, <1>7, <1>8, <1>9, <1>10

\* p has memory for its block in the blank header b.
LEMMA AssignAccounts ==
    ASSUME IInv, Disk, Typed', NEW p \in Proc, Turn(p), Accounts, UNCHANGED odd,
           NEW b \in Buf, Assign(p, b), buf[b].size = 0, Size(p) <= bufhwm,
           room' = room - Size(p), Cardinality(Kmems') \in Nat, Cardinality(Kmems') <= odd,
           room - Size(p) >= -((odd - Cardinality(Kmems')) * bufhwm)
    PROVE  Accounts'
<1>1. /\ buf \in [Buf -> HeaderT] /\ buf' \in [Buf -> HeaderT] /\ proc \in [Proc -> ProcT]
      /\ proc[p] \in ProcT
  BY DEF IInv, Typed
<1>2. PICK r : r = [proc[p] EXCEPT !.at = "got", !.bp = b, !.save = None, !.slept = FALSE]
  OBVIOUS
<1>3. r \in ProcT /\ r.at = "got" /\ r.save = None
  <2>1. PICK s \in ProcT : s = proc[p]
    BY <1>1
  <2> QED BY <1>2, <2>1 DEF ProcT, Where
<1>4. Go(p, r, {})
  BY <1>2 DEF Assign
<1>5. proc'[p] = r
  BY <1>1, <1>3, <1>4, GoIs
<1>6. buf'[b].size = Size(p) /\ \A x \in Buf \ {b} : buf'[x] = buf[x]
  BY <1>1 DEF Assign
<1>7. Memory(buf') = Memory(buf) + buf'[b].size - buf[b].size
  BY <1>1, <1>6, MemoryMoves
<1>8. /\ room \in Int /\ bufhwm \in Nat /\ odd \in Nat /\ Memory(buf) \in Nat
      /\ room + Memory(buf) = bufhwm /\ Size(p) \in Nat
  BY RoomIs, SizeIs
<1>9. room' + Memory(buf') = bufhwm
  BY <1>6, <1>7, <1>8
<1>10. \A x \in Buf : buf'[x].size <= bufhwm
  BY <1>6, <1>8 DEF Accounts
<1>11. \A q \in Proc \ {p} : Fits(q)'
  BY OthersFit DEF Accounts
<1>12. Fits(p)'
  BY <1>3, <1>5 DEF Fits
<1> QED BY <1>8, <1>9, <1>10, <1>11, <1>12 DEF Accounts

\* kmem_zalloc returns: there may be less room than was in view before.
LEMMA KmemAccounts ==
    ASSUME IInv, Disk, Typed', NEW p \in Proc, Turn(p), Accounts, Kmem(p)
    PROVE  Accounts'
<1>1. PICK s \in ProcT : /\ s = proc[p] /\ s.at = "kmem" /\ s.chan = None /\ Local(s)
  BY RunsIs DEF Kmem
<1>2. PICK b \in Buf : b = s.bp
  BY <1>1 DEF Local, HasOK, Owning, ProcT
<1>3. Assign(p, b) /\ room' = room - Size(p) /\ UNCHANGED odd
  BY <1>1, <1>2 DEF Kmem
<1>4. buf[b].size = 0
  <2>1. Mine(s, b) /\ s.at \in Owning
    BY <1>1, <1>2 DEF Mine, Owning
  <2>2. MineOK(s, b, buf[b], b \in io)
    BY <1>1, <2>1 DEF IInv, Places, BufOK
  <2> QED BY <1>1, <1>2, <2>1, <2>2 DEF MineOK, BpOK, Blank
<1>5. proc'[p].at # "kmem"
  BY <1>1 DEF Turn, Goes
<1>6. b \in Kmems /\ Kmems' = Kmems \ {b}
  BY <1>1, <1>2, <1>5, KmemsMove
<1>7. Cardinality(Kmems) \in Nat /\ Cardinality(Kmems') = Cardinality(Kmems) - 1
      /\ Cardinality(Kmems') \in Nat
  BY <1>6, KmemsAre, FS_RemoveElement, FS_CardinalityType
<1>8. Size(p) \in Nat /\ Size(p) <= bufhwm
  BY <1>1, SizeIs DEF Accounts, Fits
<1>9. room \in Int /\ bufhwm \in Nat /\ odd \in Nat
  BY RoomIs
<1>10. room - Size(p) >= -((odd - Cardinality(Kmems')) * bufhwm)
  <2>1. PICK n \in Int : n = odd - Cardinality(Kmems)
    BY <1>7, <1>9
  <2>2. room - Size(p) >= -((n + 1) * bufhwm)
    <3>1. room >= -(n * bufhwm)
      BY <2>1 DEF Accounts
    <3> QED BY <1>8, <1>9, <3>1, RoomLess
  <2>3. n + 1 = odd - Cardinality(Kmems')
    BY <1>7, <1>9, <2>1
  <2> QED BY <2>2, <2>3
<1>11. Cardinality(Kmems') <= odd
  BY <1>7, <1>9 DEF Accounts
<1> QED BY <1>3, <1>4, <1>7, <1>8, <1>10, <1>11, AssignAccounts

\* getfreeblk after its loop.
LEMMA NofreeAccounts ==
    ASSUME IInv, Disk, Typed', NEW p \in Proc, Turn(p), Accounts, Nofree(p)
    PROVE  Accounts'
<1>1. /\ buf \in [Buf -> HeaderT] /\ buf' \in [Buf -> HeaderT] /\ proc \in [Proc -> ProcT]
      /\ hdrs \subseteq Buf
  BY DEF IInv, Typed
<1>2. PICK s \in ProcT : s = proc[p] /\ s.at = "nofree" /\ s.chan = None
  BY RunsIs DEF Nofree
<1>3. /\ room \in Int /\ room <= bufhwm /\ bufhwm \in Nat /\ odd \in Nat
      /\ Size(p) \in Nat /\ Cardinality(Kmems) \in Nat /\ Kmems \subseteq Buf /\ IsFiniteSet(Kmems)
  BY RoomIs, SizeIs, KmemsAre
<1>4. ASSUME s.save # None, Assign(p, s.save), UNCHANGED <<room, odd>>
      PROVE  Accounts'
  <2>1. PICK b \in Buf : b = s.save
    BY <1>4 DEF ProcT
  <2>2. buf[b].size = Size(p)
    BY <1>2, <1>4, <2>1 DEF Accounts, Fits
  <2>3. \A x \in Buf : buf'[x].size = buf[x].size
    BY <1>1, <1>4, <2>1, <2>2 DEF Assign
  <2>4. proc'[p].at # "kmem"
    <3>1. PICK r : r = [s EXCEPT !.at = "got", !.bp = b, !.save = None, !.slept = FALSE]
      OBVIOUS
    <3>2. r \in ProcT /\ r.at = "got"
      BY <3>1 DEF ProcT, Where
    <3>3. Go(p, r, {})
      BY <1>2, <1>4, <2>1, <3>1 DEF Assign
    <3> QED BY <1>1, <3>2, <3>3, GoIs
  <2> QED BY <1>2, <1>4, <2>3, <2>4, AccountsStay
<1>5. ASSUME NEW c \in {"free", "hdr"}, NEW d \in BOOLEAN, UNCHANGED <<buf, room, odd>>,
             NEW r, r = [s EXCEPT !.at = Loop(p), !.slept = FALSE, !.chan = c, !.raced = d],
             Go(p, r, {})
      PROVE  Accounts'
  <2>1. PICK w \in {"getfree", "getblk"} : w = Loop(p)
    BY DEF Loop
  <2>2. r \in ProcT /\ r.at = w
    <3>1. r = [s EXCEPT !.at = w, !.slept = FALSE, !.chan = c, !.raced = d] /\ s \in ProcT
      BY <1>5, <2>1
    <3>2. w \in Where /\ c \in Chan
      BY DEF Where, Chan
    <3> QED BY ONLY <3>1, <3>2 DEF ProcT
  <2>3. proc'[p].at # "kmem"
    BY <1>1, <1>5, <2>1, <2>2, GoIs
  <2> QED BY <1>2, <1>5, <2>3, AccountsStay
<1>6. ASSUME NEW b \in hdrs
      PROVE  buf[b].size = 0 /\ b \in Buf /\ b \notin Kmems
  <2>1. b \in Buf /\ BufOK(b)
    BY <1>1 DEF IInv, Places
  <2>2. b \notin Kmems
    <3>1. ASSUME NEW q \in Proc, proc[q].at = "kmem", proc[q].bp = b
          PROVE  FALSE
      <4>1. Mine(proc[q], b)
        BY <3>1 DEF Mine, Owning
      <4> QED BY <1>6, <2>1, <4>1 DEF BufOK
    <3> QED BY <3>1 DEF Kmems
  <2> QED BY <1>6, <2>1, <2>2 DEF BufOK, Blank
<1>7. ASSUME room >= Size(p), NEW b \in hdrs, Assign(p, b), room' = room - Size(p), UNCHANGED odd
      PROVE  Accounts'
  <2>1. proc'[p].at # "kmem"
    <3>1. PICK r : r = [s EXCEPT !.at = "got", !.bp = b, !.save = None, !.slept = FALSE]
      OBVIOUS
    <3>2. r \in ProcT /\ r.at = "got"
      BY <1>6, <3>1 DEF ProcT, Where
    <3>3. Go(p, r, {})
      BY <1>2, <1>7, <3>1 DEF Assign
    <3> QED BY <1>1, <3>2, <3>3, GoIs
  <2>2. Kmems' = Kmems
    BY <1>2, <2>1, KmemsMove
  <2>3. Size(p) <= bufhwm
    BY <1>3, <1>7
  <2>4. Cardinality(Kmems) <= odd
    BY DEF Accounts
  <2>5. room - Size(p) >= -((odd - Cardinality(Kmems')) * bufhwm)
    <3>1. room - Size(p) >= -(0 * bufhwm) /\ room - Size(p) \in Int
      BY <1>3, <1>7
    <3>2. PICK m \in Int : m = odd - Cardinality(Kmems) /\ 0 <= m
      BY <1>3, <2>4
    <3> QED BY <2>2, <3>1, <3>2, RoomMore
  <2> QED BY <1>3, <1>6, <1>7, <2>2, <2>3, <2>4, <2>5, AssignAccounts
<1>8. ASSUME room >= Size(p), NEW b \in hdrs, UNCHANGED <<buf, room>>, odd' = odd + 1,
             Go(p, [s EXCEPT !.at = "kmem", !.bp = b, !.slept = TRUE], {})
      PROVE  Accounts'
  <2>1. PICK r : r = [s EXCEPT !.at = "kmem", !.bp = b, !.slept = TRUE]
    OBVIOUS
  <2>2. r \in ProcT /\ r.at = "kmem" /\ r.bp = b /\ r.save = s.save /\ r.blk = s.blk
    BY <1>6, <2>1 DEF ProcT, Where
  <2>3. proc'[p] = r
    BY <1>1, <1>8, <2>1, <2>2, GoIs
  <2>4. Kmems' = Kmems \cup {b}
    BY <1>2, <1>6, <2>2, <2>3, KmemsMove
  <2>5. Cardinality(Kmems') = Cardinality(Kmems) + 1
    BY <1>3, <1>6, <2>4, FS_AddElement
  <2>6. /\ Memory(buf') = Memory(buf) /\ \A x \in Buf : buf'[x].size <= bufhwm
        /\ \A q \in Proc \ {p} : Fits(q)'
    BY <1>8, SizesStay
  <2>7. Size(p)' = Size(p)
    BY <1>2, <2>2, <2>3 DEF Size
  <2>8. Fits(p)'
    <3>1. Size(p) <= bufhwm
      BY <1>3, <1>8
    <3> QED BY <1>2, <1>8, <2>2, <2>3, <2>7, <3>1 DEF Accounts, Fits
  <2>9. odd' - Cardinality(Kmems') = odd - Cardinality(Kmems) /\ Cardinality(Kmems') <= odd'
    BY <1>3, <1>8, <2>5 DEF Accounts
  <2> QED BY <1>8, <2>6, <2>8, <2>9 DEF Accounts
<1>9. \/ s.save # None /\ Assign(p, s.save) /\ UNCHANGED <<room, odd>>
      \/ /\ UNCHANGED <<buf, room, odd>>
         /\ Go(p, [[s EXCEPT !.at = Loop(p), !.slept = FALSE] EXCEPT !.chan = "free",
                                                              !.raced = free # <<>>], {})
      \/ /\ UNCHANGED <<buf, room, odd>>
         /\ Go(p, [[s EXCEPT !.at = Loop(p), !.slept = FALSE] EXCEPT !.chan = "hdr"], {})
      \/ /\ room >= Size(p)
         /\ \E b \in hdrs :
              \/ Assign(p, b) /\ room' = room - Size(p) /\ UNCHANGED odd
              \/ /\ Go(p, [s EXCEPT !.at = "kmem", !.bp = b, !.slept = TRUE], {})
                 /\ UNCHANGED <<buf, room>> /\ odd' = odd + 1
  BY <1>2 DEF Nofree
<1>10. /\ [[s EXCEPT !.at = Loop(p), !.slept = FALSE] EXCEPT !.chan = "free", !.raced = free # <<>>]
            = [s EXCEPT !.at = Loop(p), !.slept = FALSE, !.chan = "free", !.raced = (free # <<>>)]
       /\ [[s EXCEPT !.at = Loop(p), !.slept = FALSE] EXCEPT !.chan = "hdr"]
            = [s EXCEPT !.at = Loop(p), !.slept = FALSE, !.chan = "hdr", !.raced = s.raced]
       /\ s.raced \in BOOLEAN
  BY DEF ProcT
<1> QED BY <1>4, <1>5, <1>7, <1>8, <1>9, <1>10

\* The interrupt moves no memory.
LEMMA DiskAccounts ==
    ASSUME IInv, Disk, Typed', Disk', Accounts, NEW b \in Buf, DiskDone(b)
    PROVE  Accounts'
<1>1. /\ \A x \in Buf : buf'[x].size = buf[x].size
      /\ \A q \in Proc : Kept(proc[q], proc'[q])
  BY DiskFrame
<1>2. buf \in [Buf -> HeaderT] /\ buf' \in [Buf -> HeaderT] /\ proc \in [Proc -> ProcT]
  BY DEF IInv, Typed
<1>3. Memory(buf') = Memory(buf)
  BY <1>1, <1>2, MemoryStays
<1>4. Kmems' = Kmems
  BY <1>1 DEF Kmems, Kept
<1>5. \A q \in Proc : Fits(q)'
  <2>1. ASSUME NEW q \in Proc
        PROVE  Fits(q)'
    <3>1. Size(q)' = Size(q)
      BY <1>1 DEF Kept, Size
    <3>2. proc[q].save \in Buf \cup {None}
      BY <1>2 DEF ProcT
    <3> QED BY <1>1, <3>1, <3>2 DEF Accounts, Fits, Kept
  <2> QED BY <2>1
<1>6. room' = room /\ odd' \in {odd, odd + 1}
  BY DEF DiskDone
<1>7. room \in Int /\ bufhwm \in Nat /\ odd \in Nat /\ Cardinality(Kmems) \in Nat
  BY RoomIs, KmemsAre
<1>8. room' >= -((odd' - Cardinality(Kmems')) * bufhwm)
  <2>1. PICK n \in Int, m \in Int :
          n = odd - Cardinality(Kmems) /\ m = odd' - Cardinality(Kmems) /\ n <= m
    BY <1>6, <1>7
  <2>2. room >= -(n * bufhwm)
    BY <2>1 DEF Accounts
  <2>3. room >= -(m * bufhwm)
    BY <1>7, <2>1, <2>2, RoomMore
  <2> QED BY <1>4, <1>6, <2>1, <2>3
<1>9. Cardinality(Kmems') <= odd'
  BY <1>4, <1>6, <1>7 DEF Accounts
<1> QED BY <1>1, <1>3, <1>5, <1>6, <1>8, <1>9 DEF Accounts

\* The accounts are right at the start.
LEMMA AccountsStart ==
    ASSUME Init
    PROVE  Accounts
<1>1. IInv /\ Disk
  BY InitHolds
<1>2. buf \in [Buf -> HeaderT] /\ \A b \in Buf : buf[b].size = 0
  BY <1>1 DEF Init, Header, IInv, Typed
<1>3. Memory(buf) = 0
  BY <1>2, MemoryNone
<1>4. Kmems = {} /\ \A p \in Proc : Fits(p)
  BY DEF Init, User, Kmems, Fits
<1>5. Cardinality(Kmems) = 0
  BY <1>4, FS_EmptySet
<1>6. bufhwm \in Nat /\ room = bufhwm /\ odd = 0
  BY BioAssumption DEF Init
<1> QED BY <1>2, <1>3, <1>4, <1>5, <1>6 DEF Accounts

\* Every action keeps them.
LEMMA AccountsKept ==
    ASSUME IInv, Disk, Accounts, [Next]_vars
    PROVE  Accounts'
<1>1. CASE UNCHANGED vars
  <2>1. Kmems' = Kmems /\ \A q \in Proc : Fits(q) => Fits(q)'
    BY <1>1 DEF vars, Kmems, Fits, Size
  <2> QED BY <1>1, <2>1 DEF vars, Accounts
<1>2. Next => Typed' /\ Disk'
  BY NextKeeps, DiskKeeps DEF IInv
<1>3. ASSUME Next, NEW p \in Proc,
             (\E c \in Calls : Start(p, c)) \/ Search(p) \/ ReadAhead(p) \/ Wrote(p) \/ Bdwait(p)
      PROVE  Accounts'
  <2>1. proc[p].at \notin {"getfree", "nofree", "kmem"} /\ UNCHANGED <<room, odd>>
    BY <1>3 DEF Start, Search, ReadAhead, Wrote, Bdwait, Runs
  <2> QED BY <1>2, <1>3, <2>1, SearchTurn, PlainAccounts
<1>4. ASSUME Next, NEW p \in Proc, Match(p) \/ Got(p)
      PROVE  Accounts'
  <2>1. proc[p].at \notin {"getfree", "nofree", "kmem"} /\ UNCHANGED <<room, odd>>
    BY <1>4 DEF Match, Got, Runs
  <2> QED BY <1>2, <1>4, <2>1, TakeTurn, GotTurn, PlainAccounts
<1>5. ASSUME Next, NEW p \in Proc,
             Breakup(p) \/ Biowait(p) \/ Finish(p) \/ Blkflush(p) \/ Bflush(p)
      PROVE  Accounts'
  <2>1. proc[p].at \notin {"getfree", "nofree", "kmem"} /\ UNCHANGED <<room, odd>>
    BY <1>5 DEF Breakup, Biowait, Finish, Blkflush, Bflush, Runs
  <2> QED BY <1>2, <1>5, <2>1, BreakupTurn, BiowaitTurn, FinishTurn, FlushTurn, PlainAccounts
<1>6. ASSUME Next, NEW p \in Proc, Getfree(p) \/ Nofree(p) \/ Kmem(p)
      PROVE  Accounts'
  BY <1>2, <1>6, TakeTurn, NofreeTurn, GetfreeAccounts, NofreeAccounts, KmemAccounts
<1>7. ASSUME Next, NEW b \in Buf, DiskDone(b)
      PROVE  Accounts'
  BY <1>2, <1>7, DiskAccounts
<1> QED BY <1>1, <1>3, <1>4, <1>5, <1>6, <1>7 DEF Next

\* The blocks in lost are those of headers, or what getblk searched for.
Lost == lost \subseteq Blk \cup {None}
LEMMA LostKept ==
    ASSUME IInv, Lost, [Next]_vars
    PROVE  Lost'
<1>1. buf \in [Buf -> HeaderT] /\ proc \in [Proc -> ProcT]
  BY DEF IInv, Typed
<1>2. \A b \in Buf : buf[b].blk \in Blk \cup {None}
  BY <1>1 DEF HeaderT
<1>3. \A p \in Proc : proc[p].blk \in Blk \cup {None}
  BY <1>1 DEF ProcT
<1>4. ASSUME NEW p \in Proc, Match(p)
      PROVE  Lost'
  BY <1>3, <1>4 DEF Match, Lost
<1>5. ASSUME NEW p \in Proc, Bflush(p)
      PROVE  Lost'
  <2>1. lost' = lost \/ lost' = lost \cup {buf[b].blk : b \in Writing}
    BY <1>5 DEF Bflush
  <2>2. Writing \subseteq Buf
    BY DEF Writing
  <2> QED BY <1>2, <2>1, <2>2 DEF Lost
<1>6. ASSUME NEW b \in Buf, DiskDone(b)
      PROVE  Lost'
  BY <1>2, <1>6 DEF DiskDone, Lost
<1>7. ASSUME NEW p \in Proc,
             \/ \E c \in Calls : Start(p, c)
             \/ Search(p) \/ Getfree(p) \/ Nofree(p) \/ Kmem(p) \/ Got(p) \/ ReadAhead(p)
             \/ Breakup(p) \/ Biowait(p) \/ Wrote(p) \/ Finish(p) \/ Blkflush(p) \/ Bdwait(p)
      PROVE  UNCHANGED lost
  BY <1>7 DEF Start, Search, Getfree, Nofree, Kmem, Got, ReadAhead, Breakup, Biowait, Wrote,
              Finish, Blkflush, Bdwait
<1>8. UNCHANGED lost => Lost'
  BY DEF Lost
<1> QED BY <1>4, <1>5, <1>6, <1>7, <1>8 DEF Next, vars

\* TypeOK, with the bounds.
LEMMA TypesFollow ==
    ASSUME IInv, Disk, Accounts, Lost
    PROVE  TypeOK
<1>1. /\ buf \in [Buf -> HeaderT] /\ proc \in [Proc -> ProcT] /\ None \notin Buf
  BY BioAssumption DEF IInv, Typed
<1>2. /\ room \in Int /\ room <= bufhwm /\ bufhwm \in Nat /\ odd \in Nat /\ odd <= MaxOdd
      /\ MaxOdd \in Nat /\ Cardinality(Kmems) \in Nat
  BY RoomIs, KmemsAre, BioAssumption DEF Disk
<1>3. ASSUME NEW b \in Buf
      PROVE  /\ buf[b].blk \in Blk \cup {None} /\ buf[b].size \in 0 .. bufhwm
             /\ buf[b].flags \subseteq Flags /\ buf[b].fresh \in BOOLEAN
  <2>1. /\ buf[b].blk \in Blk \cup {None} /\ buf[b].size \in Nat
        /\ buf[b].flags \subseteq Flags /\ buf[b].fresh \in BOOLEAN
    BY <1>1 DEF HeaderT
  <2>2. buf[b].size <= bufhwm
    BY DEF Accounts
  <2> QED BY <1>2, <2>1, <2>2
<1>4. room \in -(MaxOdd * bufhwm) .. bufhwm
  <2>1. PICK n \in Int, m \in Int : n = odd - Cardinality(Kmems) /\ m = MaxOdd /\ n <= m
    BY <1>2
  <2>2. room >= -(n * bufhwm)
    BY <2>1 DEF Accounts
  <2>3. room >= -(MaxOdd * bufhwm)
    BY <1>2, <2>1, <2>2, RoomMore
  <2>4. -(MaxOdd * bufhwm) \in Int
    BY <1>2
  <2> QED BY <1>2, <2>3, <2>4
<1>5. asyn.cnt \in -1 .. Cardinality(Buf) /\ asyn.wait \in BOOLEAN
  <2>1. Out \subseteq Buf
    BY DEF Out, Writing
  <2>2. Cardinality(Out) \in Nat /\ Cardinality(Buf) \in Nat
        /\ Cardinality(Out) <= Cardinality(Buf)
    BY <2>1, BioAssumption, FS_Subset, FS_CardinalityType
  <2>3. asyn.cnt \in Int /\ asyn.wait \in BOOLEAN
    BY DEF IInv, Typed
  <2>4. asyn.cnt + Num(Wrotes # {}) = Cardinality(Out)
    BY DEF IInv, Counted
  <2>5. Num(Wrotes # {}) \in 0 .. 1
    BY DEF Num
  <2> QED BY <2>2, <2>3, <2>4, <2>5
<1>6. ASSUME NEW p \in Proc
      PROVE  /\ proc[p].at \in Where /\ proc[p].chan \in Chan
             /\ {proc[p].bp, proc[p].first, proc[p].save} \subseteq Buf \cup {None}
  BY <1>1 DEF ProcT
<1> QED BY <1>3, <1>4, <1>5, <1>6 DEF TypeOK, IInv, Typed, Disk, Lost

\* Every buffer is accounted for: it is in one place, with one owner at most,
\* and what the buffers have of memory and what is left of it add up to
\* bufhwm, which the sleeps in kmem_zalloc pass by a bounded amount.
THEOREM BuffersAlwaysAccounted == Spec => []BuffersAccounted
<1>1. Init => IInv /\ Disk /\ Accounts /\ Lost
  <2>1. Init => Lost
    BY DEF Init, Lost
  <2> QED BY <2>1, InitHolds, AccountsStart
<1>2. IInv /\ Disk /\ Accounts /\ Lost /\ [Next]_vars => (IInv /\ Disk /\ Accounts /\ Lost)'
  BY NextKeeps, DiskKeeps, StutterKeeps, AccountsKept, LostKept
<1>3. IInv /\ Disk /\ Accounts /\ Lost => BuffersAccounted
  <2> SUFFICES ASSUME IInv, Disk, Accounts, Lost
               PROVE  BuffersAccounted
    OBVIOUS
  <2> QED BY OwnershipFollows, TypesFollow DEF BuffersAccounted, Accounts
<1> QED BY <1>1, <1>2, <1>3, PTL DEF Spec
=============================================================================
