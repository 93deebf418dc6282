---------------------------- MODULE FreeMapProof ----------------------------
(***************************************************************************)
(* Proofs about FreeMap for every space, map size, alignment and set of    *)
(* processes.  The inductive invariant is the conjunction of the three     *)
(* properties: TypeOK bounds what is taken, BlocksDisjoint keeps what is   *)
(* given back out of the map, and NoSleeperWithFit needs only that a step  *)
(* that wakes nobody leaves no unit free that was not free before.         *)
(***************************************************************************)
EXTENDS FreeMap, TLAPS

IInv == TypeOK /\ BlocksDisjoint /\ NoSleeperWithFit

\* The blocks of the space, as TypeOK has them.
Blocks == {b \in Space \X Sizes : Units(b[1], b[2]) \subseteq Space}

-----------------------------------------------------------------------------
\* A block that fits is made of free units.
LEMMA FirstFitIsFree ==
    ASSUME NEW m, NEW n, NEW a, FirstFit(m, n, a) \/ FirstAligned(m, n, a)
    PROVE  Units(a, n) \subseteq m
BY DEF FirstFit, FirstAligned, Fits

\* What fits into some of the units fits into all of them.
LEMMA FitsMonotone ==
    ASSUME NEW m1, NEW m2, m1 \subseteq m2, NEW n, Fits(m2, n) = {}
    PROVE  Fits(m1, n) = {}
BY DEF Fits

\* ptmalloc takes units out of the map, the block's among them.
LEMMA CarveTakes ==
    ASSUME NEW m, NEW n \in Nat, NEW a \in Int, m \subseteq Int, Units(a, n) \subseteq m
    PROVE  /\ Carve(m, n, a) \subseteq m
           /\ Carve(m, n, a) \cap Units(a, n) = {}
<1>1. Units(a, n) \subseteq RunFrom(m, a)
  <2> SUFFICES ASSUME NEW b \in Units(a, n) PROVE b \in RunFrom(m, a)
    OBVIOUS
  <2>1. b \in m /\ b \in Int /\ a <= b
    BY DEF Units
  <2>2. a .. b \subseteq Units(a, n)
    BY DEF Units
  <2> QED BY <2>1, <2>2 DEF RunFrom
<1>2. QED BY <1>1 DEF Carve

\* rmfree adds the block's units or nothing.
LEMMA ReleaseAdds ==
    ASSUME NEW m, NEW n, NEW a, NEW cap
    PROVE  Release(m, n, a, cap) \in {m, m \cup Units(a, n)}
BY DEF Release

\* A block lies in the space when its units are free units.
LEMMA BlockInSpace ==
    ASSUME free \subseteq Space, NEW n \in Sizes, NEW a \in free,
           Units(a, n) \subseteq free
    PROVE  <<a, n>> \in Blocks
BY DEF Blocks

\* At the start the whole space is free and nobody waits.
LEMMA InitInvariant == Init => IInv
BY MapAssumption DEF Init, IInv, TypeOK, BlocksDisjoint, NoSleeperWithFit

-----------------------------------------------------------------------------
\* A block of free units that leaves the map keeps the blocks apart, and no
\* sleeper gets a fit out of it.
LEMMA TakeKeeps ==
    ASSUME IInv, NEW n \in Sizes, NEW a \in free, Units(a, n) \subseteq free,
           free' \subseteq free, free' \cap Units(a, n) = {},
           held' = held \cup {<<a, n>>}
    PROVE  /\ free' \subseteq Space /\ held' \subseteq Blocks
           /\ BlocksDisjoint'
           /\ \A k : Fits(free, k) = {} => Fits(free', k) = {}
<1>1. free' \subseteq Space /\ held' \subseteq Blocks
  BY BlockInSpace DEF IInv, TypeOK, Blocks
<1>2. \A b \in held' : Units(b[1], b[2]) \cap free' = {}
  BY DEF IInv, BlocksDisjoint
<1>3. \A b \in held : Units(b[1], b[2]) \cap Units(a, n) = {}
  BY DEF IInv, BlocksDisjoint
<1>4. \A b, c \in held' : b # c => Units(b[1], b[2]) \cap Units(c[1], c[2]) = {}
  <2> SUFFICES ASSUME NEW b \in held', NEW c \in held', b # c
               PROVE  Units(b[1], b[2]) \cap Units(c[1], c[2]) = {}
    OBVIOUS
  <2>1. CASE b \in held /\ c \in held
    BY <2>1 DEF IInv, BlocksDisjoint
  <2>2. CASE b = <<a, n>>
    <3>1. c \in held
      BY <2>2
    <3>2. b[1] = a /\ b[2] = n
      BY <2>2
    <3> QED BY <1>3, <3>1, <3>2
  <2>3. CASE c = <<a, n>>
    <3>1. b \in held
      BY <2>3
    <3>2. c[1] = a /\ c[2] = n
      BY <2>3
    <3> QED BY <1>3, <3>1, <3>2
  <2> QED BY <2>1, <2>2, <2>3
<1>5. \A k : Fits(free, k) = {} => Fits(free', k) = {}
  BY FitsMonotone
<1> QED BY <1>1, <1>2, <1>4, <1>5 DEF BlocksDisjoint

\* bp_mapin's attempt, the first or a later one.
LEMMA ObtainInvariant ==
    ASSUME IInv, NEW p \in Proc, NEW n \in Sizes, Obtain(p, n)
    PROVE  IInv'
<1>1. CASE \E a \in free :
              /\ FirstFit(free, n, a)
              /\ free' = free \ Units(a, n) /\ held' = held \cup {<<a, n>>}
              /\ stat' = [stat EXCEPT ![p] = "user"] /\ req' = [req EXCEPT ![p] = 0]
  <2>1. PICK a \in free :
              /\ FirstFit(free, n, a)
              /\ free' = free \ Units(a, n) /\ held' = held \cup {<<a, n>>}
              /\ stat' = [stat EXCEPT ![p] = "user"] /\ req' = [req EXCEPT ![p] = 0]
    BY <1>1
  <2>2. Units(a, n) \subseteq free
    BY <2>1, FirstFitIsFree
  <2>3. /\ free' \subseteq Space /\ held' \subseteq Blocks
        /\ BlocksDisjoint'
        /\ \A k : Fits(free, k) = {} => Fits(free', k) = {}
    BY <2>1, <2>2, TakeKeeps
  <2>4. TypeOK'
    BY <2>1, <2>3 DEF IInv, TypeOK, Blocks
  <2>5. NoSleeperWithFit'
    BY <2>1, <2>3 DEF IInv, TypeOK, NoSleeperWithFit
  <2> QED BY <2>3, <2>4, <2>5 DEF IInv
<1>2. CASE /\ Fits(free, n) = {}
           /\ stat' = [stat EXCEPT ![p] = "asleep"] /\ req' = [req EXCEPT ![p] = n]
           /\ UNCHANGED <<free, held>>
  <2>1. TypeOK'
    BY <1>2 DEF IInv, TypeOK
  <2>2. BlocksDisjoint'
    BY <1>2 DEF IInv, BlocksDisjoint
  <2>3. NoSleeperWithFit'
    BY <1>2 DEF IInv, TypeOK, NoSleeperWithFit
  <2> QED BY <2>1, <2>2, <2>3 DEF IInv
<1> QED BY <1>1, <1>2 DEF Obtain

\* sptalloc.
LEMMA SptallocInvariant ==
    ASSUME IInv, NEW n \in Sizes, Sptalloc(n)
    PROVE  IInv'
<1>1. PICK a \in free : /\ FirstFit(free, n, a)
                        /\ free' = free \ Units(a, n) /\ held' = held \cup {<<a, n>>}
  BY DEF Sptalloc
<1>2. Units(a, n) \subseteq free
  BY <1>1, FirstFitIsFree
<1>3. /\ free' \subseteq Space /\ held' \subseteq Blocks
      /\ BlocksDisjoint'
      /\ \A k : Fits(free, k) = {} => Fits(free', k) = {}
  BY <1>1, <1>2, TakeKeeps
<1>4. stat' = stat /\ req' = req
  BY DEF Sptalloc
<1> QED BY <1>3, <1>4 DEF IInv, TypeOK, NoSleeperWithFit, Blocks

\* Waking everybody, or nobody, is sound when nothing new fits.
LEMMA WokenSound ==
    ASSUME IInv, stat' \in {stat, Woken}, req' = req,
           \/ \A k : Fits(free, k) = {} => Fits(free', k) = {}
           \/ stat' = Woken
    PROVE  /\ stat' \in [Proc -> {"user", "asleep", "run"}]
           /\ \A p \in Proc : stat'[p] # "user" => req'[p] \in Sizes
           /\ NoSleeperWithFit'
<1>1. CASE stat' = Woken
  BY <1>1 DEF IInv, TypeOK, Woken, NoSleeperWithFit
<1>2. CASE stat' = stat /\ stat' # Woken
  BY <1>2 DEF IInv, TypeOK, NoSleeperWithFit
<1> QED BY <1>1, <1>2

\* kseg.
LEMMA KsegInvariant ==
    ASSUME IInv, NEW n \in SegSizes, Kseg(n)
    PROVE  IInv'
<1>1. n \in Sizes /\ n \in Nat
  BY MapAssumption DEF SegSizes
<1>2. PICK a \in free : /\ FirstAligned(free, n, a)
                        /\ free' = Carve(free, n, a) /\ held' = held \cup {<<a, n>>}
  BY DEF Kseg
<1>3. free \subseteq Int /\ a \in Int
  BY DEF IInv, TypeOK, Space
<1>4. Units(a, n) \subseteq free
  BY <1>2, FirstFitIsFree
<1>5. free' \subseteq free /\ free' \cap Units(a, n) = {}
  BY <1>1, <1>2, <1>3, <1>4, CarveTakes
<1>6. /\ free' \subseteq Space /\ held' \subseteq Blocks
      /\ BlocksDisjoint'
      /\ \A k : Fits(free, k) = {} => Fits(free', k) = {}
  BY <1>1, <1>2, <1>4, <1>5, TakeKeeps
<1>7. stat' \in {stat, Woken} /\ req' = req
  BY DEF Kseg
<1>8. /\ stat' \in [Proc -> {"user", "asleep", "run"}]
      /\ \A p \in Proc : stat'[p] # "user" => req'[p] \in Sizes
      /\ NoSleeperWithFit'
  BY <1>6, <1>7, WokenSound
<1> QED BY <1>6, <1>7, <1>8 DEF IInv, TypeOK, Blocks

\* kseg that is refused: the block comes back, the tail may be lost.
LEMMA KsegRefusedInvariant ==
    ASSUME IInv, NEW n \in SegSizes, KsegRefused(n)
    PROVE  IInv'
<1>1. n \in Sizes /\ n \in Nat
  BY MapAssumption DEF SegSizes
<1>2. PICK a \in free :
        /\ FirstAligned(free, n, a)
        /\ free' = Release(Carve(free, n, a), n, a, mapslots)
  BY DEF KsegRefused
<1>3. free \subseteq Int /\ a \in Int
  BY DEF IInv, TypeOK, Space
<1>4. Units(a, n) \subseteq free
  BY <1>2, FirstFitIsFree
<1>5. Carve(free, n, a) \subseteq free
  BY <1>1, <1>3, <1>4, CarveTakes
<1>6. free' \subseteq free
  BY <1>2, <1>4, <1>5, ReleaseAdds
<1>7. stat' \in {stat, Woken} /\ req' = req /\ held' = held
  BY DEF KsegRefused
<1>8. \A k : Fits(free, k) = {} => Fits(free', k) = {}
  BY <1>6, FitsMonotone
<1>9. /\ stat' \in [Proc -> {"user", "asleep", "run"}]
      /\ \A p \in Proc : stat'[p] # "user" => req'[p] \in Sizes
      /\ NoSleeperWithFit'
  BY <1>7, <1>8, WokenSound
<1>10. TypeOK'
  BY <1>6, <1>7, <1>9 DEF IInv, TypeOK
<1>11. BlocksDisjoint'
  BY <1>6, <1>7 DEF IInv, BlocksDisjoint
<1> QED BY <1>9, <1>10, <1>11 DEF IInv

\* rmfree of a block.
LEMMA FreeInvariant ==
    ASSUME IInv, NEW b \in held, Free(b)
    PROVE  IInv'
<1>1. /\ held' = held \ {b} /\ req' = req
      /\ free' = Release(free, b[2], b[1], mapslots)
      /\ stat' = IF free' = free THEN stat ELSE Woken
  BY DEF Free
<1>2. free' \in {free, free \cup Units(b[1], b[2])}
  BY <1>1, ReleaseAdds
<1>3. /\ stat' \in [Proc -> {"user", "asleep", "run"}]
      /\ \A p \in Proc : stat'[p] # "user" => req'[p] \in Sizes
      /\ NoSleeperWithFit'
  <2>1. CASE free' = free
    BY <1>1, <2>1, WokenSound
  <2>2. CASE free' # free
    BY <1>1, <2>2, WokenSound
  <2> QED BY <2>1, <2>2
<1>4. TypeOK'
  BY <1>1, <1>2, <1>3 DEF IInv, TypeOK
<1>5. BlocksDisjoint'
  BY <1>1, <1>2 DEF IInv, BlocksDisjoint
<1> QED BY <1>3, <1>4, <1>5 DEF IInv

-----------------------------------------------------------------------------
\* Every step keeps the invariant.
LEMMA NextInvariant ==
    ASSUME IInv, [Next]_vars
    PROVE  IInv'
<1>1. ASSUME NEW p \in Proc, Retry(p)
      PROVE  IInv'
  <2>1. req[p] \in Sizes /\ Obtain(p, req[p])
    BY <1>1 DEF Retry, IInv, TypeOK
  <2> QED BY <2>1, ObtainInvariant
<1>2. ASSUME NEW p \in Proc, NEW n \in Sizes, Mapin(p, n)
      PROVE  IInv'
  BY <1>2, ObtainInvariant DEF Mapin
<1>3. ASSUME NEW n \in Sizes, Sptalloc(n)
      PROVE  IInv'
  BY <1>3, SptallocInvariant
<1>4. ASSUME NEW n \in SegSizes, Kseg(n) \/ KsegRefused(n)
      PROVE  IInv'
  BY <1>4, KsegInvariant, KsegRefusedInvariant
<1>5. ASSUME NEW b \in held, Free(b)
      PROVE  IInv'
  BY <1>5, FreeInvariant
<1>6. ASSUME UNCHANGED vars
      PROVE  IInv'
  BY <1>6 DEF vars, IInv, TypeOK, BlocksDisjoint, NoSleeperWithFit
<1> QED BY <1>1, <1>2, <1>3, <1>4, <1>5, <1>6 DEF Next

\* What is free or out always lies in the space and every waiting process
\* has a size it waits for (malloc.c, bp_mapin's loop).
THEOREM FreeMapTypeCorrect == Spec => []TypeOK
<1>1. IInv => TypeOK
  BY DEF IInv
<1> QED BY InitInvariant, NextInvariant, <1>1, PTL DEF Spec

\* rmalloc and ptmalloc never hand out a unit twice, whatever order blocks
\* come back in and whatever the map loses when it overflows.
THEOREM FreeMapBlocksDisjoint == Spec => []BlocksDisjoint
<1>1. IInv => BlocksDisjoint
  BY DEF IInv
<1> QED BY InitInvariant, NextInvariant, <1>1, PTL DEF Spec

\* bp_mapin never sleeps while the space has room for its request.
THEOREM FreeMapNoSleeperWithFit == Spec => []NoSleeperWithFit
<1>1. IInv => NoSleeperWithFit
  BY DEF IInv
<1> QED BY InitInvariant, NextInvariant, <1>1, PTL DEF Spec
=============================================================================
