------------------------------ MODULE FreeMap ------------------------------
(***************************************************************************)
(* What the users of the map of system virtual space (sptmap) are promised *)
(* by os/malloc.c and ptmalloc of os/machdep.c: the free units are a set.  *)
(* Rmap, with the slots of the array, is shown to implement this module.   *)
(***************************************************************************)
EXTENDS MapSpace

VARIABLES
    free,   \* the units that can be had
    held,   \* the blocks <<address, size>> that are out
    stat,   \* what each process does
    req     \* the size it waits for

vars == <<free, held, stat, req>>

Init ==
    /\ free = Space
    /\ held = {}
    /\ stat = [p \in Proc |-> "user"]
    /\ req = [p \in Proc |-> 0]

-----------------------------------------------------------------------------
\* The sleepers on the map once they have all been woken.
Woken == [p \in Proc |-> IF stat[p] = "asleep" THEN "run" ELSE stat[p]]

\* rmalloc of n units by p, which waits when there is no fit.
Obtain(p, n) ==
    \/ \E a \in free :
         /\ FirstFit(free, n, a)
         /\ free' = free \ Units(a, n) /\ held' = held \cup {<<a, n>>}
         /\ stat' = [stat EXCEPT ![p] = "user"] /\ req' = [req EXCEPT ![p] = 0]
    \/ /\ Fits(free, n) = {}
       /\ stat' = [stat EXCEPT ![p] = "asleep"] /\ req' = [req EXCEPT ![p] = n]
       /\ UNCHANGED <<free, held>>

\* bp_mapin, and what it does after a wakeup.
Mapin(p, n) == stat[p] = "user" /\ Obtain(p, n)
Retry(p)    == stat[p] = "run" /\ Obtain(p, req[p])

\* sptalloc, which does not wait.
Sptalloc(n) ==
    /\ \E a \in free : /\ FirstFit(free, n, a)
                       /\ free' = free \ Units(a, n) /\ held' = held \cup {<<a, n>>}
    /\ UNCHANGED <<stat, req>>

\* ptmalloc: the lowest address on a segment boundary with n free units, and
\* what remains of the map: the part behind the block is lost if it would
\* need a slot and there is none.
FirstAligned(m, n, a) ==
    /\ a \in Fits(m, n) /\ a % npgpt = 0
    /\ \A b \in Fits(m, n) : b % npgpt = 0 => a <= b
RunFrom(m, a) == {b \in m : a .. b \subseteq m /\ a <= b}
Carve(m, n, a) ==
    LET below == m \ RunFrom(m, a)
        rest  == m \ Units(a, n)
    IN  IF Cardinality(Starts(rest)) > mapslots THEN below ELSE rest

\* kseg; the tail that ptmalloc gives back may wake the sleepers.
Kseg(n) ==
    /\ \E a \in free : /\ FirstAligned(free, n, a)
                       /\ free' = Carve(free, n, a) /\ held' = held \cup {<<a, n>>}
    /\ stat' \in {stat, Woken}
    /\ UNCHANGED req

\* kseg that finds too little memory gives its block back at once.
KsegRefused(n) ==
    /\ \E a \in free : /\ FirstAligned(free, n, a)
                       /\ free' = Release(Carve(free, n, a), n, a, mapslots)
    /\ stat' \in {stat, Woken}
    /\ UNCHANGED <<held, req>>

\* rmfree of a block, by bp_mapout, sptfree or unkseg: all sleepers are woken
\* unless the map overflows and the block is lost.
Free(b) ==
    /\ b \in held
    /\ held' = held \ {b}
    /\ free' = Release(free, b[2], b[1], mapslots)
    /\ stat' = IF free' = free THEN stat ELSE Woken
    /\ UNCHANGED req

Next ==
    \/ \E p \in Proc : Retry(p) \/ \E n \in Sizes : Mapin(p, n)
    \/ \E n \in Sizes : Sptalloc(n)
    \/ \E n \in SegSizes : Kseg(n) \/ KsegRefused(n)
    \/ \E b \in held : Free(b)

Spec == Init /\ [][Next]_vars
-----------------------------------------------------------------------------
\* What is free and what is out lies in the space, and a process that waits,
\* or was woken, knows for what.
TypeOK ==
    /\ free \subseteq Space
    /\ held \subseteq {b \in Space \X Sizes : Units(b[1], b[2]) \subseteq Space}
    /\ stat \in [Proc -> {"user", "asleep", "run"}]
    /\ req \in [Proc -> Sizes \cup {0}]
    /\ \A p \in Proc : stat[p] # "user" => req[p] \in Sizes

\* No unit is handed out twice, and none that is out is also free, whatever
\* order blocks are given back in and whatever was lost (malloc.c:38-141).
BlocksDisjoint ==
    /\ \A b \in held : Units(b[1], b[2]) \cap free = {}
    /\ \A b, c \in held : b # c => Units(b[1], b[2]) \cap Units(c[1], c[2]) = {}

\* Nobody sleeps on the map while there is room for it (bp_mapin,
\* machdep.c:806): whatever makes room wakes everybody.
NoSleeperWithFit == \A p \in Proc : stat[p] = "asleep" => Fits(free, req[p]) = {}
=============================================================================
