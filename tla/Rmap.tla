-------------------------------- MODULE Rmap --------------------------------
(***************************************************************************)
(* The map of system virtual space (sptmap) as os/malloc.c keeps it: an    *)
(* array of slots ordered by address, the number of empty slots, and the   *)
(* flag mapwant; with its users bp_mapin, bp_mapout, sptalloc, sptfree,    *)
(* kseg and unkseg.  None of the operations sleeps half-way, and none is   *)
(* called by an interrupt (os/vm_pageout.c:cleanup sees to that), so each  *)
(* is one action.                                                          *)
(***************************************************************************)
EXTENDS MapSpace, Sequences, SequencesExt

VARIABLES
    mp,     \* the map: its used slots, mp[1] up, and mapsize(mp), its room
    want,   \* mapwant(mp) # 0
    held,   \* the blocks <<address, size>> that are out
    stat,   \* what each process does
    req     \* the size it waits for

vars == <<mp, want, held, stat, req>>

Slot(a, n) == [addr |-> a, size |-> n]
End(s) == s.addr + s.size

\* startup: mapinit and one mfree of the whole space.
Init ==
    /\ mp = [slots |-> <<Slot(first, last - first + 1)>>, room |-> mapslots - 1]
    /\ want = FALSE
    /\ held = {}
    /\ stat = [p \in Proc |-> "user"]
    /\ req = [p \in Proc |-> 0]

-----------------------------------------------------------------------------
(* os/malloc.c and ptmalloc.                                               *)

\* n units are taken off the low end of slot j; an empty slot is closed up.
Shorten(m, j, n) ==
    IF m.slots[j].size = n
    THEN [slots |-> RemoveAt(m.slots, j), room |-> m.room + 1]
    ELSE [m EXCEPT !.slots[j] = Slot(@.addr + n, @.size - n)]

\* Mutant: the last slot that is long enough.
RmallocLastSlot(m, n) == SelectLastInSeq(m.slots, LAMBDA s : s.size >= n)

\* rmalloc: the slot it takes n units from, 0 if there is none.
RmallocSlot(m, n) == SelectInSeq(m.slots, LAMBDA s : s.size >= n)

\* rmfree: the index of the first slot behind address a.
Behind(m, a) == CHOOSE j \in 1 .. Len(m.slots) + 1 :
    /\ \A k \in 1 .. j - 1 : m.slots[k].addr <= a
    /\ j <= Len(m.slots) => m.slots[j].addr > a
JoinsBefore(m, a) == LET j == Behind(m, a) IN j > 1 /\ End(m.slots[j - 1]) = a
JoinsBehind(m, n, a) ==
    LET j == Behind(m, a) IN j <= Len(m.slots) /\ a + n = m.slots[j].addr

\* "rmfree map overflow": the units are lost.
Overflows(m, n, a) == ~JoinsBefore(m, a) /\ ~JoinsBehind(m, n, a) /\ m.room = 0

\* Mutant: the gap between two slots is filled and they stay two.
RmfreeNoCompress(m, n, a) ==
    LET j == Behind(m, a) IN
    IF JoinsBefore(m, a) THEN [m EXCEPT !.slots[j - 1].size = @ + n]
    ELSE IF JoinsBehind(m, n, a) THEN [m EXCEPT !.slots[j] = Slot(a, n + @.size)]
    ELSE IF m.room = 0 THEN m
    ELSE [slots |-> InsertAt(m.slots, j, Slot(a, n)), room |-> m.room - 1]

\* rmfree: n units from a on join the slot before, the slot behind or both, or
\* get a slot of their own.
Rmfree(m, n, a) ==
    LET j == Behind(m, a) IN
    IF JoinsBefore(m, a) /\ JoinsBehind(m, n, a)
    THEN [slots |-> RemoveAt([m.slots EXCEPT ![j - 1].size = @ + n + m.slots[j].size], j),
          room  |-> m.room + 1]
    ELSE IF JoinsBefore(m, a) THEN [m EXCEPT !.slots[j - 1].size = @ + n]
    ELSE IF JoinsBehind(m, n, a) THEN [m EXCEPT !.slots[j] = Slot(a, n + @.size)]
    ELSE IF Overflows(m, n, a) THEN m
    ELSE [slots |-> InsertAt(m.slots, j, Slot(a, n)), room |-> m.room - 1]

\* ptmalloc: the first address of a slot that is on a boundary, the units
\* before it, the slot that is chosen and the units that remain behind
\* the block.
AlignUp(a) == ((a + npgpt - 1) \div npgpt) * npgpt
Gap(s) == AlignUp(s.addr) - s.addr
PtmallocSlot(m, n) == SelectInSeq(m.slots, LAMBDA s : s.size >= Gap(s) + n)
Rear(s, n) == s.size - n - Gap(s)

\* Mutant: the part behind the block is forgotten.
PtmallocNoTail(m, j, n) ==
    LET s == m.slots[j] IN
    IF Gap(s) = 0 THEN Shorten(m, j, n) ELSE [m EXCEPT !.slots[j].size = Gap(s)]

\* The map after ptmalloc of n units from slot j.
Ptmalloc(m, j, n) ==
    LET s == m.slots[j]
        shrunk == [m EXCEPT !.slots[j].size = Gap(s)]
    IN  IF Gap(s) = 0 THEN Shorten(m, j, n)
        ELSE IF Rear(s, n) = 0 THEN shrunk
        ELSE Rmfree(shrunk, Rear(s, n), AlignUp(s.addr) + n)

\* ptmalloc gives a tail back with mfree and that does not overflow.
TailFreed(m, j, n) ==
    LET s == m.slots[j] IN Gap(s) > 0 /\ Rear(s, n) > 0 /\ m.room > 0

-----------------------------------------------------------------------------
(* The users.                                                              *)

\* Mutant: the first sleeper on the map is woken and no other.
WakeupOne ==
    /\ want' = FALSE
    /\ IF want /\ \E p \in Proc : stat[p] = "asleep"
       THEN stat' = [stat EXCEPT ![CHOOSE p \in Proc : stat[p] = "asleep"] = "run"]
       ELSE UNCHANGED stat

\* "if (mapwant(mp)) { mapwant(mp) = 0; wakeup(mp); }"
Wakeup ==
    /\ want' = FALSE
    /\ stat' = [p \in Proc |-> IF want /\ stat[p] = "asleep" THEN "run" ELSE stat[p]]

\* malloc(sptmap, n) by p, which notes that it wants units and sleeps when it
\* gets none.
Obtain(p, n) ==
    LET j == RmallocSlot(mp, n) IN
    IF j # 0
    THEN /\ mp' = Shorten(mp, j, n) /\ held' = held \cup {<<mp.slots[j].addr, n>>}
         /\ stat' = [stat EXCEPT ![p] = "user"] /\ req' = [req EXCEPT ![p] = 0]
         /\ UNCHANGED want
    ELSE /\ want' = TRUE
         /\ stat' = [stat EXCEPT ![p] = "asleep"] /\ req' = [req EXCEPT ![p] = n]
         /\ UNCHANGED <<mp, held>>

\* bp_mapin: its first pass and, after a wakeup, the next ones.
Mapin(p, n) == stat[p] = "user" /\ Obtain(p, n)
Retry(p)    == stat[p] = "run" /\ Obtain(p, req[p])

\* sptalloc; the block may come back with sptfree when there are no pages.
Sptalloc(n) ==
    LET j == RmallocSlot(mp, n) IN
    /\ j # 0
    /\ mp' = Shorten(mp, j, n) /\ held' = held \cup {<<mp.slots[j].addr, n>>}
    /\ UNCHANGED <<want, stat, req>>

\* kseg of at most a segment.
Kseg(n) ==
    LET j == PtmallocSlot(mp, n) IN
    /\ j # 0
    /\ mp' = Ptmalloc(mp, j, n)
    /\ held' = held \cup {<<AlignUp(mp.slots[j].addr), n>>}
    /\ IF TailFreed(mp, j, n) THEN Wakeup ELSE UNCHANGED <<want, stat>>
    /\ UNCHANGED req

\* kseg that finds availrmem or availsmem too low: ptmalloc, then rmfree.
KsegRefused(n) ==
    LET j == PtmallocSlot(mp, n)
        a == AlignUp(mp.slots[j].addr)
        m == Ptmalloc(mp, j, n)
    IN  /\ j # 0
        /\ mp' = Rmfree(m, n, a)
        /\ IF TailFreed(mp, j, n) \/ ~Overflows(m, n, a)
           THEN Wakeup ELSE UNCHANGED <<want, stat>>
        /\ UNCHANGED <<held, req>>

\* bp_mapout, sptfree and unkseg: rmfree of a block.
Free(b) ==
    /\ b \in held
    /\ held' = held \ {b}
    /\ mp' = Rmfree(mp, b[2], b[1])
    /\ IF Overflows(mp, b[2], b[1]) THEN UNCHANGED <<want, stat>> ELSE Wakeup
    /\ UNCHANGED req

Next ==
    \/ \E p \in Proc : Retry(p) \/ \E n \in Sizes : Mapin(p, n)
    \/ \E n \in Sizes : Sptalloc(n)
    \/ \E n \in SegSizes : Kseg(n) \/ KsegRefused(n)
    \/ \E b \in held : Free(b)

Spec == Init /\ [][Next]_vars
-----------------------------------------------------------------------------
(* Properties.                                                             *)

FreeUnits == UNION {s.addr .. End(s) - 1 : s \in ToSet(mp.slots)}

\* The array is as rmalloc's and rmfree's scans need it (the ASSERTs of
\* malloc.c:124-130): by address, no slot empty, no two that touch; and
\* mapsize counts the slots that are left.
MapWellFormed ==
    /\ Len(mp.slots) + mp.room = mapslots /\ mp.room >= 0
    /\ \A j \in DOMAIN mp.slots :
         /\ mp.slots[j].size > 0
         /\ j > 1 => End(mp.slots[j - 1]) < mp.slots[j].addr

\* What a block's units can be told from: free, out, or neither, that is lost.
Lost == Space
        \ (FreeUnits \cup UNION {b[1] .. (b[1] + b[2] - 1) : b \in held})

\* Units are lost only when the array has no slot left (malloc.c:126), and
\* lost units never come back.
LostOnlyByOverflow ==
    [][/\ Lost \subseteq Lost'
       /\ Lost' # Lost => mp.room = 0]_vars

\* The slots behave like the set of their units: first fit, aligned fit,
\* joining, overflow and the wakeups are those of FreeMap.
Abstract == INSTANCE FreeMap WITH free <- FreeUnits
ImplementsFreeMap == Abstract!Spec
NoSleeperWithFit == Abstract!NoSleeperWithFit
=============================================================================
