------------------------------ MODULE CoreMap ------------------------------
(***************************************************************************)
(* What os/malloc.c promises of a resource map, as operators on the set m  *)
(* of the units that are free.  A map slot is a maximal run of free units. *)
(* Sem (semmap) uses these operators; Rmap models the slots themselves and *)
(* is shown to implement them.                                             *)
(***************************************************************************)
EXTENDS Integers, FiniteSets

\* The n units from a on.
Units(a, n) == a .. (a + n - 1)

\* The first unit of every run: one per used slot of the map array.
Starts(m) == {a \in m : a - 1 \notin m}

\* The addresses at which n contiguous units are free.
Fits(m, n) == {a \in m : Units(a, n) \subseteq m}

\* rmalloc: a is the address first-fit chooses, the low end of the lowest
\* run that is long enough.
FirstFit(m, n, a) == a \in Fits(m, n) /\ \A b \in Fits(m, n) : a <= b

\* rmfree: the n units from a on join the map, unless they would need one
\* run more than the array's cap slots; they are then lost ("rmfree map
\* overflow").
Release(m, n, a, cap) ==
    LET joined == m \cup Units(a, n)
    IN  IF Cardinality(Starts(joined)) > cap THEN m ELSE joined
=============================================================================
