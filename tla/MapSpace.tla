------------------------------ MODULE MapSpace ------------------------------
(* The map of system virtual space and what is asked of it: the constants   *)
(* that FreeMap and Rmap share.                                             *)
EXTENDS CoreMap

CONSTANTS
    Proc,      \* processes that map buffers
    first,     \* the first unit of the space and
    last,      \* its last
    mapslots,  \* slots of the map array (v.v_sptmap - 2)
    npgpt,     \* NPGPT, the size and alignment of a kernel segment
    Sizes      \* the sizes that are asked for

Space == first .. last
SegSizes == {n \in Sizes : n <= npgpt}

ASSUME MapAssumption ==
    /\ first \in Nat \ {0} /\ last \in Nat /\ first <= last
    /\ mapslots \in Nat \ {0} /\ npgpt \in Nat \ {0} /\ Sizes \subseteq Nat \ {0}
=============================================================================
