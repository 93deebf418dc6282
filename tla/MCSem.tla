------------------------------- MODULE MCSem -------------------------------
(* Instances of Sem for TLC: the operation lists and value arrays that      *)
(* processes pass.                                                          *)
EXTENDS Sem, TLC

Op(num, op, flags) == [num |-> num, op |-> op,
                       undo |-> "SEM_UNDO" \in flags,
                       nowait |-> "IPC_NOWAIT" \in flags]
U == {"SEM_UNDO"}

\* On one semaphore: P that exit gives back, V, and "wait until it is zero,
\* then raise it".
OneSemLists ==
    { <<Op(0, -1, U)>>, <<Op(0, 1, {})>>, <<Op(0, 0, {}), Op(0, 1, {})>> }

\* On two semaphores: two resources at once, without waiting and with; an
\* undo entry removed and another one made before the list has to wait.
TwoSemLists ==
    { <<Op(0, -1, U), Op(1, -1, {"IPC_NOWAIT"})>>,
      <<Op(0, 1, U), Op(1, -1, {})>>,
      <<Op(0, -1, U), Op(0, 1, U), Op(1, 1, U), Op(1, -2, {})>> }

\* A list that takes a unit and then wants none to be left, and V.
NegZeroLists == { <<Op(0, -1, {}), Op(0, 0, {})>>, <<Op(0, 1, {})>> }

\* SETALL to all zeros or all ones.
ZeroOne == {[n \in Nums |-> 0], [n \in Nums |-> 1]}

\* The processes are alike (not used where a liveness property is checked).
Sym == Permutations(Proc)
=============================================================================
