------------------------------- MODULE MCRmap -------------------------------
(* Instances of Rmap for TLC.                                               *)
EXTENDS Rmap, TLC

\* The processes are alike.
Sym == Permutations(Proc)
=============================================================================
