------------------------------- MODULE MCMsg -------------------------------
(* Instances of Msg for TLC.                                                *)
EXTENDS Msg, TLC

C(cmd, type, size, nowait) == [cmd |-> cmd, type |-> type, size |-> size, nowait |-> nowait]

\* Texts of 0, 1 and 3 bytes fill no, one and two segments: four bytes of a
\* queue, two headers and three segments all run out.
AllCalls == {C("snd", 1, 3, FALSE), C("snd", 2, 1, FALSE), C("snd", 2, 0, TRUE),
             C("rcv", 0, 4, FALSE), C("rcv", -2, 1, FALSE), C("rcv", 2, 4, TRUE),
             C("rmid", 0, 0, FALSE), C("set", 0, 2, FALSE), C("set", 0, 4, FALSE)}

SomeSelects == {0, 2, -2}
Sym == Permutations(Proc)
=============================================================================
