------------------------------ MODULE MCStream ------------------------------
(* Instances of Stream for TLC.                                             *)
EXTENDS Stream, TLC

K(pri, band, size) == [pri |-> pri, band |-> band, size |-> size]
C(op, arg, n) == [op |-> op, arg |-> arg, n |-> n]

\* Two bytes of high priority, one in the band, two normal ones.
SomeKinds == {K(TRUE, 0, 1), K(FALSE, 1, 1), K(FALSE, 0, 2)}
SomeCalls == {C("read", "RPROTDAT", 2), C("read", "RPROTNORM", 1), C("getmsg", "MSG_ANY", 1),
              C("poll", "POLLRDNORM", 0)}
SomeMarks == {<<2, 1>>}
Sym == Permutations(Proc) \cup Permutations(Msg)
=============================================================================
