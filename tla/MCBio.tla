------------------------------- MODULE MCBio -------------------------------
(* Instances of Bio for TLC.                                                *)
EXTENDS Bio, TLC
CONSTANTS k1, k2

C(op, blk, ra, end) == [op |-> op, blk |-> blk, ra |-> ra, end |-> end]

\* The block k2 is larger than a page.
Sizes == k1 :> 1 @@ k2 :> 2
AllCalls ==
    {C("bread", k1, None, "bwrite"), C("bread", k2, None, "bdwrite"), C("breada", k1, k2, "brelse"),
     C("getblk", k1, None, "bawrite"),
     C("ngeteblk", None, None, "brelse"), C("blkflush", k2, None, "brelse"),
     C("sync", None, None, "brelse"), C("close", None, None, "brelse")}
Sym == Permutations(Proc) \cup Permutations(Buf)
=============================================================================
