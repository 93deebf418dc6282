----------------------------- MODULE MCRecLock -----------------------------
(* Instances of RecLock for TLC.                                            *)
EXTENDS RecLock, TLC

Whole(r) == r.start = 0 /\ r.end = maxend

\* Every lock and unlock there is; a wait to write all and one to read the
\* end of the file; and a read where locks are enforced.
AllLocks ==
    {r \in Request :
        \/ r.cmd = "F_SETLK"
        \/ r.cmd = "F_SETLKW" /\ r.type = F_WRLCK /\ Whole(r)
        \/ r.cmd = "F_SETLKW" /\ r.type = F_RDLCK /\ r.start = maxend
        \/ r.cmd = "chklock" /\ r.type = F_RDLCK /\ Whole(r)}

\* F_SETLKW of every write lock and of the read locks from the start; an
\* unlock that leaves the end (Close leaves nothing).
AllWaits ==
    {r \in Request :
        \/ r.cmd = "F_SETLK" /\ r.type = F_UNLCK /\ r.end = 0
        \/ r.cmd = "F_SETLKW" /\ (r.type = F_WRLCK \/ r.start = 0)}

\* The processes are alike (where none is remote).
Sym == Permutations(Proc)
=============================================================================
