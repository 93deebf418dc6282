----------------------------- MODULE LockSpace -----------------------------
(* Files, owners and requests: what LockTable and RecLock share.            *)
EXTENDS Integers, FiniteSets

CONSTANTS
    Proc,    \* the owners of locks: l_pid and l_sysid
    Remote,  \* those of them that act for another system
    File,    \* the files with a lock list
    maxend,  \* MAXEND, the last byte a lock can cover
    Requests, \* what is asked for
    KmemFails \* kmem_zalloc(KM_NOSLEEP) may return NULL

Bytes == 0 .. maxend

F_RDLCK == "F_RDLCK"
F_WRLCK == "F_WRLCK"
F_UNLCK == "F_UNLCK"
LockType == {F_RDLCK, F_WRLCK, F_UNLCK}

\* The command and the struct flock, start and end converted by reclock to
\* count from the beginning of the file: F_SETLK fails where a lock stands in
\* the way, F_SETLKW waits, and so does chklock, the check before a read or
\* write of a file whose locks are enforced, which sets nothing.
Request ==
    {r \in [cmd : {"F_SETLK", "F_SETLKW", "chklock"}, file : File, type : LockType,
            start : Bytes, end : Bytes] :
        r.start <= r.end /\ (r.type = F_UNLCK => r.cmd = "F_SETLK")}
NoRequest == [type |-> "none"]

ASSUME LockAssumption ==
    /\ maxend \in Nat /\ Remote \subseteq Proc /\ Requests \subseteq Request
    /\ KmemFails \in BOOLEAN
    /\ IsFiniteSet(Proc) /\ "none" \notin Proc

\* What a process does: runs in user mode; sleeps in reclock; is off the
\* sleep queue because it was woken; or because it has a signal.
Stat == {"user", "asleep", "run", "intr"}
=============================================================================
