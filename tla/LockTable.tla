----------------------------- MODULE LockTable -----------------------------
(***************************************************************************)
(* What os/flock.c promises of record locks, without its lists: what each  *)
(* owner has locked, byte by byte, who waits, and who is told what.        *)
(* RecLock, with the lists, is shown to implement this module.             *)
(***************************************************************************)
EXTENDS LockSpace

VARIABLES
    lk,    \* lk[p][f][b]: what p has locked of byte b of file f
    stat,  \* what each process does
    req    \* what it waits for

vars == <<lk, stat, req>>

Init ==
    /\ lk = [p \in Proc |-> [f \in File |-> [b \in Bytes |-> F_UNLCK]]]
    /\ stat = [p \in Proc |-> "user"]
    /\ req = [p \in Proc |-> NoRequest]

-----------------------------------------------------------------------------
Clash(t1, t2) == F_WRLCK \in {t1, t2} /\ F_UNLCK \notin {t1, t2}

\* Somebody else has locked, in table m, part of what r asks for.
BlockedIn(m, p, r) ==
    r.type # F_UNLCK /\ \E q \in Proc \ {p}, b \in r.start .. r.end :
        Clash(m[q][r.file][b], r.type)

\* p gets r: the bytes r names change to r's type and no others do.
Overlay(m, p, r) ==
    [m EXCEPT ![p][r.file] = [b \in Bytes |->
        IF b \in r.start .. r.end THEN r.type ELSE m[p][r.file][b]]]

\* There is no memory for a lock: p is left with less of the file.
Loses(p, f) ==
    /\ lk'[p][f] \in [Bytes -> LockType]
    /\ \A b \in Bytes : lk'[p][f][b] \in {lk[p][f][b], F_UNLCK}
    /\ lk' = [lk EXCEPT ![p][f] = lk'[p][f]]

\* Sleepers may be woken at any time, and are when nothing blocks them.
WakesBlocked(st) ==
    /\ stat' \in [Proc -> Stat]
    /\ \A q \in Proc :
         IF st[q] = "asleep"
         THEN \/ stat'[q] = "run"
              \/ stat'[q] = "asleep" /\ BlockedIn(lk', q, req'[q])
         ELSE stat'[q] = st[q]

\* p's call comes back: with the lock; with the table as it was, because r
\* is only a check, or is in the way of others' locks, or a signal came; or
\* for lack of memory.
Return(p, r) ==
    /\ req' = [req EXCEPT ![p] = NoRequest]
    /\ WakesBlocked([stat EXCEPT ![p] = "user"])
    /\ \/ r.cmd # "chklock" /\ lk' = Overlay(lk, p, r) /\ ~BlockedIn(lk, p, r)
       \/ UNCHANGED lk
          /\ (r.cmd = "chklock" \/ stat[p] = "intr" \/ KmemFails \/ BlockedIn(lk, p, r))
       \/ KmemFails /\ r.cmd # "chklock" /\ Loses(p, r.file) /\ ~BlockedIn(lk, p, r)

\* p waits, which it does only for cause.
Wait(p, r) ==
    /\ stat' = [stat EXCEPT ![p] = "asleep"] /\ req' = [req EXCEPT ![p] = r]
    /\ BlockedIn(lk, p, r)
    /\ UNCHANGED lk

Call(p, r) == stat[p] = "user" /\ (Return(p, r) \/ Wait(p, r))
Resume(p)  == stat[p] \in {"run", "intr"} /\ (Return(p, req[p]) \/ Wait(p, req[p]))

\* A signal for p, or a wakeup without cause.
Rouse(p) ==
    /\ \/ stat[p] \in {"asleep", "run"} /\ stat' = [stat EXCEPT ![p] = "intr"]
       \/ stat[p] = "asleep" /\ stat' = [stat EXCEPT ![p] = "run"]
    /\ UNCHANGED <<lk, req>>

\* The processes Q lose all they have locked of file f.
Clean(Q, f) ==
    /\ lk' = [p \in Proc |-> IF p \in Q
                 THEN [lk[p] EXCEPT ![f] = [b \in Bytes |-> F_UNLCK]] ELSE lk[p]]
    /\ WakesBlocked(stat)
    /\ UNCHANGED req

Next ==
    \/ \E p \in Proc : Resume(p) \/ Rouse(p) \/ \E r \in Requests : Call(p, r)
    \/ \E f \in File : Clean(Remote, f) \/ \E p \in Proc : Clean({p}, f)

Spec == Init /\ [][Next]_vars
-----------------------------------------------------------------------------
\* The shape of the table.
TypeOK ==
    /\ lk \in [Proc -> [File -> [Bytes -> LockType]]]
    /\ stat \in [Proc -> Stat]
    /\ req \in [Proc -> Requests \cup {NoRequest}]
    /\ \A p \in Proc : stat[p] # "user" => req[p] \in Requests

\* A byte that one process has locked for writing nobody else has locked at
\* all (blocked, flock.c:335-370), after any sequence of overlapping locks,
\* unlocks and waits.
NoClash ==
    \A p, q \in Proc, f \in File, b \in Bytes :
        p # q => ~Clash(lk[p][f][b], lk[q][f][b])

\* No process sleeps for a lock that nobody's lock stands against.
SleepersBlocked ==
    \A p \in Proc : stat[p] = "asleep" => BlockedIn(lk, p, req[p])
=============================================================================
