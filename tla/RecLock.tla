------------------------------ MODULE RecLock ------------------------------
(***************************************************************************)
(* Record locks: os/flock.c.  A file's locks are a list, ordered by start; *)
(* the locks that processes sleep for are on another list, sleeplcks, with *)
(* the owner of the lock that was found in the way.                        *)
(*                                                                         *)
(* The kernel is not preempted and reclock sleeps only where it waits for  *)
(* a lock: each action runs from a call or a wakeup to a return or a sleep.*)
(* Calls that fail without touching a list (EAGAIN, EINVAL) and those that *)
(* only report (F_GETLK) are not actions.                                  *)
(***************************************************************************)
EXTENDS LockSpace, FiniteSets, Sequences, SequencesExt

VARIABLES
    locks,  \* v_filocks: each file's list
    stat,   \* what each process does
    req,    \* the lock it sleeps for: its entry of sleeplcks
    on      \* and blk and the sleep channel of that entry: the lock found

vars == <<locks, stat, req, on>>

\* A lock is known by its owner and start: an owner's locks never overlap
\* and no lock's start is changed in place.
Key(f) == [own |-> f.own, start |-> f.start]
NoKey  == [own |-> "none", start |-> 0]

Init ==
    /\ locks = [f \in File |-> <<>>]
    /\ stat = [p \in Proc |-> "user"]
    /\ req = [p \in Proc |-> NoRequest]
    /\ on = [p \in Proc |-> NoKey]

-----------------------------------------------------------------------------
(* Lists of locks.                                                         *)

Lock(p, r, first, last) == [own |-> p, type |-> r.type, start |-> first, end |-> last,
                            wakeflg |-> FALSE]

\* The place of the lock k in a list, 0 for NULL; its predecessor.
Place(list, k) == SelectInSeq(list, LAMBDA f : Key(f) = k)
PrevOf(list, k) == IF Place(list, k) <= 1 THEN NoKey ELSE Key(list[Place(list, k) - 1])

\* Mutant: a lock at its own place in the list is put at the head.
InsertFromHead(list, k, new) == <<new>> \o list

\* insflck behind the last lock of those from k on that start before new
\* does, or behind k itself; at the head of the list where k is NULL.
InsertFrom(list, k, new) ==
    LET i0 == Place(list, k)
        ok == {i \in i0 .. Len(list) :
                 \A j \in i0 + 1 .. i : list[j].start < new.start}
    IN  InsertAt(list, (IF k = NoKey THEN 0 ELSE CHOOSE i \in ok : \A j \in ok : j <= i) + 1, new)

\* Mutant: off by one at the end of the lock.
ConflictsShort(f, p, r) ==
    /\ f.own # p /\ f.end > r.start /\ f.start <= r.end
    /\ f.type = F_WRLCK \/ r.type = F_WRLCK

\* Somebody else's lock f stands in the way of r.
Conflicts(f, p, r) ==
    /\ f.own # p /\ f.end >= r.start /\ f.start <= r.end
    /\ f.type = F_WRLCK \/ r.type = F_WRLCK

\* blocked: the first lock of the list in the way of r, 0 if there is none,
\* and the lock where the list has to be changed from: the own lock that r
\* overlaps or adjoins at its start, else the last lock that starts before r.
Blocked(list, p, r) == SelectInSeq(list, LAMBDA f : Conflicts(f, p, r))
Insrt(list, p, r) ==
    LET own  == SelectInSeq(list, LAMBDA f :
                    f.own = p /\ f.start < r.start /\ r.start - 1 <= f.end)
        less == SelectLastInSeq(list, LAMBDA f : f.start < r.start)
    IN  IF own # 0 THEN Key(list[own])
        ELSE IF less # 0 THEN Key(list[less]) ELSE NoKey

-----------------------------------------------------------------------------
(* flckadj.  Its state: the list, the (un)lock ld, insrtp, whether to go   *)
(* on, the locks whose sleepers have been woken, how many more locks can   *)
(* be allocated, and whether it has returned.                              *)

Walk(list, ld, k, mem) == [list |-> list, ld |-> ld, ins |-> k, go |-> TRUE,
                           woken |-> {}, mem |-> mem, done |-> FALSE]

\* WAKEUP(f)
Wakes(a, f) == IF f.wakeflg THEN a.woken \cup {Key(f)} ELSE a.woken

\* delflck
Delete(a, f) == [a EXCEPT !.list = RemoveAt(@, Place(@, Key(f))), !.woken = Wakes(a, f)]

\* An own lock of the same type that ld overlaps or adjoins: it is deleted
\* and ld grows, unless it covers ld and nothing is left to do.
Coalesce(a, f) ==
    LET ld == a.ld IN
    IF f.start <= ld.start /\ ld.end <= f.end
    THEN [a EXCEPT !.go = FALSE, !.done = TRUE]
    ELSE [Delete(a, f) EXCEPT
             !.ld.start = IF f.start < @ THEN f.start ELSE @,
             !.ld.end   = IF f.end > @ THEN f.end ELSE @,
             !.ins = IF f.start <= ld.start THEN PrevOf(a.list, Key(f)) ELSE @,
             !.go  = ld.end > f.end]

\* Mutants: a lock that starts where ld does keeps an empty part; the part
\* of the lock behind ld is forgotten.
OverlayEmptyFront(a, f) ==
    LET ld == a.ld IN
    IF ld.start >= f.start
    THEN [a EXCEPT !.list[Place(a.list, Key(f))] =
                       [f EXCEPT !.end = ld.start - 1, !.wakeflg = FALSE],
                   !.woken = Wakes(a, f), !.ins = Key(f)]
    ELSE Delete(a, f)
OverlayNoRear(a, f) ==
    LET ld == a.ld IN
    IF ld.start > f.start
    THEN [a EXCEPT !.list[Place(a.list, Key(f))] =
                       [f EXCEPT !.end = ld.start - 1, !.wakeflg = FALSE],
                   !.woken = Wakes(a, f), !.ins = Key(f)]
    ELSE [Delete(a, f) EXCEPT
             !.ins = IF f.start = ld.start THEN PrevOf(a.list, Key(f)) ELSE @]

\* An own lock of another type that ld overlaps: what lies behind ld becomes
\* a lock of its own, then what lies before ld is left of the lock.
Overlay(a, f) ==
    LET ld == a.ld
        rear == ld.end < f.end
        piece == [f EXCEPT !.start = ld.end + 1, !.wakeflg = FALSE]
        b == IF rear THEN [a EXCEPT !.list = InsertFrom(@, Key(f), piece),
                                    !.mem = @ - 1, !.go = FALSE]
                     ELSE a
    IN  IF rear /\ a.mem = 0 THEN [a EXCEPT !.go = FALSE, !.done = TRUE]
        ELSE IF ld.start > f.start
        THEN [b EXCEPT !.list[Place(b.list, Key(f))] =
                           [f EXCEPT !.end = ld.start - 1, !.wakeflg = FALSE],
                       !.woken = Wakes(b, f), !.ins = Key(f)]
        ELSE [Delete(b, f) EXCEPT
                 !.ins = IF f.start = ld.start THEN PrevOf(a.list, Key(f)) ELSE @]

\* regflck and the switch of flckadj on one own lock f.
Visit(a, f) ==
    LET ld == a.ld IN
    IF ~a.go THEN a
    ELSE IF ld.end < f.start - 1 THEN [a EXCEPT !.go = FALSE]
    ELSE IF ld.start > f.end + 1 THEN [a EXCEPT !.ins = Key(f)]
    ELSE IF ld.type = f.type THEN Coalesce(a, f)
    ELSE IF ld.end = f.start - 1 THEN [a EXCEPT !.go = FALSE]
    ELSE IF ld.start = f.end + 1 THEN a
    ELSE Overlay(a, f)

\* flckadj's loop over p's locks from place i of the list on: the state of the
\* walk after each of them.
Walks(list, i, p, start) ==
    LET w[n \in i - 1 .. Len(list)] ==
          IF n = i - 1 THEN start
          ELSE IF list[n].own = p THEN Visit(w[n - 1], list[n]) ELSE w[n - 1]
    IN  w

\* flckadj from the lock k on: the list and the locks whose sleepers it wakes.
Flckadj(list, k, p, ld, mem) ==
    LET from == IF k = NoKey THEN 1 ELSE Place(list, k)
        w    == Walks(list, from, p, Walk(list, ld, k, mem))[Len(list)]
    IN  [woken |-> w.woken,
         list  |-> IF w.done \/ ld.type = F_UNLCK \/ w.mem = 0 THEN w.list
                   ELSE InsertFrom(w.list, w.ins, Lock(p, ld, w.ld.start, w.ld.end))]

-----------------------------------------------------------------------------
(* reclock, chklock and cleanlocks.                                        *)

\* The sleepers once those on the locks ks of file f have been woken.
Woken(f, ks) == [q \in Proc |->
    IF stat[q] = "asleep" /\ req[q].file = f /\ on[q] \in ks THEN "run" ELSE stat[q]]

\* The owners that sleeplcks names, without p's entry.
Sleeping(p) == {q \in Proc \ {p} : stat[q] # "user"}

\* Mutant: only the owner of the lock that was found is looked at.
DeadflckOneStep(p, own) == own = p \/ (own \in Sleeping(p) /\ on[own].own = p)

\* deadflck: from the owner of the lock that was found, by way of the owners
\* whose locks sleeping owners found, to p.
Blocker(p, q) == IF q \in Sleeping(p) THEN on[q].own ELSE q
Chain(p, own) ==
    LET c[n \in 0 .. Cardinality(Proc)] == IF n = 0 THEN own ELSE Blocker(p, c[n - 1])
    IN  c
Deadflck(p, own) == \E n \in 0 .. Cardinality(Proc) : Chain(p, own)[n] = p

\* The call of p is over, with st what the others do.
Returns(p, st) ==
    /\ stat' = [st EXCEPT ![p] = "user"]
    /\ req' = [req EXCEPT ![p] = NoRequest] /\ on' = [on EXCEPT ![p] = NoKey]

\* Nothing is in the way of r (or it is an unlock) and the list is adjusted.
Set(p, r) ==
    LET list == locks[r.file]
        k == IF r.type # F_UNLCK THEN Insrt(list, p, r)
             ELSE IF list = <<>> THEN NoKey ELSE Key(Head(list))
        mems == IF KmemFails THEN 0 .. 2 ELSE {2}
    IN  \E w \in {Flckadj(list, k, p, r, mem) : mem \in mems} :
          /\ locks' = [locks EXCEPT ![r.file] = w.list]
          /\ Returns(p, Woken(r.file, w.woken))

\* Mutant: the lock in the way is not marked.
MarkForgotten(r, i) == UNCHANGED locks

\* "found->stat.wakeflg++"
Mark(r, i) == locks' = [locks EXCEPT ![r.file][i].wakeflg = TRUE]

\* One pass of reclock's loop for a (read or write) lock that p waits for.
Pass(p, r) ==
    LET i == Blocked(locks[r.file], p, r)
        found == locks[r.file][i]
    IN  \/ /\ i = 0 /\ r.cmd # "chklock"
           /\ Set(p, r)
        \/ /\ i = 0 /\ r.cmd = "chklock"    \* nothing is set
           /\ Returns(p, stat) /\ UNCHANGED locks
        \/ /\ i # 0                        \* EDEADLK, or ENOLCK
           /\ Deadflck(p, found.own) \/ KmemFails
           /\ Returns(p, stat) /\ UNCHANGED locks
        \/ /\ i # 0 /\ ~Deadflck(p, found.own)
           /\ Mark(r, i)
           /\ stat' = [stat EXCEPT ![p] = "asleep"]
           /\ req' = [req EXCEPT ![p] = r] /\ on' = [on EXCEPT ![p] = Key(found)]
        \/ /\ i # 0 /\ ~Deadflck(p, found.own)
           /\ Mark(r, i)                   \* a signal is pending: EINTR
           /\ Returns(p, stat)

\* F_SETLK of a lock; it fails with EAGAIN where something is in the way.
SetLk(p, r) ==
    /\ stat[p] = "user" /\ r.cmd = "F_SETLK" /\ r.type # F_UNLCK
    /\ Blocked(locks[r.file], p, r) = 0
    /\ Set(p, r)

Unlock(p, r) == stat[p] = "user" /\ r.type = F_UNLCK /\ Set(p, r)

\* F_SETLKW, or the check of a read or write where locks are enforced.
SetLkw(p, r) == stat[p] = "user" /\ r.cmd # "F_SETLK" /\ Pass(p, r)

\* sleep returns 0: another pass.
Again(p) == stat[p] = "run" /\ Pass(p, req[p])

\* sleep returns 1: EINTR.
Interrupted(p) == stat[p] = "intr" /\ Returns(p, stat) /\ UNCHANGED locks

\* A signal for a process that sleeps, or has been woken and not run yet.
Signal(p) ==
    /\ stat[p] \in {"asleep", "run"}
    /\ stat' = [stat EXCEPT ![p] = "intr"]
    /\ UNCHANGED <<locks, req, on>>

\* A job-control stop and its SIGCONT: sleep returns 0.
StopCont(p) ==
    /\ stat[p] = "asleep"
    /\ stat' = [stat EXCEPT ![p] = "run"]
    /\ UNCHANGED <<locks, req, on>>

\* The list without the locks of the owners Q.
Without(list, Q) ==
    LET rest[n \in 0 .. Len(list)] ==
          IF n = 0 THEN <<>>
          ELSE IF list[n].own \in Q THEN rest[n - 1] ELSE Append(rest[n - 1], list[n])
    IN  rest[Len(list)]

\* Mutant: the sleepers on the locks that go are forgotten.
CleanlocksSilently(Q, f) ==
    /\ locks' = [locks EXCEPT ![f] = Without(@, Q)]
    /\ UNCHANGED <<stat, req, on>>

\* cleanlocks of file f for the owners Q.
Cleanlocks(Q, f) ==
    /\ locks' = [locks EXCEPT ![f] = Without(@, Q)]
    /\ stat' = Woken(f, {Key(l) : l \in {m \in ToSet(locks[f]) : m.own \in Q /\ m.wakeflg}})
    /\ UNCHANGED <<req, on>>

\* The file is closed by p, at exit too: all p's locks on it go, whatever
\* descriptor they were set by.
Close(p, f) ==
    /\ stat[p] = "user" /\ \E l \in ToSet(locks[f]) : l.own = p
    /\ Cleanlocks({p}, f)

\* The system that the remote owners act for is gone (rf_admin.c).
SystemGone(f) ==
    /\ \E l \in ToSet(locks[f]) : l.own \in Remote
    /\ Cleanlocks(Remote, f)

Next ==
    \/ \E p \in Proc, r \in Requests : SetLk(p, r) \/ Unlock(p, r) \/ SetLkw(p, r)
    \/ \E p \in Proc : Again(p) \/ Interrupted(p) \/ Signal(p) \/ StopCont(p)
    \/ \E p \in Proc, f \in File : Close(p, f)
    \/ \E f \in File : SystemGone(f)

\* A process that is off the sleep queue is run sooner or later (disp/ts.c
\* ages those that wait): Again or Interrupted, seen from stat.
Runs(p) ==
    /\ stat[p] \in {"run", "intr"}
    /\ stat' \in [Proc -> Stat] /\ stat'[p] \notin {"run", "intr"}
Fairness == \A p \in Proc : WF_stat(Runs(p))

Spec == Init /\ [][Next]_vars
FairSpec == Spec /\ Fairness
-----------------------------------------------------------------------------
(* Properties.                                                             *)

\* The shape of the variables.
LockRecord == [own : Proc, type : {F_RDLCK, F_WRLCK}, start : Bytes, end : Bytes,
               wakeflg : BOOLEAN]
TypeOK ==
    /\ locks \in [File -> Seq(LockRecord)]
    /\ stat \in [Proc -> Stat]
    /\ req \in [Proc -> Requests \cup {NoRequest}]
    /\ on \in [Proc -> [own : Proc, start : Bytes] \cup {NoKey}]

\* "All record lock lists are ordered by starting position" (flock.c:14),
\* which blocked and flckadj rely on when they stop half-way; the locks of
\* one owner do not overlap, nor adjoin where their types are the same.
ListsOrdered ==
    \A f \in File : \A i, j \in DOMAIN locks[f] : i < j =>
        LET x == locks[f][i]
            y == locks[f][j]
        IN  /\ x.start <= y.start
            /\ x.own = y.own => x.end < y.start - (IF x.type = y.type THEN 1 ELSE 0)

\* No wakeup is lost: what a process sleeps on is a lock of the list that
\* still stands in its way and is marked, so that its deletion or shortening
\* wakes it (flock.c:48, 416).
FoundStands ==
    \A p \in Proc : stat[p] = "asleep" =>
        LET i == Place(locks[req[p].file], on[p])
        IN  /\ i # 0
            /\ locks[req[p].file][i].wakeflg
            /\ Conflicts(locks[req[p].file][i], p, req[p])

\* Deadlock detection sees every deadlock, although it looks at one lock in
\* the way of each sleeper and is not asked again when locks change hands: a
\* sleeper waits, directly or by way of other sleepers, for a process that is
\* not asleep.  deadflck's loop ends for the same reason (flock.c:538-569).
WaitersEnd ==
    \A p \in Proc : stat[p] = "asleep" =>
        \E n \in 0 .. Cardinality(Proc) : stat[Chain("none", on[p].own)[n]] # "asleep"

\* The lists mean what LockTable says: a call changes exactly the bytes it
\* names, of its owner only, and wakes whoever is no longer blocked.
Covering(p, f, b) == {l \in Range(locks[f]) : l.own = p /\ l.start <= b /\ b <= l.end}
Locked == [p \in Proc |-> [f \in File |-> [b \in Bytes |->
    IF Covering(p, f, b) = {} THEN F_UNLCK
    ELSE (CHOOSE l \in Covering(p, f, b) : TRUE).type]]]
Table == INSTANCE LockTable WITH lk <- Locked
ImplementsLockTable == Table!Spec

\* A byte that one owner has locked for writing nobody else has locked at all,
\* after any sequence of overlapping locks, unlocks and waits, and after any
\* ENOLCK half-way (blocked, flock.c:335-370).
NoClash == Table!NoClash

\* A process that waits for a lock returns, unless others keep standing in
\* its way.
WaiterReturns ==
    \A p \in Proc :
        \/ []<>(stat[p] = "user")
        \/ []<>(stat[p] # "user" /\ Blocked(locks[req[p].file], p, req[p]) # 0)
=============================================================================
