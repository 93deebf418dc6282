-------------------------------- MODULE Msg --------------------------------
(***************************************************************************)
(* System V messages: os/msg.c with ipcget of os/ipc.c and the msgmap of   *)
(* os/malloc.c (CoreMap).                                                  *)
(*                                                                         *)
(* Unlike semaphores, a queue has a lock: it is held while copyin or       *)
(* copyout waits for a page, and only then seen by others.  An action runs *)
(* from a call, a wakeup or a page's arrival to a return, a sleep or the   *)
(* next wait for a page.  Each such run ends with the lock free, except    *)
(* when it waits for a page or for the lock.                               *)
(***************************************************************************)
EXTENDS MsgSpace, SequencesExt

CONSTANTS
    Proc,
    msgtql,    \* # of system message headers
    msgssz,    \* msg segment size
    msgseg,    \* # of msg segments
    mapslots,  \* slots of msgmap (msginfo.msgmap - 2)
    Calls      \* the calls that processes make

VARIABLES
    que,   \* msgque[]: the queue headers
    lock,  \* msglock[]
    pool,  \* headers on the free list, free segments, mapwant(msgmap)
    stat,  \* what each process does
    call   \* its call: the arguments, where it is, what it sleeps on

vars == <<que, lock, pool, stat, call>>

\* A call: msgsnd of size bytes, msgrcv of at most size bytes, of any number
\* with MSG_NOERROR, IPC_RMID, or IPC_SET of the limit size.  "type" is that
\* of the message sent, or msgtyp.
Call == [cmd : {"snd", "rcv", "rmid", "set"}, type : Int, size : Nat, nowait : BOOLEAN]

\* A sleep channel: a queue's lock, &msg_qnum, or the queue; &msgfp; msgmap.
Chan == ({"lock", "qnum", "que"} \X Slots) \cup {<<"msgfp", 0>>, <<"msgmap", 0>>}

\* The call p is in: "at" tells what comes next, ref is the message that is
\* copied out or the segment that is copied into.
Idle == [cmd |-> "none", type |-> 0, size |-> 0, nowait |-> FALSE, id |-> <<0, 0>>,
         at |-> "start", chan |-> <<"msgfp", 0>>, ref |-> 0]
Enter(r, id) == [Idle EXCEPT !.cmd = r.cmd, !.type = r.type, !.size = r.size,
                             !.nowait = r.nowait, !.id = id]

ASSUME MsgAssumption ==
    /\ msgtql \in Nat \ {0} /\ msgssz \in Nat \ {0} /\ msgseg \in Nat \ {0}
    /\ mapslots \in Nat \ {0} /\ Calls \subseteq Call
    /\ \A r \in Calls :
         /\ r.cmd = "snd" => r.type \in MsgTypes /\ r.size \in MsgSizes
         /\ r.cmd = "rcv" => r.type \in Selects
         /\ r.cmd = "set" => r.size \in Limits

\* msginit
Init ==
    /\ que = [s \in Slots |-> [alloc |-> FALSE, seq |-> 0, list |-> <<>>, qnum |-> 0,
                               cbytes |-> 0, qbytes |-> 0, rwait |-> FALSE, wwait |-> FALSE]]
    /\ lock = [s \in Slots |-> FALSE]
    /\ pool = [fp |-> msgtql, map |-> 1 .. msgseg, want |-> FALSE]
    /\ stat = [p \in Proc |-> "user"]
    /\ call = [p \in Proc |-> Idle]

-----------------------------------------------------------------------------
(* Helpers.                                                                *)

Btoq(n) == (n + msgssz - 1) \div msgssz

\* msgconv: the id names a queue.
Msgconv(id) == que[id[1]].alloc /\ que[id[1]].seq = id[2]

Woken(C) == [p \in Proc |-> IF stat[p] = "asleep" /\ call[p].chan \in C THEN "run" ELSE stat[p]]

\* A header goes back to the free list.
Putback(w) == [w EXCEPT !.fp = @ + 1,
                        !.chans = @ \cup (IF w.fp = 0 THEN {<<"msgfp", 0>>} ELSE {})]

\* The text of n bytes at segment a goes back to the map (mutant: one
\* segment further on).
RmfreeOffByOne(w, n, a) ==
    LET map == IF n = 0 THEN w.map ELSE Release(w.map, Btoq(n), a + 1, mapslots)
    IN  [w EXCEPT !.map = map]
Rmfree(w, n, a) ==
    LET map == IF n = 0 THEN w.map ELSE Release(w.map, Btoq(n), a, mapslots)
    IN  IF map = w.map THEN w
        ELSE [w EXCEPT !.map = map, !.want = FALSE,
                       !.chans = @ \cup (IF w.want THEN {<<"msgmap", 0>>} ELSE {})]

\* msgfree of a message, but for the queue: w holds the resources and the
\* channels to wake.
Msgfree(w, m) == Putback(Rmfree(w, m.ts, m.spot))
Resources == [fp |-> pool.fp, map |-> pool.map, want |-> pool.want, chans |-> {}]
Pool(w) == [fp |-> w.fp, map |-> w.map, want |-> w.want]

\* Mutant: the last message of the lowest type.
FindmsgLast(list, t) ==
    LET kept == {i \in DOMAIN list : /\ list[i].type <= -t
                                     /\ \A j \in 1 .. i - 1 : list[j].type >= list[i].type}
    IN  IF t = 0 THEN IF list = <<>> THEN 0 ELSE 1
        ELSE IF t > 0 THEN SelectInSeq(list, LAMBDA m : m.type = t)
        ELSE IF kept = {} THEN 0 ELSE Max(kept)

\* The message msgrcv with msgtyp t takes, 0 if there is none.  For t < 0
\* the scan keeps a message whose type is lower than that of all it has met,
\* and the last it kept is taken.
Findmsg(list, t) ==
    LET kept == {i \in DOMAIN list :
                    /\ list[i].type <= -t
                    /\ \A j \in 1 .. i - 1 : list[j].type > list[i].type}
    IN  IF t = 0 THEN IF list = <<>> THEN 0 ELSE 1
        ELSE IF t > 0 THEN SelectInSeq(list, LAMBDA m : m.type = t)
        ELSE IF kept = {} THEN 0 ELSE Max(kept)

-----------------------------------------------------------------------------
(* How a run of p in call c ends.                                          *)

\* "*lockp = 0; wakeup(lockp)"
Unlock(s) == lock' = [lock EXCEPT ![s] = FALSE]

\* p returns, after waking the channels C.
Out(p, c, C) ==
    /\ Unlock(c.id[1])
    /\ stat' = [Woken(C \cup {<<"lock", c.id[1]>>}) EXCEPT ![p] = "user"]
    /\ call' = [call EXCEPT ![p] = Idle]

\* p sleeps on ch and looks for everything again from "at" on.
Wait(p, c, at, ch, C) ==
    /\ Unlock(c.id[1])
    /\ stat' = [Woken(C \cup {<<"lock", c.id[1]>>}) EXCEPT ![p] = "asleep"]
    /\ call' = [call EXCEPT ![p] = [c EXCEPT !.at = at, !.chan = ch]]

\* It does not find what it needs.
OutOrWait(p, c, ch, C) ==
    IF c.nowait THEN Out(p, c, C) ELSE Wait(p, c, "again", ch, C)

\* copyin or copyout waits for a page, with the queue locked.  msgsnd and
\* msgrcv have released the lock, woken its sleepers and taken it again.
Fault(p, c, at, ref) ==
    /\ lock' = [lock EXCEPT ![c.id[1]] = TRUE]
    /\ stat' = [Woken({<<"lock", c.id[1]>>}) EXCEPT ![p] = "fault"]
    /\ call' = [call EXCEPT ![p] = [c EXCEPT !.at = at, !.ref = ref]]

-----------------------------------------------------------------------------
(* msgsnd.                                                                 *)

\* The message, with its text at segment a, goes on the queue; w is what is
\* left of the resources.
Enqueue(p, c, a, w) ==
    LET s == c.id[1] IN
    /\ que' = [que EXCEPT
          ![s].list = Append(@, [type |-> c.type, ts |-> c.size, spot |-> a]),
          ![s].qnum = @ + 1, ![s].cbytes = @ + c.size, ![s].rwait = FALSE]
    /\ pool' = w
    /\ Out(p, c, IF que[s].rwait THEN {<<"qnum", s>>} ELSE {})

\* EFAULT: text and header go back (mutant: the header only).
TextFaultsKeepSpace(p, c, w) ==
    /\ pool' = Pool(Putback(w)) /\ Out(p, c, Putback(w).chans)
    /\ UNCHANGED que
TextFaults(p, c, w) ==
    LET v == Msgfree(w, [ts |-> c.size, spot |-> c.ref]) IN
    /\ pool' = Pool(v) /\ Out(p, c, v.chans)
    /\ UNCHANGED que

\* Queue, header and space are there: the text is copied in.
Copyin(p, c, a, w) ==
    \/ Fault(p, c, "text", a) /\ pool' = Pool(w) /\ UNCHANGED que
    \/ Enqueue(p, c, a, Pool(w))
    \/ TextFaults(p, [c EXCEPT !.ref = a], w)

\* From getres on: space on q, message header and buffer space, in this order.
Getres(p, c) ==
    LET s == c.id[1]
        full == c.size + que[s].cbytes > que[s].qbytes
        taken == [Resources EXCEPT !.fp = @ - 1]
        fits == {a \in pool.map : FirstFit(pool.map, Btoq(c.size), a)}
    IN  \/ /\ full
           /\ que' = [que EXCEPT ![s].wwait = @ \/ ~c.nowait]
           /\ OutOrWait(p, c, <<"que", s>>, {}) /\ UNCHANGED pool
        \/ /\ ~full /\ pool.fp = 0
           /\ OutOrWait(p, c, <<"msgfp", 0>>, {}) /\ UNCHANGED <<que, pool>>
        \/ /\ ~full /\ pool.fp > 0 /\ c.size = 0
           /\ Enqueue(p, c, 0, Pool(taken))
        \/ /\ ~full /\ pool.fp > 0 /\ c.size > 0 /\ fits = {}
           /\ pool' = [pool EXCEPT !.want = @ \/ ~c.nowait]
           /\ OutOrWait(p, c, <<"msgmap", 0>>, Putback(taken).chans) /\ UNCHANGED que
        \/ /\ ~full /\ pool.fp > 0 /\ c.size > 0
           /\ \E a \in fits :
                Copyin(p, c, a, [taken EXCEPT !.map = @ \ Units(a, Btoq(c.size))])

\* msgsnd with its lock: copyin of the type comes first, and may fail.
Msgsnd(p, c) ==
    \/ c.at = "start" /\ (Fault(p, c, "type", 0) \/ Out(p, c, {})) /\ UNCHANGED <<que, pool>>
    \/ Getres(p, c)

\* A signal came while msgsnd slept (mutant: the writers are not woken).
EintrSilent(p, c) ==
    /\ que' = [que EXCEPT ![c.id[1]].wwait = FALSE]
    /\ Out(p, c, {}) /\ UNCHANGED pool
Eintr(p, c) ==
    IF c.at = "eintr_que"
    THEN /\ que' = [que EXCEPT ![c.id[1]].wwait = FALSE]
         /\ Out(p, c, {<<"que", c.id[1]>>}) /\ UNCHANGED pool
    ELSE Out(p, c, {}) /\ UNCHANGED <<que, pool>>

-----------------------------------------------------------------------------
(* msgrcv and msgctl.                                                      *)

\* The i-th message has been copied out.
Take(p, c, i) ==
    LET s == c.id[1]
        m == que[s].list[i]
        w == Msgfree(Resources, m)
    IN  /\ que' = [que EXCEPT ![s].list = RemoveAt(@, i), ![s].qnum = @ - 1,
                              ![s].cbytes = @ - m.ts, ![s].wwait = FALSE]
        /\ pool' = Pool(w)
        /\ Out(p, c, w.chans \cup (IF que[s].wwait THEN {<<"que", s>>} ELSE {}))

Msgrcv(p, c) ==
    LET s == c.id[1]
        i == Findmsg(que[s].list, c.type)
    IN  \/ /\ i = 0
           /\ que' = [que EXCEPT ![s].rwait = @ \/ ~c.nowait]
           /\ OutOrWait(p, c, <<"qnum", s>>, {}) /\ UNCHANGED pool
        \/ /\ i # 0                          \* E2BIG or EFAULT
           /\ Out(p, c, {}) /\ UNCHANGED <<que, pool>>
        \/ /\ i # 0 /\ que[s].list[i].ts <= c.size
           /\ \/ Fault(p, c, "out", i) /\ UNCHANGED <<que, pool>>
              \/ Take(p, c, i)

\* IPC_RMID.  Mutants: the readers are not woken; msg_cbytes is kept.
Emptied(s) ==
    LET freed[n \in 0 .. Len(que[s].list)] ==
            IF n = 0 THEN Resources ELSE Msgfree(freed[n - 1], que[s].list[n])
    IN  freed[Len(que[s].list)]
WritersOnly(s) == IF que[s].wwait THEN {<<"que", s>>} ELSE {}
Waiters(s) == (IF que[s].rwait THEN {<<"qnum", s>>} ELSE {})
              \cup (IF que[s].wwait THEN {<<"que", s>>} ELSE {})
RemovedKeepBytes(q) == [q EXCEPT !.alloc = FALSE, !.seq = @ + 1, !.list = <<>>,
                        !.qnum = @ - Len(q.list), !.rwait = FALSE, !.wwait = FALSE]
Removed(q) == [q EXCEPT !.alloc = FALSE, !.seq = @ + 1, !.list = <<>>, !.qnum = @ - Len(q.list),
                        !.cbytes = 0, !.rwait = FALSE, !.wwait = FALSE]
Rmid(p, c) ==
    LET s == c.id[1] IN
    /\ que[s].seq < MaxSeq
    /\ que' = [que EXCEPT ![s] = Removed(@)]
    /\ pool' = Pool(Emptied(s))
    /\ Out(p, c, Emptied(s).chans \cup Waiters(s))

\* IPC_SET once the arguments are copied in; a process that may not raise
\* the limit gets EPERM.
SetLimit(p, c) ==
    /\ c.size <= que[c.id[1]].qbytes \/ Superuser
    /\ que' = [que EXCEPT ![c.id[1]].qbytes = c.size]
    /\ Out(p, c, {}) /\ UNCHANGED pool
SetFails(p, c) == Out(p, c, {}) /\ UNCHANGED <<que, pool>>
Msgset(p, c) ==
    \/ Fault(p, c, "set", 0) /\ UNCHANGED <<que, pool>>
    \/ SetLimit(p, c) \/ SetFails(p, c)

\* msgget of a new queue: the first free slot.  msg_cbytes is as it was left.
Msgget(p, s) ==
    /\ stat[p] = "user" /\ ~que[s].alloc /\ \A t \in 0 .. s - 1 : que[t].alloc
    /\ que' = [que EXCEPT ![s].alloc = TRUE, ![s].list = <<>>, ![s].qnum = 0,
                          ![s].qbytes = msgmnb, ![s].rwait = FALSE, ![s].wwait = FALSE]
    /\ UNCHANGED <<lock, pool, stat, call>>

-----------------------------------------------------------------------------
(* Steps.                                                                  *)

\* p has the lock of an existing queue.
Serve(p, c) ==
    CASE c.at \in {"eintr", "eintr_que"} -> Eintr(p, c)
      [] c.cmd = "snd" /\ c.at \in {"start", "again"} -> Msgsnd(p, c)
      [] c.cmd = "rcv" -> Msgrcv(p, c)
      [] c.cmd = "rmid" -> Rmid(p, c)
      [] c.cmd = "set" -> Msgset(p, c)

\* msgconv and what follows (mutant: without the lock).
AttemptUnlocked(p, c) ==
    \/ ~Msgconv(c.id) /\ Out(p, c, {}) /\ UNCHANGED <<que, pool>>
    \/ Msgconv(c.id) /\ Serve(p, c)
Attempt(p, c) ==
    \/ /\ lock[c.id[1]]
       /\ stat' = [stat EXCEPT ![p] = "asleep"]
       /\ call' = [call EXCEPT ![p] = [c EXCEPT !.chan = <<"lock", c.id[1]>>]]
       /\ UNCHANGED <<que, lock, pool>>
    \/ /\ ~lock[c.id[1]] /\ ~Msgconv(c.id)
       /\ Out(p, c, {}) /\ UNCHANGED <<que, pool>>
    \/ ~lock[c.id[1]] /\ Msgconv(c.id) /\ Serve(p, c)

Begin(p, id, r) ==
    /\ stat[p] = "user" /\ (Msgconv(id) \/ lock[id[1]])
    /\ Attempt(p, Enter(r, id))

\* sleep returns 0.
Again(p) == stat[p] = "run" /\ Attempt(p, call[p])

\* A signal: msgsnd takes the lock once more, others return; from a sleep on
\* a lock, which does not catch signals, the call is left by longjmp.
Interrupted(p) ==
    /\ stat[p] = "intr"
    /\ LET c == call[p] IN
       IF c.cmd = "snd" /\ c.chan[1] # "lock"
       THEN Attempt(p, [c EXCEPT !.at = IF c.chan[1] = "que" THEN "eintr_que" ELSE "eintr"])
       ELSE /\ stat' = [stat EXCEPT ![p] = "user"]
            /\ call' = [call EXCEPT ![p] = Idle]
            /\ UNCHANGED <<que, lock, pool>>

\* The page is there: copyin or copyout succeeds or fails, and p goes on.
PageIn(p) ==
    LET c == call[p] IN
    /\ stat[p] = "fault"
    /\ \/ c.at = "type" /\ Getres(p, c)
       \/ c.at = "text" /\ (Enqueue(p, c, c.ref, pool) \/ TextFaults(p, c, Resources))
       \/ c.at = "out" /\ Take(p, c, c.ref)
       \/ c.at = "set" /\ SetLimit(p, c)
       \/ c.at # "text" /\ Out(p, c, {}) /\ UNCHANGED <<que, pool>>

Signal(p) ==
    /\ stat[p] \in {"asleep", "run"}
    /\ stat' = [stat EXCEPT ![p] = "intr"]
    /\ UNCHANGED <<que, lock, pool, call>>

\* A job-control stop and its SIGCONT: sleep returns 0.
StopCont(p) ==
    /\ stat[p] = "asleep"
    /\ stat' = [stat EXCEPT ![p] = "run"]
    /\ UNCHANGED <<que, lock, pool, call>>

Next ==
    \/ \E p \in Proc, id \in Id, r \in Calls : Begin(p, id, r)
    \/ \E p \in Proc, s \in Slots : Msgget(p, s)
    \/ \E p \in Proc : Again(p) \/ Interrupted(p) \/ PageIn(p) \/ Signal(p) \/ StopCont(p)

Spec == Init /\ [][Next]_vars
-----------------------------------------------------------------------------
(* Properties.                                                             *)

\* The shape of the variables.
Message == [type : MsgTypes, ts : MsgSizes, spot : 0 .. msgseg]
TypeOK ==
    /\ que \in [Slots -> [alloc : BOOLEAN, seq : 0 .. MaxSeq, list : Seq(Message),
                          qnum : 0 .. msgtql, cbytes : Nat, qbytes : Nat,
                          rwait : BOOLEAN, wwait : BOOLEAN]]
    /\ lock \in [Slots -> BOOLEAN]
    /\ pool \in [fp : 0 .. msgtql, map : SUBSET (1 .. msgseg), want : BOOLEAN]
    /\ stat \in [Proc -> {"user", "asleep", "run", "intr", "fault"}]
    /\ \A p \in Proc : call[p].id \in Id /\ call[p].chan \in Chan

Sizes(list) == [i \in DOMAIN list |-> list[i].ts]

\* The counts of a queue are those of its messages, and a new queue starts
\* with none although msgget does not set msg_cbytes (msg.c:189, 327-329).
CountsAgree ==
    \A s \in Slots :
        /\ que[s].qnum = Len(que[s].list)
        /\ que[s].cbytes = Bytes(Sizes(que[s].list))

\* The messages on the queues and those whose text is copied in.
Queued == {x \in Slots \X (1 .. msgtql) : x[2] \in DOMAIN que[x[1]].list}
Sending == {p \in Proc : stat[p] = "fault" /\ call[p].at = "text"}

\* Every header is on the free list, on one queue or with one sender in
\* copyin; every segment is free or in one text (unless the map may overflow
\* and lose some): after any fault, signal and removal (msgfree, and msgsnd
\* from msg.c:573 on).
ResourcesKept ==
    LET texts == {<<x, Units(que[x[1]].list[x[2]].spot, Btoq(que[x[1]].list[x[2]].ts))>> :
                     x \in Queued}
                 \cup {<<p, Units(call[p].ref, Btoq(call[p].size))>> : p \in Sending}
        used == UNION {x[2] : x \in texts}
    IN  /\ pool.fp + Cardinality(Queued) + Cardinality(Sending) = msgtql
        /\ \A x, y \in texts : x # y => x[2] \cap y[2] = {}
        /\ used \cap pool.map = {}
        /\ 2 * mapslots > msgseg => used \cup pool.map = 1 .. msgseg

\* A queue is locked exactly while one process waits for a page of a call on
\* it; nobody sleeps on a free lock (msgconv, and every "*lockp = 0").
LockExclusive ==
    \A s \in Slots :
        /\ Cardinality({p \in Proc : stat[p] = "fault" /\ call[p].id[1] = s})
              = IF lock[s] THEN 1 ELSE 0
        /\ ~lock[s] => \A p \in Proc : stat[p] = "asleep" => call[p].chan # <<"lock", s>>

\* Who sleeps still lacks what it waits for, and the mark that makes others
\* wake it is set, however sends, receives, removals, faults, signals and
\* other waiters interleave (when nobody raises a limit: IPC_SET wakes no
\* sender, msg.c:224-245).
Lacks(p) ==
    LET c == call[p]
        q == que[c.id[1]]
    IN  CASE c.chan[1] = "qnum"   -> q.rwait /\ Findmsg(q.list, c.type) = 0
          [] c.chan[1] = "que"    -> q.wwait /\ c.size + q.cbytes > q.qbytes
          [] c.chan[1] = "msgfp"  -> pool.fp = 0
          [] c.chan[1] = "msgmap" ->
                pool.want /\ ~\E a \in pool.map : FirstFit(pool.map, Btoq(c.size), a)
          [] c.chan[1] = "lock"   -> TRUE
NoLostWakeup == \A p \in Proc : stat[p] = "asleep" => Lacks(p)

\* No process sleeps for a message or for room of a queue that is removed,
\* also when its slot holds a new queue (IPC_RMID, msg.c:194-198).
RemovalReleases ==
    \A p \in Proc : stat[p] = "asleep" /\ call[p].chan[1] \in {"qnum", "que"}
                        => Msgconv(call[p].id)

\* What MsgQueue tells of a queue: of its messages the type and the size.
Brief(list) == [i \in DOMAIN list |-> [type |-> list[i].type, size |-> list[i].ts]]
View(q) == [live |-> q.alloc, seq |-> q.seq, limit |-> q.qbytes, msgs |-> Brief(q.list)]
Views == [s \in Slots |-> View(que[s])]

\* The queues are those of MsgQueue: a message is sent as a whole, within
\* the limit, and received once, by one receiver, in the order of its type.
Abstract == INSTANCE MsgQueue WITH queue <- Views
ImplementsMsgQueue == Abstract!Spec
=============================================================================
