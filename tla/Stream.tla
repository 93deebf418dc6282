------------------------------- MODULE Stream -------------------------------
(***************************************************************************)
(* The read side of a stream: the queue of io/stream.c under the stream    *)
(* head of os/streamio.c, with read, getmsg and poll (fs/vncalls.c) above  *)
(* and a driver with a service procedure below.                            *)
(*                                                                         *)
(* A process in the kernel is not preempted: an action runs from a call or *)
(* a wakeup to the next point where an interrupt makes a difference, to    *)
(* the next sleep or to the return; cpu is the process between two such    *)
(* actions.  The driver is external: its interrupt sends messages up, or   *)
(* enables its read queue, whose service procedure is run by queuerun and  *)
(* sends what bcanput lets it send.                                        *)
(***************************************************************************)
EXTENDS Integers, FiniteSetsExt, SequencesExt

CONSTANTS
    Proc,
    Msg,      \* bound: message blocks
    None,
    Kinds,    \* the messages the driver sends
    Calls,    \* what processes do
    Marks     \* high and low water marks, the first ones and those of M_SETOPTS

VARIABLES
    kind,     \* what each message block in use is
    q,        \* the read queue of the stream head, and QENAB of the driver's
    head,     \* STRPRI, RSLEEP and STRHUP of sd_flag
    blocked,  \* the band of the message that bcanput has refused to the driver
    proc,     \* what each process does
    cpu,      \* the process in the middle of a run
    missed,   \* history: sleepers that nobody woke for what they wait for
    spoilt    \* history: STRPRI was cleared, or left, by the wrong message

vars == <<kind, q, head, blocked, proc, cpu, missed, spoilt>>

\* A message: high priority (M_PCPROTO) or not (M_DATA), b_band, its bytes.
Kind == [pri : BOOLEAN, band : {0, 1}, size : Nat \ {0}]

\* A call: read in a read option (RPROTNORM, RPROTDAT) and getmsg with a flag,
\* of n bytes; poll for an event.
Call == [op : {"read"}, arg : {"RPROTNORM", "RPROTDAT"}, n : Nat \ {0}]
        \cup [op : {"getmsg"}, arg : {"MSG_ANY", "MSG_HIPRI", "MSG_BAND"}, n : Nat \ {0}]
        \cup [op : {"poll"}, arg : {"POLLIN", "POLLRDNORM", "POLLRDBAND", "POLLPRI"}, n : {0}]

\* at: where it goes on; mp: the message it holds; resid: bytes still to read;
\* rflg: read has read some; hipri: getmsg's flg; pri: the band it got;
\* listed: it is in sd_pollist; inpoll: SINPOLL.
User == [call |-> None, at |-> "user", asleep |-> FALSE, mp |-> None, resid |-> 0,
         rflg |-> FALSE, hipri |-> FALSE, pri |-> 0,
         listed |-> FALSE, inpoll |-> FALSE]
Where == {"user", "read", "got", "copy", "getmsg", "ggot", "gcopy", "gout",
          "poll", "polladd", "pollsleep"}

\* Flow control of a band: q_count, q_hiwat, q_lowat, QFULL, QWANTW of the
\* queue, or those of the qband, which exists once it was used.
Flow(there, mark) == [there |-> there, count |-> 0, hi |-> mark[1], lo |-> mark[2],
                      full |-> FALSE, wantw |-> FALSE]

ASSUME StreamAssumption ==
    /\ Kinds \subseteq Kind /\ \A k \in Kinds : k.pri => k.band = 0
    /\ Calls \subseteq Call
    /\ \A w \in Marks : w[1] \in Nat /\ w[2] \in 1 .. w[1]
    /\ None \notin Msg \cup Proc \cup Kind \cup Call

Init ==
    /\ kind = [m \in Msg |-> None]
    /\ \E w \in Marks :
         q = [list |-> <<>>, flow |-> [b \in {0, 1} |-> Flow(b = 0, w)],
              first |-> None, last |-> None, enab |-> FALSE]
    /\ head = [pri |-> FALSE, rsleep |-> FALSE, hup |-> FALSE]
    /\ blocked = None
    /\ proc = [p \in Proc |-> User] /\ cpu = None
    /\ missed = {} /\ spoilt = FALSE

-----------------------------------------------------------------------------
(* The queue procedures of io/stream.c: what they make of the queue s, where *)
(* the messages are kd.  The queue has no service procedure: qenable does    *)
(* nothing to it.                                                            *)

\* The first place from i on whose message is not one of S.
Skip(l, i, S) == Min({j \in i .. Len(l) + 1 : j = Len(l) + 1 \/ l[j] \notin S})

\* Where putq puts m: at the end, behind its band, or where its class ends.
PutPlace(s, kd, m) ==
    LET l == s.list
        b == kd[m].band
        z == kd[Last(l)]
        Hi == {x \in ToSet(l) : kd[x].pri}
        AtLeast == {x \in ToSet(l) : kd[x].band >= b}
    IN  CASE l = <<>> -> 1
          [] l # <<>> /\ b = 0 -> IF z.pri \/ ~kd[m].pri THEN Len(l) + 1 ELSE Skip(l, 1, Hi)
          [] l # <<>> /\ b # 0 /\ s.first # None -> SelectInSeq(l, LAMBDA x : x = s.last) + 1
          [] l # <<>> /\ b # 0 /\ s.first = None ->
                IF z.pri \/ b <= z.band THEN Len(l) + 1 ELSE Skip(l, Skip(l, 1, Hi), AtLeast)

\* Where putbq puts m (mutant: behind the other messages of its class).
PutbqPlaceBehind(s, kd, m) == PutPlace(s, kd, m)
PutbqPlace(s, kd, m) ==
    LET l == s.list
        b == kd[m].band
        z == kd[Last(l)]
        Hi == {x \in ToSet(l) : kd[x].pri}
        Above == {x \in ToSet(l) : kd[x].band > b}
    IN  CASE l = <<>> \/ kd[m].pri -> 1
          [] l # <<>> /\ b # 0 /\ s.first # None -> SelectInSeq(l, LAMBDA x : x = s.first)
          [] l # <<>> /\ ~kd[m].pri /\ (b = 0 \/ s.first = None) ->
                IF z.pri \/ b < z.band THEN Len(l) + 1 ELSE Skip(l, Skip(l, 1, Hi), Above)

\* The qband of b, and the weight of a message that comes to it.
Qband(s, b) ==
    IF s.flow[b].there THEN s
    ELSE [s EXCEPT !.flow[b] = Flow(TRUE, <<s.flow[0].hi, s.flow[0].lo>>)]
Add(f, n) == [f EXCEPT !.count = @ + n, !.full = @ \/ f.count + n >= f.hi]

Putq(s, kd, m) ==
    LET b == kd[m].band
        t == [Qband(s, b) EXCEPT !.flow[b] = Add(@, kd[m].size),
                                 !.list = InsertAt(@, PutPlace(s, kd, m), m)]
    IN  IF b = 0 THEN t ELSE [t EXCEPT !.first = IF @ = None THEN m ELSE @, !.last = m]

Putbq(s, kd, m) ==
    LET b == kd[m].band
        t == [Qband(s, b) EXCEPT !.flow[b] = Add(@, kd[m].size),
                                 !.list = InsertAt(@, PutbqPlace(s, kd, m), m)]
    IN  IF b = 0 THEN t ELSE [t EXCEPT !.first = m, !.last = IF s.first = None THEN m ELSE @]

\* n bytes of band b have left the queue: below the high water mark it is not
\* full; when it falls below the low one the back queue is enabled if somebody
\* wants to write.  kept: QB_WANTW stays.
Drain(s, b, n, kept) ==
    LET f == s.flow[b]
        c == f.count - n
        enable == f.wantw /\ f.count >= f.lo /\ c < f.lo
        t == [f EXCEPT !.count = c, !.full = @ /\ c >= f.hi,
                       !.wantw = @ /\ (kept \/ ~enable)]
    IN  [s EXCEPT !.flow[b] = t, !.enab = @ \/ enable]

\* getq of a queue with messages.  In a band it clears QB_WANTW through a
\* pointer that was never set (the declaration inside hides the one outside):
\* the mark may stay.
Getq(s, kd, kept) ==
    LET m == Head(s.list)
        b == kd[m].band
        only == s.first = s.last
        t == [s EXCEPT !.list = Tail(@)]
        u == IF b = 0 THEN t
             ELSE [t EXCEPT !.first = IF only THEN None ELSE s.list[2],
                            !.last = IF only THEN None ELSE @]
    IN  Drain(u, b, kd[m].size, kept /\ b # 0)

\* getq of an empty queue.
GetqEmpty(s) == IF s.flow[0].wantw /\ s.flow[0].count < s.flow[0].lo
                THEN [s EXCEPT !.flow[0].wantw = FALSE, !.enab = TRUE] ELSE s

\* rmvq.
Rmvq(s, kd, m) ==
    LET i == SelectInSeq(s.list, LAMBDA x : x = m)
        b == kd[m].band
        Same(j) == IF j \in DOMAIN s.list /\ kd[s.list[j]].band = b THEN s.list[j] ELSE None
        t == [s EXCEPT !.list = RemoveAt(@, i)]
        u == IF b = 0 THEN t
             ELSE [t EXCEPT !.first = IF @ = m THEN Same(i + 1) ELSE @,
                            !.last = IF @ = m THEN Same(i - 1) ELSE @]
    IN  Drain(u, b, kd[m].size, FALSE)

\* bcanput: the band is not full; else the driver wants to write (mutant: it
\* is not marked).
WantsSilent(s, b) == s
Wants(s, b) == [s EXCEPT !.flow[b].wantw = TRUE]
Full(s, b) == s.flow[b].there /\ s.flow[b].full

\* The back queue is enabled for the bands B that somebody wants to write to
\* and that are below (in M_SETOPTS at) their low water mark.
Reenable(s, B, slack) ==
    LET C == {b \in B : s.flow[b].wantw /\ s.flow[b].count < s.flow[b].lo + slack}
    IN  [s EXCEPT !.flow = [b \in {0, 1} |-> [s.flow[b] EXCEPT !.wantw = @ /\ b \notin C]],
                  !.enab = @ \/ C # {}]

\* M_FLUSH of everything, of the normal band (in which high priority messages
\* count) and of the priority band: of several messages the last one stays.
Reset(s) == [s EXCEPT !.list = <<>>, !.first = None, !.last = None,
               !.flow = [b \in {0, 1} |-> [s.flow[b] EXCEPT !.count = 0, !.full = FALSE]]]
FlushAll(s) == Reenable(Reset(s), {0, 1}, 0)
Refill(s, kd) ==
    LET t[n \in 0 .. Len(s.list)] ==
            IF n = 0 THEN Reset(s)
            ELSE IF kd[s.list[n]].band = 0 THEN t[n - 1] ELSE Putq(t[n - 1], kd, s.list[n])
    IN  t[Len(s.list)]
FlushNormal(s, kd) == Reenable(Refill(s, kd), {0}, 0)
FlushBand(s, kd) ==
    LET Out(m) == kd[m].band # 0 /\ (m # s.last \/ m = s.first)
        t[n \in 0 .. Len(s.list)] ==
            IF n = 0 THEN s
            ELSE IF Out(s.list[n]) THEN Rmvq(t[n - 1], kd, s.list[n]) ELSE t[n - 1]
    IN  t[Len(s.list)]

-----------------------------------------------------------------------------
(* Wakeups, and the history of those that are missing.                     *)

Reads(r) == r.at \in {"read", "getmsg"}
WakeReaders(ps) ==
    [p \in Proc |-> IF Reads(ps[p]) THEN [ps[p] EXCEPT !.asleep = FALSE] ELSE ps[p]]

\* pollwakeup and pollrun for the events E.
Pollwakeup(ps, E) ==
    [p \in Proc |-> IF ps[p].listed /\ ps[p].call.arg \in E
                    THEN [ps[p] EXCEPT !.asleep = FALSE, !.listed = FALSE, !.inpoll = FALSE]
                    ELSE ps[p]]
Events == {"POLLIN", "POLLRDNORM", "POLLRDBAND", "POLLPRI"}
RdEvent(m) == IF kind[m].band = 0 THEN "POLLRDNORM" ELSE "POLLRDBAND"

\* strpoll.
Ready(event) ==
    \/ head.hup
    \/ event = "POLLPRI" /\ head.pri
    \/ /\ event # "POLLPRI" /\ q.list # <<>> /\ ~head.pri
       /\ event \in {"POLLIN", RdEvent(q.list[1])}

\* What read and getmsg wait for has not come.
Waits(c) ==
    \/ q.list = <<>>
    \/ c.arg = "MSG_HIPRI" /\ ~head.pri
    \/ c.arg = "MSG_BAND" /\ q.list # <<>> /\ kind[q.list[1]].band = 0 /\ ~head.pri

\* p sleeps, or is about to, although it need not.
Stuck(p) == /\ proc[p].asleep \/ (proc[p].at = "pollsleep" /\ proc[p].inpoll)
            /\ IF proc[p].call.op = "poll" THEN Ready(proc[p].call.arg)
               ELSE head.hup \/ ~Waits(proc[p].call)

\* STRPRI tells whether there is a high priority message, on the queue or with
\* a process that reads it; there is one at most.
Pris == {m \in Msg : kind[m] # None /\ kind[m].pri}
PriTrue == IF head.pri THEN \E m \in Msg : Pris = {m} ELSE Pris = {}

\* This step leaves some of ps asleep behind it; it makes STRPRI wrong.
Missing(ps) == missed' = {p \in Proc : Stuck(p)' /\ (p \in missed \/ (p \in ps /\ ~Stuck(p)))}
Spoils(wrong) == spoilt' = (~PriTrue' /\ (wrong \/ spoilt))

-----------------------------------------------------------------------------
(* Messages from below.                                                    *)

\* strrput of a message.  A high priority message is dropped while there is
\* one (mutant: it is not).
DroppedNever(k) == FALSE
Dropped(k) == k.pri /\ head.pri

\* Whom a message wakes that has come to the queue s.
Woken(s, kd, m) ==
    LET ps == IF head.rsleep THEN WakeReaders(proc) ELSE proc
    IN  Pollwakeup(ps, IF kd[m].pri THEN {"POLLPRI"}
                       ELSE IF s.list[1] = m
                       THEN {"POLLIN", IF kd[m].band = 0 THEN "POLLRDNORM" ELSE "POLLRDBAND"}
                       ELSE {})

\* In any message block that is not in use; or there is no memory for the qband.
Unused == {m \in Msg : kind[m] = None}
Strrput(s, k) ==
    LET m == CHOOSE x \in Unused : TRUE
        kd == [kind EXCEPT ![m] = k]
        t == Putq(s, kd, m)
    IN
    \/ Dropped(k) /\ q' = s /\ UNCHANGED <<kind, head, proc>>
    \/ /\ ~Dropped(k) /\ Unused # {}
       /\ kind' = kd /\ q' = t /\ proc' = Woken(t, kd, m)
       /\ head' = [head EXCEPT !.pri = @ \/ k.pri, !.rsleep = FALSE]
    \/ /\ ~q.flow[k.band].there
       /\ head' = [head EXCEPT !.rsleep = FALSE]
       /\ proc' = IF head.rsleep THEN WakeReaders(proc) ELSE proc
       /\ q' = s /\ UNCHANGED kind

\* The interrupt of the device sends a message up, or, if bcanput refuses it,
\* leaves it to the service procedure.  (Bound: it sends nothing after M_HANGUP.)
Arrive(k) ==
    /\ ~head.hup
    /\ \/ (k.pri \/ ~Full(q, k.band)) /\ Strrput(q, k)
       \/ /\ ~k.pri /\ Full(q, k.band)
          /\ q' = [Wants(q, k.band) EXCEPT !.enab = TRUE] /\ UNCHANGED <<kind, head, proc>>
    /\ UNCHANGED <<blocked, cpu>>
    /\ Missing({}) /\ Spoils(FALSE)

\* M_FLUSH, M_SETOPTS and M_HANGUP.
Flush ==
    /\ \/ q' = FlushAll(q) /\ head' = [head EXCEPT !.pri = FALSE]
       \/ q' = FlushNormal(q, kind) /\ UNCHANGED head
       \/ q.flow[1].there /\ q' = FlushBand(q, kind) /\ UNCHANGED head
    /\ kind' = [m \in Msg |-> IF m \in ToSet(q.list) \ ToSet(q'.list) THEN None ELSE kind[m]]
    /\ UNCHANGED <<blocked, proc, cpu>>
    /\ Missing(Proc) /\ Spoils(TRUE)

SetOpts(b, mark) ==
    /\ q' = Reenable([Qband(q, b) EXCEPT !.flow[b].hi = mark[1], !.flow[b].lo = mark[2]],
                     {b}, 1)
    /\ UNCHANGED <<kind, head, blocked, proc, cpu>>
    /\ Missing({}) /\ Spoils(FALSE)

Hangup ==
    /\ ~head.hup /\ head' = [head EXCEPT !.hup = TRUE]
    /\ proc' = Pollwakeup(WakeReaders(proc), Events)
    /\ UNCHANGED <<kind, q, blocked, cpu>>
    /\ Missing({}) /\ Spoils(FALSE)

\* queuerun: on the way to user mode, when nothing else runs, or where read
\* and getmsg call runqueues.  The service procedure finds that it has nothing
\* to send, or sends a message if bcanput lets it; while it has another, its
\* queue is enabled.
Queuerun(k) ==
    LET s == [q EXCEPT !.enab = FALSE] IN
    /\ ~head.hup /\ q.enab /\ (blocked # None /\ ~k.pri => k.band = blocked)
    /\ cpu # None => proc[cpu].at \in {"got", "ggot"}
    /\ \/ blocked = None /\ q' = s /\ UNCHANGED <<kind, head, proc, blocked>>
       \/ /\ ~k.pri /\ Full(q, k.band) /\ q' = Wants(s, k.band) /\ blocked' = k.band
          /\ UNCHANGED <<kind, head, proc>>
       \/ /\ (k.pri \/ ~Full(q, k.band)) /\ Strrput(IF k.pri THEN q ELSE s, k)
          /\ blocked' = IF k.pri THEN blocked ELSE None
    /\ UNCHANGED cpu /\ Missing({}) /\ Spoils(FALSE)

-----------------------------------------------------------------------------
(* Processes.                                                              *)

Runs(p, at) == cpu \in {None, p} /\ proc[p].at = at /\ ~proc[p].asleep

\* p makes a call, or comes back to its beginning.
Enters(p, op) ==
    (IF Runs(p, op) THEN {proc[p]} ELSE {})
    \cup (IF Runs(p, "user") /\ cpu = None
          THEN {[User EXCEPT !.call = c, !.at = op, !.resid = c.n] :
                  c \in {d \in Calls : d.op = op}}
          ELSE {})

\* p goes on as r, in the same run; after a point where others run; returns.
On(p, r) == proc' = [proc EXCEPT ![p] = r] /\ cpu' = p
Off(p, r) == proc' = [proc EXCEPT ![p] = r] /\ cpu' = None
Return(p) == Off(p, User)

\* strwaitq.
Waitq(p, r) == /\ head' = [head EXCEPT !.rsleep = TRUE]
               /\ Off(p, [r EXCEPT !.asleep = TRUE]) /\ UNCHANGED kind

\* The loop of strread: a message, or sleep for one.
Read(p) ==
    \E r \in Enters(p, "read") :
    /\ \/ /\ q.list = <<>> /\ (head.hup \/ r.rflg)
          /\ q' = GetqEmpty(q) /\ Return(p) /\ UNCHANGED <<kind, head>>
       \/ /\ q.list = <<>> /\ ~head.hup /\ ~r.rflg
          /\ q' = GetqEmpty(q) /\ Waitq(p, r)
       \/ /\ q.list # <<>> /\ \E kept \in BOOLEAN : q' = Getq(q, kind, kept)
          /\ On(p, [r EXCEPT !.at = "got", !.mp = q.list[1]]) /\ UNCHANGED <<kind, head>>
    /\ UNCHANGED blocked
    /\ Missing(Proc) /\ Spoils(FALSE)

\* A high priority message goes back, or is data from now on.
Got(p) ==
    LET r == proc[p]
        m == r.mp
    IN
    /\ Runs(p, "got")
    /\ \/ ~kind[m].pri /\ Off(p, [r EXCEPT !.at = "copy"]) /\ UNCHANGED <<kind, q, head>>
       \/ /\ kind[m].pri /\ r.call.arg = "RPROTNORM"
          /\ q' = Putbq(q, kind, m) /\ Return(p) /\ UNCHANGED <<kind, head>>
       \/ /\ kind[m].pri /\ r.call.arg = "RPROTDAT"
          /\ kind' = [kind EXCEPT ![m].pri = FALSE] /\ head' = [head EXCEPT !.pri = FALSE]
          /\ Off(p, [r EXCEPT !.at = "copy"]) /\ UNCHANGED q
    /\ UNCHANGED blocked
    /\ Missing(Proc) /\ Spoils(FALSE)

\* n bytes of m have been read and the rest goes back to the queue (mutant:
\* the rest is weighed as the whole).
LeftoverWhole(m, n) ==
    LET kd == [kind EXCEPT ![m].size = @ - n]
    IN  q' = Putbq(q, kind, m) /\ kind' = kd
Leftover(m, n) ==
    LET kd == [kind EXCEPT ![m].size = @ - n]
    IN  q' = Putbq(q, kd, m) /\ kind' = kd

Freemsg(m) == kind' = [kind EXCEPT ![m] = None]

\* uiomove has copied, or failed.
Copy(p) ==
    LET r == proc[p]
        m == r.mp
        n == kind[m].size
    IN
    /\ Runs(p, "copy")
    /\ \/ /\ Freemsg(m) /\ Return(p) /\ UNCHANGED <<q, head>>
       \/ /\ r.resid < n /\ Leftover(m, r.resid) /\ Return(p) /\ UNCHANGED head
       \/ /\ r.resid >= n /\ Freemsg(m) /\ head' = [head EXCEPT !.pri = FALSE]
          /\ IF r.resid = n THEN Return(p)
             ELSE On(p, [r EXCEPT !.at = "read", !.mp = None, !.resid = @ - n, !.rflg = TRUE])
          /\ UNCHANGED q
    /\ UNCHANGED blocked
    /\ Missing(Proc) /\ Spoils(head.pri /\ ~head'.pri)

\* The loop of strgetmsg.  It calls getq for a message it may have.  When STRPRI
\* is wrong that may be a high priority message with the band's behind it.
Tried(c) == IF c.arg = "MSG_ANY" \/ (c.arg = "MSG_HIPRI" /\ head.pri) THEN GetqEmpty(q) ELSE q
Getmsg(p) ==
    \E r \in Enters(p, "getmsg") :
    /\ \/ Waits(r.call) /\ head.hup /\ q' = Tried(r.call) /\ Return(p) /\ UNCHANGED <<kind, head>>
       \/ Waits(r.call) /\ ~head.hup /\ q' = Tried(r.call) /\ Waitq(p, r)
       \/ /\ ~Waits(r.call) /\ \E kept \in BOOLEAN : q' = Getq(q, kind, kept)
          /\ On(p, [r EXCEPT !.at = "ggot", !.mp = q.list[1]]) /\ UNCHANGED <<kind, head>>
    /\ UNCHANGED blocked
    /\ Missing(IF spoilt THEN Proc ELSE {}) /\ Spoils(FALSE)

\* It takes the message for a high priority one if STRPRI is set.
Ggot(p) ==
    /\ Runs(p, "ggot")
    /\ Off(p, [proc[p] EXCEPT !.at = "gcopy", !.hipri = head.pri,
                              !.pri = kind[proc[p].mp].band])
    /\ UNCHANGED <<kind, q, head, blocked, missed, spoilt>>

\* copyout has copied, or failed.
Gcopy(p) ==
    LET r == proc[p]
        m == r.mp
    IN
    /\ Runs(p, "gcopy")
    /\ \/ /\ Freemsg(m) /\ head' = [head EXCEPT !.pri = FALSE] /\ UNCHANGED q
       \/ r.resid < kind[m].size /\ Leftover(m, r.resid) /\ UNCHANGED head
       \/ /\ r.resid >= kind[m].size /\ Freemsg(m)
          /\ head' = [head EXCEPT !.pri = FALSE] /\ UNCHANGED q
    /\ On(p, [r EXCEPT !.at = "gout", !.mp = None])
    /\ UNCHANGED blocked
    /\ LET cleared == head.pri /\ ~head'.pri
       IN  /\ Missing(IF q' # q \/ (cleared /\ ~r.hipri) THEN Proc ELSE {})
           /\ Spoils(cleared /\ ~kind[m].pri)

\* getmsg wakes those who poll for what is at the front now (mutant: only
\* after a high priority message).
AtFrontPri(r) ==
    IF q.list = <<>> \/ head.pri \/ ~r.hipri THEN {} ELSE {"POLLIN", RdEvent(q.list[1])}
AtFront(r) ==
    IF q.list = <<>> \/ head.pri THEN {}
    ELSE IF r.hipri THEN {"POLLIN", RdEvent(q.list[1])}
    ELSE IF r.pri # kind[q.list[1]].band THEN {RdEvent(q.list[1])} ELSE {}
Gout(p) ==
    /\ Runs(p, "gout")
    /\ proc' = [Pollwakeup(proc, AtFront(proc[p])) EXCEPT ![p] = User] /\ cpu' = None
    /\ UNCHANGED <<kind, q, head, blocked>>
    /\ Missing({}) /\ Spoils(FALSE)

\* poll of one stream without a timeout: strpoll, polladd, and sleep if
\* SINPOLL is still set; an event that came before polladd goes unnoticed.
Poll(p) ==
    \E r \in Enters(p, "poll") :
    /\ IF Ready(r.call.arg) THEN Return(p)
       ELSE On(p, [r EXCEPT !.listed = FALSE, !.inpoll = TRUE, !.at = "polladd"])
    /\ UNCHANGED <<kind, q, head, blocked, spoilt>> /\ Missing({})
Polladd(p) ==
    LET r == proc[p] IN
    /\ Runs(p, "polladd")
    /\ On(p, [r EXCEPT !.at = "pollsleep", !.listed = TRUE])
    /\ UNCHANGED <<kind, q, head, blocked, spoilt>> /\ Missing({p})
Pollsleep(p) ==
    LET r == [proc[p] EXCEPT !.at = "poll", !.inpoll = FALSE] IN
    /\ Runs(p, "pollsleep")
    /\ IF proc[p].inpoll THEN Off(p, [r EXCEPT !.asleep = TRUE]) ELSE On(p, r)
    /\ UNCHANGED <<kind, q, head, blocked, spoilt>> /\ Missing({})

\* A signal ends a sleep: strwaitq wakes the other readers, whose mark it
\* takes away.
Signal(p) ==
    /\ proc[p].asleep /\ cpu = None
    /\ cpu' = None
    /\ proc' = [(IF Reads(proc[p]) THEN WakeReaders(proc) ELSE proc) EXCEPT ![p] = User]
    /\ head' = [head EXCEPT !.rsleep = @ /\ ~Reads(proc[p])]
    /\ UNCHANGED <<kind, q, blocked, spoilt>> /\ Missing({})

Next ==
    \/ \E k \in Kinds : Arrive(k) \/ Queuerun(k)
    \/ Flush \/ Hangup
    \/ \E b \in {0, 1}, mark \in Marks : SetOpts(b, mark)
    \/ \E p \in Proc :
         \/ Read(p) \/ Got(p) \/ Copy(p) \/ Getmsg(p) \/ Ggot(p) \/ Gcopy(p) \/ Gout(p)
         \/ Poll(p) \/ Polladd(p) \/ Pollsleep(p) \/ Signal(p)

Spec == Init /\ [][Next]_vars

-----------------------------------------------------------------------------
(* Properties.                                                             *)

\* The variables have their types.
TypeOK ==
    /\ \A m \in Msg : kind[m] = None \/ kind[m] \in Kind
    /\ q.list \in Seq(Msg) /\ {q.first, q.last} \subseteq Msg \cup {None} /\ q.enab \in BOOLEAN
    /\ \A b \in {0, 1} : q.flow[b].count \in Nat /\ q.flow[b].lo \in 1 .. q.flow[b].hi
    /\ blocked \in {None, 0, 1} /\ cpu \in Proc \cup {None}
    /\ \A p \in Proc : proc[p].at \in Where /\ proc[p].mp \in Msg \cup {None}
    /\ missed \subseteq Proc

\* What the messages of band b weigh.
Weights(b, kd, l) == [n \in 1 .. Len(l) |-> IF kd[l[n]].band = b THEN kd[l[n]].size ELSE 0]
Total(w) ==
    LET f[n \in 0 .. Len(w)] == IF n = 0 THEN 0 ELSE f[n - 1] + w[n]
    IN  f[Len(w)]
Weight(b, kd, l) == Total(Weights(b, kd, l))

\* Messages of the queue or of readers are nowhere twice; on the queue the high
\* priority ones come first, then the band's, then the others; the counts are
\* what they weigh, and the band's pointers enclose its messages.
Rank(m) == IF kind[m].pri THEN 2 ELSE kind[m].band
Held == {proc[p].mp : p \in Proc} \ {None}
QueueSound ==
    /\ TypeOK
    /\ IsInjective(q.list) /\ ToSet(q.list) \cap Held = {}
    /\ \A p, r \in Proc : p # r /\ proc[p].mp # None => proc[p].mp # proc[r].mp
    /\ ToSet(q.list) \cup Held = Msg \ Unused
    /\ \A i, j \in DOMAIN q.list : i < j => Rank(q.list[i]) >= Rank(q.list[j])
    /\ \A b \in {0, 1} : q.flow[b].count = Weight(b, kind, q.list)
    /\ \/ q.first = None /\ q.last = None /\ \A k \in DOMAIN q.list : kind[q.list[k]].band = 0
       \/ \E i, j \in DOMAIN q.list :
            /\ i <= j /\ q.first = q.list[i] /\ q.last = q.list[j]
            /\ \A k \in DOMAIN q.list : kind[q.list[k]].band = 1 <=> k \in i .. j

\* Each class of messages is first in first out, and is served in its turn; what
\* a reader gives back comes first again.
Abstract == INSTANCE BandQueue WITH
    que <- [c \in 0 .. 2 |-> SelectSeq(q.list, LAMBDA m : Rank(m) = c)], taken <- Held
ImplementsBandQueue == Abstract!Spec

\* A driver whose message bcanput has refused will try again: its queue is
\* enabled, or the band is marked and holds so much that the readers, when
\* they go on, must pass the low water mark.
NoStalledDriver ==
    blocked # None =>
        \/ q.enab
        \/ LET f == q.flow[blocked] IN f.wantw /\ f.count >= f.lo

\* Who sleeps in read, getmsg or poll waits for what has not come and is marked,
\* but for those whom a reader leaves behind who gives part of a message back,
\* strread or a flush, for which nobody polls, the window before polladd, and
\* what follows from a wrong STRPRI.
SleepersWait ==
    \A p \in Proc :
        /\ proc[p].asleep /\ Reads(proc[p]) => head.rsleep
        /\ Stuck(p) => \/ p \in missed
                       \/ proc[p].call.op = "poll"
                          /\ \E r \in Proc : proc[r].at \in {"ggot", "gcopy", "gout"}

\* Only one high priority message is at the stream head at a time, and STRPRI
\* says whether there is one; unless a process that read another message
\* cleared it, or M_FLUSH of the normal band threw the message away.
PriFlag == spoilt \/ PriTrue
=============================================================================
