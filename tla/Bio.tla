-------------------------------- MODULE Bio --------------------------------
(***************************************************************************)
(* The buffer cache: os/bio.c, with the flags of sys/buf.h.                *)
(*                                                                         *)
(* A process in the kernel is not preempted, but the interrupt of the disk *)
(* comes wherever the interrupt level is low.  An action runs from a call, *)
(* a wakeup or a point where the level is low to the next such point, the  *)
(* next sleep or the return; cpu is the process that is between two        *)
(* actions of one such run.  DiskDone is the interrupt.                    *)
(*                                                                         *)
(* Of the contents of a block the model knows whether they are what was    *)
(* last written to it (fresh).                                             *)
(***************************************************************************)
EXTENDS Integers, FiniteSetsExt, SequencesExt

CONSTANTS
    Proc,
    Buf,       \* buf[]: the buffer headers (v_buf)
    Blk,       \* blocks of one device
    bsize,     \* the block size of each
    None,      \* no block, no buffer, no process, no channel
    bufhwm,    \* v_bufhwm: memory for buffers
    PAGESIZE,  \* larger requests the strategy routine breaks up
    few,       \* with no more free buffers than this bawrite waits
    MaxOdd,    \* bound: I/O errors, and sleeps in kmem_zalloc
    Calls      \* what processes do with the cache

VARIABLES
    buf,    \* the headers
    free,   \* bfreelist, from av_forw on
    hdrs,   \* bhdrlist
    room,   \* bfreelist.b_bufsize
    want,   \* B_WANTED of bfreelist ("free") and of bhdrlist ("hdr")
    asyn,   \* basyncnt, basynwait
    io,     \* buffers the driver has
    disk,   \* is the block on disk what was last written?
    lost,   \* history: blocks with a failed write, or used though stale
    twice,  \* history: blocks given a second buffer after a sleep in getfreeblk
    odd,    \* bound: I/O errors and sleeps in kmem_zalloc so far
    proc,   \* what each process does
    cpu     \* the process in the middle of a run

vars == <<buf, free, hdrs, room, want, asyn, io, disk, lost, twice, odd, proc, cpu>>

Flags == {"BUSY", "WANTED", "DONE", "READ", "DELWRI", "ASYNC", "AGE", "STALE", "ERROR"}

\* A call: read or overwrite a block, read it with ra read ahead, take a
\* buffer of no block, flush one block or all, wait for the writes, last
\* close.  "end" is how the buffer is given back.
Call == [op : {"bread", "breada", "getblk", "ngeteblk", "blkflush", "bflush", "sync", "close"},
         blk : Blk \cup {None}, ra : Blk \cup {None},
         end : {"brelse", "bwrite", "bdwrite", "bawrite"}]
NoCall == [op |-> "none", blk |-> None, ra |-> None, end |-> "brelse"]

\* Where a process goes on.
Where == {"user", "getblk", "match", "getfree", "nofree", "kmem", "got", "ra", "join",
          "breakup", "biowait", "hold", "bwait", "wrote", "blkflush", "bflush", "bdwait"}
Chan == Buf \cup {"free", "hdr", "kmem", "dma", "async", None}

\* at: where it goes on; chan: what it sleeps on; bp: the buffer it has;
\* first: breada's; save: getfreeblk's savebp; blk: the block it wants;
\* then: where it goes after a strategy routine that sleeps; back: where
\* bwrite returns to; slept: in getfreeblk, since the hash was searched;
\* raced: a buffer came free before it slept for one.
User == [call |-> NoCall, at |-> "user", chan |-> None, bp |-> None, first |-> None,
         save |-> None, blk |-> None, then |-> "user", back |-> "user",
         slept |-> FALSE, raced |-> FALSE]

Header == [blk |-> None, size |-> 0, flags |-> {}, fresh |-> FALSE]

ASSUME BioAssumption ==
    /\ bsize \in [Blk -> Nat \ {0}] /\ \A k \in Blk : bsize[k] <= bufhwm
    /\ bufhwm \in Nat /\ PAGESIZE \in Nat \ {0} /\ few \in Nat /\ MaxOdd \in Nat
    /\ IsFiniteSet(Buf) /\ None \notin Blk \cup Buf \cup Proc
    /\ (Buf \cup {None}) \cap {"free", "hdr", "kmem", "dma", "async"} = {}
    /\ Calls \subseteq Call
    /\ \A c \in Calls :
         /\ c.op \in {"bread", "breada", "getblk", "blkflush"} => c.blk # None
         /\ c.op = "breada" => c.ra # None
         /\ c.op = "ngeteblk" => c.blk = None

\* binit
Init ==
    /\ buf = [b \in Buf |-> Header]
    /\ free = <<>> /\ hdrs = Buf /\ room = bufhwm /\ want = {}
    /\ asyn = [cnt |-> 0, wait |-> FALSE]
    /\ io = {} /\ disk = [k \in Blk |-> TRUE]
    /\ lost = {} /\ twice = {} /\ odd = 0
    /\ proc = [p \in Proc |-> User] /\ cpu = None

-----------------------------------------------------------------------------
(* Helpers.                                                                *)

Runs(p, at) == cpu \in {None, p} /\ proc[p].at = at /\ proc[p].chan = None

Woken(ps, C) ==
    [q \in Proc |-> IF ps[q].chan \in C \ {None}
                    THEN [ps[q] EXCEPT !.chan = None, !.raced = FALSE] ELSE ps[q]]

\* p goes on as r, after the wakeups C; the caller of the cache, kmem_zalloc
\* and sleep let others run.
Go(p, r, C) ==
    /\ proc' = [Woken(proc, C) EXCEPT ![p] = r]
    /\ cpu' = IF r.at \in {"user", "hold", "kmem"} \/ r.chan # None THEN None ELSE p
Sleep(p, at, c) == Go(p, [proc[p] EXCEPT !.at = at, !.chan = c], {})

Is(b, f) == f \in buf[b].flags
Set(t, b, F) == [t EXCEPT ![b].flags = @ \cup F]
Clear(t, b, F) == [t EXCEPT ![b].flags = @ \ F]

\* The buffers getblk may find for a block; incore.
Matches(k) == {b \in Buf : buf[b].blk = k /\ ~Is(b, "STALE")}
Incore(k) == Matches(k) # {}

\* The available list without b.
Notavail(b) == RemoveAt(free, SelectInSeq(free, LAMBDA x : x = b))

\* What p asks memory for; ngeteblk takes a page.
Size(p) == IF proc[p].blk = None THEN PAGESIZE ELSE bsize[proc[p].blk]

\* brelse, where the headers are t (and B_READ, which means something during
\* a request only, is forgotten).  Mutant: a delayed write is forgotten.
ReleasedDelwri(t, b) ==
    LET e == IF "ERROR" \notin t[b].flags THEN t
             ELSE Clear(Set(t, b, {"STALE", "AGE"}), b, {"ERROR"})
    IN  Clear(e, b, {"WANTED", "BUSY", "ASYNC", "READ", "DELWRI"})
Released(t, b) ==
    LET e == IF "ERROR" \in t[b].flags
             THEN Clear(Set(t, b, {"STALE", "AGE"}), b, {"ERROR", "DELWRI"}) ELSE t
    IN  Clear(e, b, {"WANTED", "BUSY", "ASYNC", "READ"})

\* Whom brelse wakes (mutants: only those who wait for this buffer, only
\* those who wait for any).
WantedThis(t, b) == IF "WANTED" \in t[b].flags THEN {b} ELSE {}
WantedAny(t, b) == want \cap {"free"}
Wanted(t, b) == (IF "WANTED" \in t[b].flags THEN {b} ELSE {}) \cup (want \cap {"free"})

Brelse(b, t, ps) ==
    /\ buf' = Released(t, b)
    /\ free' = IF "AGE" \in buf'[b].flags THEN <<b>> \o free ELSE Append(free, b)
    /\ want' = want \ {"free"}
    /\ proc' = Woken(ps, Wanted(t, b))

\* basyncnt when a request for b is done (mutant: reads count as well).
CountReads(t, b) == IF "ASYNC" \in t[b].flags THEN asyn.cnt - 1 ELSE asyn.cnt
Count(t, b) == IF {"ASYNC", "READ"} \cap t[b].flags = {"ASYNC"} THEN asyn.cnt - 1 ELSE asyn.cnt

\* biodone: the driver is through with b.
Biodone(b, t, ps) ==
    LET d == Set(t, b, {"DONE"})
        cnt == Count(t, b)
        last == cnt = 0 /\ asyn.wait
    IN  IF "ASYNC" \in t[b].flags
        THEN /\ asyn' = [cnt |-> cnt, wait |-> asyn.wait /\ ~last]
             /\ Brelse(b, d, IF last THEN Woken(ps, {"async"}) ELSE ps)
        ELSE /\ buf' = Clear(d, b, {"WANTED"}) /\ proc' = Woken(ps, {b})
             /\ UNCHANGED <<asyn, free, want>>

\* The strategy routine gets b; p goes on as r.  A large request it breaks
\* up, and sleeps for it (buf_breakup).
Strategy(p, b, t, r) ==
    /\ buf' = t /\ io' = io \cup {b}
    /\ IF t[b].size > PAGESIZE
       THEN Go(p, [r EXCEPT !.at = "breakup", !.then = r.at, !.chan = "dma", !.bp = b,
                            !.slept = @ \/ r.back = "getfree"], {})
       ELSE Go(p, r, {})

\* bwrite.
Bwrite(p, b, t, r) ==
    LET u == Clear(t, b, {"READ", "DONE", "ERROR", "DELWRI"})
    IN  Strategy(p, b, u, IF "ASYNC" \in t[b].flags THEN [r EXCEPT !.at = "wrote", !.bp = None]
                          ELSE [r EXCEPT !.at = "bwait", !.bp = b])

-----------------------------------------------------------------------------
(* Calls.                                                                  *)

\* The device is closed when nobody has it open.
Closing == \E q \in Proc : proc[q].call.op = "close"
MayStart(c) ==
    /\ c.op = "close" =>
         \A q \in Proc : proc[q].call.op \in {"none", "bflush", "sync", "ngeteblk"}
    /\ Closing => c.op \in {"bflush", "sync", "ngeteblk"}

Start(p, c) ==
    /\ cpu = None /\ proc[p].at = "user" /\ MayStart(c)
    /\ Go(p, [User EXCEPT !.call = c, !.blk = c.blk,
                !.at = CASE c.op \in {"bread", "getblk"} -> "getblk"
                         [] c.op = "breada" -> IF Incore(c.blk) THEN "ra" ELSE "getblk"
                         [] c.op = "ngeteblk" -> "getfree"
                         [] c.op = "blkflush" -> "blkflush"
                         [] OTHER -> "bflush"], {})
    /\ UNCHANGED <<buf, free, hdrs, room, want, asyn, io, disk, lost, twice, odd>>

\* getblk looks in the hash list, at a low level.
Search(p) ==
    /\ Runs(p, "getblk")
    /\ \/ \E b \in Matches(proc[p].blk) :
             Go(p, [proc[p] EXCEPT !.at = "match", !.bp = b], {})
       \/ ~Incore(proc[p].blk) /\ Go(p, [proc[p] EXCEPT !.at = "getfree", !.slept = FALSE], {})
    /\ UNCHANGED <<buf, free, hdrs, room, want, asyn, io, disk, lost, twice, odd>>

\* It has raised the level: the buffer is busy, or is taken.
Match(p) ==
    LET b == proc[p].bp IN
    /\ Runs(p, "match")
    /\ IF Is(b, "BUSY")
       THEN /\ buf' = Set(buf, b, {"WANTED"})
            /\ Go(p, [proc[p] EXCEPT !.at = "getblk", !.bp = None, !.chan = b], {})
            /\ UNCHANGED <<free, lost>>
       ELSE /\ buf' = Set(Clear(buf, b, {"AGE"}), b, {"BUSY"})
            /\ free' = Notavail(b)
            /\ lost' = IF Is(b, "STALE") THEN lost \cup {proc[p].blk} ELSE lost
            /\ Go(p, [proc[p] EXCEPT !.at = "got"], {})
    /\ UNCHANGED <<hdrs, room, want, asyn, io, disk, twice, odd>>

\* One round of getfreeblk's loop: a free buffer is written, kept as savebp,
\* or given back to memory.
Getfree(p) ==
    LET b == Head(free)
        t == Set(buf, b, {"BUSY"})
        more == free # <<>> /\ (room < Size(p) \/ Is(b, "AGE") \/ hdrs = {})
    IN
    /\ Runs(p, "getfree")
    /\ \/ /\ ~more /\ Go(p, [proc[p] EXCEPT !.at = "nofree"], {})
          /\ UNCHANGED <<buf, free, hdrs, room, want, io>>
       \/ /\ more /\ Is(b, "DELWRI") /\ free' = Tail(free)
          /\ Bwrite(p, b, Set(t, b, {"ASYNC", "AGE"}), [proc[p] EXCEPT !.back = "getfree"])
          /\ UNCHANGED <<hdrs, room, want>>
       \/ /\ more /\ ~Is(b, "DELWRI") /\ proc[p].save = None /\ buf[b].size = Size(p)
          /\ free' = Tail(free) /\ buf' = [t EXCEPT ![b].blk = None]
          /\ Go(p, [proc[p] EXCEPT !.save = b], {})
          /\ UNCHANGED <<hdrs, room, want, io>>
       \/ /\ more /\ ~Is(b, "DELWRI") /\ (proc[p].save # None \/ buf[b].size # Size(p))
          /\ free' = Tail(free) /\ buf' = [buf EXCEPT ![b] = Header]
          /\ hdrs' = hdrs \cup {b} /\ room' = room + buf[b].size
          /\ want' = want \ {"hdr"} /\ Go(p, proc[p], want \cap {"hdr"})
          /\ UNCHANGED io
    /\ UNCHANGED <<asyn, disk, lost, twice, odd>>

\* getblk or ngeteblk has a buffer of memory for the block.
Assign(p, b) ==
    LET k == proc[p].blk IN
    /\ buf' = [buf EXCEPT ![b] = [blk |-> k, size |-> Size(p), fresh |-> FALSE,
                 flags |-> {"BUSY"} \cup (IF k = None THEN {"AGE"} ELSE {})]]
    /\ twice' = IF proc[p].slept /\ k # None /\ Incore(k) THEN twice \cup {k} ELSE twice
    /\ Go(p, [proc[p] EXCEPT !.at = "got", !.bp = b, !.save = None, !.slept = FALSE], {})

\* Where getblk and ngeteblk go on after a sleep in getfreeblk (mutant: the
\* hash list is not searched again).
LoopHere(p) == "getfree"
Loop(p) == IF proc[p].blk = None THEN "getfree" ELSE "getblk"

\* getfreeblk after its loop, at a low level: it has savebp, sleeps for
\* memory or for a header, or takes a header and then memory for it.
Nofree(p) ==
    LET s == proc[p]
        loop == [s EXCEPT !.at = Loop(p), !.slept = FALSE]
    IN
    /\ Runs(p, "nofree")
    /\ \/ s.save # None /\ Assign(p, s.save) /\ UNCHANGED <<hdrs, room, want, odd>>
       \/ /\ s.save = None /\ room < Size(p)
          /\ want' = want \cup {"free"}
          /\ Go(p, [loop EXCEPT !.chan = "free", !.raced = free # <<>>], {})
          /\ UNCHANGED <<buf, twice, hdrs, room, odd>>
       \/ /\ s.save = None /\ room >= Size(p) /\ hdrs = {}
          /\ want' = want \cup {"hdr"} /\ Go(p, [loop EXCEPT !.chan = "hdr"], {})
          /\ UNCHANGED <<buf, twice, hdrs, room, odd>>
       \/ /\ s.save = None /\ room >= Size(p)
          /\ \E b \in hdrs :
               /\ hdrs' = hdrs \ {b}
               /\ \/ Assign(p, b) /\ room' = room - Size(p) /\ UNCHANGED odd
                  \/ /\ odd < MaxOdd /\ odd' = odd + 1
                     /\ Go(p, [s EXCEPT !.at = "kmem", !.bp = b, !.slept = TRUE], {})
                     /\ UNCHANGED <<buf, twice, room>>
          /\ UNCHANGED want
    /\ UNCHANGED <<free, asyn, io, disk, lost>>

\* kmem_zalloc has slept (mutant: its memory is not taken from bufhwm).
KmemUncounted(p) ==
    /\ Runs(p, "kmem") /\ Assign(p, proc[p].bp)
    /\ UNCHANGED <<free, hdrs, room, want, asyn, io, disk, lost, odd>>
Kmem(p) ==
    /\ Runs(p, "kmem") /\ Assign(p, proc[p].bp) /\ room' = room - Size(p)
    /\ UNCHANGED <<free, hdrs, want, asyn, io, disk, lost, odd>>

\* bread or breada has what getblk returned.
Got(p) ==
    LET s == proc[p]
        b == s.bp
        ahead == s.call.op = "breada" /\ s.blk = s.call.ra
        mine == IF s.call.op = "breada" THEN [s EXCEPT !.at = "ra", !.first = b, !.bp = None]
                ELSE [s EXCEPT !.at = "biowait"]
    IN
    /\ Runs(p, "got")
    /\ \/ /\ s.call.op = "bread" => Is(b, "DONE")
          /\ s.call.op \in {"getblk", "ngeteblk", "bread"}
          /\ Go(p, [s EXCEPT !.at = "hold"], {}) /\ UNCHANGED <<buf, free, want, io>>
       \/ /\ ~ahead /\ s.call.op = "breada" /\ Is(b, "DONE")
          /\ Go(p, mine, {}) /\ UNCHANGED <<buf, free, want, io>>
       \/ /\ ~ahead /\ s.call.op \in {"bread", "breada"} /\ ~Is(b, "DONE")
          /\ Strategy(p, b, Set(buf, b, {"READ"}), mine) /\ UNCHANGED <<free, want>>
       \/ /\ ahead /\ Is(b, "DONE")
          /\ Brelse(b, buf, [proc EXCEPT ![p] = [s EXCEPT !.at = "join", !.bp = None]])
          /\ UNCHANGED <<io, cpu>>
       \/ /\ ahead /\ ~Is(b, "DONE")
          /\ Strategy(p, b, Set(buf, b, {"READ", "ASYNC"}), [s EXCEPT !.at = "join", !.bp = None])
          /\ UNCHANGED <<free, want>>
    /\ UNCHANGED <<hdrs, room, asyn, disk, lost, twice, odd>>

\* breada turns to the block to read ahead, if there are buffers and it is
\* not in core; then it waits for the first block, or reads it after all.
ReadAhead(p) ==
    LET s == proc[p] IN
    /\ \/ /\ Runs(p, "ra")
          /\ IF Len(free) > 1 /\ ~Incore(s.call.ra)
             THEN Go(p, [s EXCEPT !.at = "getblk", !.blk = s.call.ra], {})
             ELSE Go(p, [s EXCEPT !.at = "join"], {})
       \/ /\ Runs(p, "join")
          /\ IF s.first = None
             THEN Go(p, [s EXCEPT !.at = "getblk", !.blk = s.call.blk, !.call.op = "bread"], {})
             ELSE Go(p, [s EXCEPT !.at = "biowait", !.bp = s.first, !.first = None,
                                  !.blk = s.call.blk], {})
    /\ UNCHANGED <<buf, free, hdrs, room, want, asyn, io, disk, lost, twice, odd>>

\* buf_breakup has done the request piece by piece: it calls biodone.
Breakup(p) ==
    LET s == proc[p]
        r == IF s.then \in {"wrote", "join", "ra"} THEN [s EXCEPT !.at = s.then, !.bp = None]
             ELSE [s EXCEPT !.at = s.then]
    IN
    /\ Runs(p, "breakup")
    /\ Biodone(s.bp, buf, [proc EXCEPT ![p] = [r EXCEPT !.then = "user"]]) /\ cpu' = p
    /\ UNCHANGED <<hdrs, room, io, disk, lost, twice, odd>>

\* biowait, called by bread and breada, and by bwrite.
Biowait(p) ==
    LET s == proc[p]
        b == s.bp
        back == IF s.back = "user" THEN User
                 ELSE [s EXCEPT !.at = s.back, !.back = "user", !.bp = None]
    IN
    /\ Runs(p, "biowait") \/ Runs(p, "bwait")
    /\ \/ /\ ~Is(b, "DONE") /\ buf' = Set(buf, b, {"WANTED"}) /\ Sleep(p, s.at, b)
          /\ UNCHANGED <<free, want>>
       \/ /\ Is(b, "DONE") /\ s.at = "biowait" /\ Go(p, [s EXCEPT !.at = "hold"], {})
          /\ UNCHANGED <<buf, free, want>>
       \/ /\ Is(b, "DONE") /\ s.at = "bwait" /\ Brelse(b, buf, [proc EXCEPT ![p] = back])
          /\ cpu' = IF s.back = "user" THEN None ELSE p
    /\ UNCHANGED <<hdrs, room, asyn, io, disk, lost, twice, odd>>

\* An asynchronous write has been started: bwrite counts it.
Wrote(p) ==
    LET s == proc[p] IN
    /\ Runs(p, "wrote")
    /\ asyn' = [asyn EXCEPT !.cnt = @ + 1]
    /\ Go(p, IF s.back = "user" THEN User ELSE [s EXCEPT !.at = s.back, !.back = "user"], {})
    /\ UNCHANGED <<buf, free, hdrs, room, want, io, disk, lost, twice, odd>>

\* What was in the other copies of b's block is old from now on.
Modified(b) ==
    [x \in Buf |-> [buf[x] EXCEPT !.fresh = IF buf[x].blk = buf[b].blk THEN x = b ELSE @]]

\* The caller gives the buffer back; a block it changed, by bwrite, bdwrite
\* or bawrite.  After an error it only releases it.
Finish(p) ==
    LET s == proc[p]
        b == s.bp
        how == IF Is(b, "ERROR") THEN "brelse" ELSE s.call.end
        async == how = "bawrite" /\ Len(free) > few
    IN
    /\ Runs(p, "hold")
    /\ disk' = IF how = "brelse" THEN disk ELSE [disk EXCEPT ![buf[b].blk] = FALSE]
    /\ \/ /\ how = "brelse" /\ Brelse(b, buf, [proc EXCEPT ![p] = User])
          /\ cpu' = None /\ UNCHANGED io
       \/ /\ how = "bdwrite"
          /\ Brelse(b, Set(Modified(b), b, {"DELWRI", "DONE"}), [proc EXCEPT ![p] = User])
          /\ cpu' = None /\ UNCHANGED io
       \/ /\ how \in {"bwrite", "bawrite"}
          /\ Bwrite(p, b, Set(Modified(b), b, IF async THEN {"ASYNC"} ELSE {}), s)
          /\ UNCHANGED <<free, want>>
    /\ UNCHANGED <<hdrs, room, asyn, lost, twice, odd>>

\* blkflush: wait until the block's buffer is not busy, write it if its
\* write is delayed, and look again.
Blkflush(p) ==
    LET s == proc[p]
        M == Matches(s.call.blk)
    IN
    /\ Runs(p, "blkflush")
    /\ \/ \E b \in M : /\ Is(b, "BUSY") /\ buf' = Set(buf, b, {"WANTED"})
                       /\ Sleep(p, "blkflush", b) /\ UNCHANGED <<free, io>>
       \/ \E b \in M : /\ ~Is(b, "BUSY") /\ Is(b, "DELWRI") /\ free' = Notavail(b)
                       /\ Bwrite(p, b, Set(buf, b, {"BUSY"}), [s EXCEPT !.back = "blkflush"])
       \/ /\ \A b \in M : ~Is(b, "BUSY") /\ ~Is(b, "DELWRI")
          /\ Go(p, User, {}) /\ UNCHANGED <<buf, free, io>>
    /\ UNCHANGED <<hdrs, room, want, asyn, disk, lost, twice, odd>>

\* Buffers with an asynchronous write that biodone has not been called for.
Writing == {b \in Buf : Is(b, "ASYNC") /\ ~Is(b, "READ")}

\* bflush starts the first delayed write; without one it returns, and
\* the last close goes on to binval, which marks all buffers of the device.
Bflush(p) ==
    LET i == SelectInSeq(free, LAMBDA b : Is(b, "DELWRI")) IN
    /\ Runs(p, "bflush")
    /\ IF i # 0
       THEN /\ free' = RemoveAt(free, i)
            /\ Bwrite(p, free[i], Set(buf, free[i], {"BUSY", "ASYNC"}),
                      [proc[p] EXCEPT !.back = "bflush"])
            /\ UNCHANGED lost
       ELSE /\ IF proc[p].call.op = "close"
               THEN /\ buf' = [b \in Buf |-> IF buf[b].blk = None THEN buf[b]
                               ELSE [buf[b] EXCEPT !.flags = @ \cup {"STALE", "AGE"}]]
                    /\ lost' = lost \cup {buf[b].blk : b \in Writing}
               ELSE UNCHANGED <<buf, lost>>
            /\ Go(p, IF proc[p].call.op = "sync" THEN [proc[p] EXCEPT !.at = "bdwait"] ELSE User, {})
            /\ UNCHANGED <<free, io>>
    /\ UNCHANGED <<hdrs, room, want, asyn, disk, twice, odd>>

Bdwait(p) ==
    /\ Runs(p, "bdwait")
    /\ IF asyn.cnt # 0
       THEN asyn' = [asyn EXCEPT !.wait = TRUE] /\ Sleep(p, "bdwait", "async")
       ELSE Go(p, User, {}) /\ UNCHANGED asyn
    /\ UNCHANGED <<buf, free, hdrs, room, want, io, disk, lost, twice, odd>>

\* Where the interrupt makes a difference; elsewhere between two actions of a
\* process the level may be low too, but it comes to the same as before them.
Interruptible == cpu # None => proc[cpu].at \in {"match", "getfree", "nofree", "biowait", "wrote"}

\* The disk is done with a buffer, in any order, perhaps with an error.
DiskDone(b) ==
    LET write == ~Is(b, "READ")
        k == buf[b].blk
        waits == {p \in Proc : proc[p].at = "breakup" /\ proc[p].bp = b}
        Moved(err) == IF err THEN Set(buf, b, {"ERROR"})
                      ELSE IF write THEN buf ELSE [buf EXCEPT ![b].fresh = disk[k]]
    IN
    /\ b \in io /\ io' = io \ {b} /\ Interruptible
    /\ \E err \in BOOLEAN :
         /\ err => odd < MaxOdd
         /\ odd' = IF err THEN odd + 1 ELSE odd
         /\ disk' = IF write /\ ~err THEN [disk EXCEPT ![k] = buf[b].fresh] ELSE disk
         /\ lost' = IF write /\ err THEN lost \cup {k} ELSE lost
         /\ IF waits = {} THEN Biodone(b, Moved(err), proc)
            ELSE /\ buf' = Moved(err)
                 /\ proc' = [p \in Proc |-> IF p \in waits THEN [proc[p] EXCEPT !.chan = None]
                                            ELSE proc[p]]
                 /\ UNCHANGED <<asyn, free, want>>
    /\ UNCHANGED <<hdrs, room, twice, cpu>>

Next ==
    \/ \E p \in Proc :
         \/ \E c \in Calls : Start(p, c)
         \/ Search(p) \/ Match(p) \/ Getfree(p) \/ Nofree(p) \/ Kmem(p) \/ Got(p)
         \/ ReadAhead(p) \/ Breakup(p) \/ Biowait(p) \/ Wrote(p) \/ Finish(p)
         \/ Blkflush(p) \/ Bflush(p) \/ Bdwait(p)
    \/ \E b \in Buf : DiskDone(b)

Spec == Init /\ [][Next]_vars

-----------------------------------------------------------------------------
(* Properties.                                                             *)

\* The variables have their types; the memory of the buffers passes bufhwm by
\* no more than bufhwm for each sleep in kmem_zalloc (who sleeps there has the
\* same room in view as the next), and basyncnt never falls below -1 (a
\* broken-up write is done before bwrite counts it).
TypeOK ==
    /\ \A b \in Buf : /\ buf[b].blk \in Blk \cup {None} /\ buf[b].size \in 0 .. bufhwm
                      /\ buf[b].flags \subseteq Flags /\ buf[b].fresh \in BOOLEAN
    /\ free \in Seq(Buf) /\ hdrs \subseteq Buf /\ room \in -(MaxOdd * bufhwm) .. bufhwm
    /\ want \subseteq {"free", "hdr"}
    /\ asyn.cnt \in -1 .. Cardinality(Buf) /\ asyn.wait \in BOOLEAN
    /\ io \subseteq Buf /\ disk \in [Blk -> BOOLEAN]
    /\ lost \subseteq Blk \cup {None} /\ twice \subseteq Blk /\ odd \in 0 .. MaxOdd
    /\ \A p \in Proc : /\ proc[p].at \in Where /\ proc[p].chan \in Chan
                       /\ {proc[p].bp, proc[p].first, proc[p].save} \subseteq Buf \cup {None}
    /\ cpu \in Proc \cup {None}

\* Who has buffer b: a process, or the driver for nobody.
Owners(b) == {p \in Proc : \/ proc[p].bp = b /\ proc[p].at # "match"
                           \/ b \in {proc[p].first, proc[p].save}}
Alone(b) == b \in io /\ Owners(b) = {}

\* A buffer is on the available list if and only if it is not busy (sys/buf.h),
\* and a busy buffer has one owner, so that none is lost or used by two.
Ownership ==
    /\ \A b \in Buf :
         LET place == <<b \in hdrs, b \in ToSet(free), Owners(b) # {}, Alone(b)>>
         IN  /\ Cardinality({i \in 1 .. 4 : place[i]}) = 1
             /\ Cardinality(Owners(b)) <= 1
             /\ buf[b].size > 0 => (Is(b, "BUSY") <=> b \notin ToSet(free))
    /\ IsInjective(free)

\* So it is, and the memory of the buffers adds up to bufhwm.
Memory(t) == FoldSet(LAMBDA b, n : n + t[b].size, 0, Buf)
BuffersAccounted == TypeOK /\ Ownership /\ room + Memory(buf) = bufhwm

\* Two valid buffers never hold one block, except where a getblk slept in
\* getfreeblk for memory or in a broken-up write, and did not search again.
OneBufferPerBlock ==
    \A k \in Blk \ twice : Cardinality(Matches(k)) <= 1

\* Who sleeps lacks what it waits for, and the mark that will wake it is set:
\* a buffer that is busy, a free buffer (unless one came free between the
\* last look and the sleep), a header, the end of asynchronous writes.
SleepersWait ==
    \A p \in Proc :
        /\ proc[p].chan \in Buf => Is(proc[p].chan, "BUSY") /\ Is(proc[p].chan, "WANTED")
        /\ proc[p].chan = "free" => "free" \in want /\ (free = <<>> \/ proc[p].raced)
        /\ proc[p].chan = "hdr" => "hdr" \in want /\ hdrs = {}
        /\ proc[p].chan = "async" => asyn.wait /\ asyn.cnt # 0
        /\ proc[p].at \in {"biowait", "bwait"} /\ proc[p].chan # None =>
             proc[p].bp \in io /\ ~Is(proc[p].bp, "ASYNC")

\* The cache comes to a stop, with calls under way and nothing left for the
\* disk or a process to do, only when somebody sleeps for a header or for a
\* buffer that came free too early.
NoGridlock ==
    (/\ \E p \in Proc : proc[p].chan # None
     /\ io = {} /\ \A p \in Proc : proc[p].at # "user" => proc[p].chan # None)
    => \E p \in Proc : proc[p].chan = "hdr" \/ proc[p].raced

\* What was last written to a block is on disk or in a valid buffer on its way
\* there, whoever has a valid buffer of it, or was given one by bread
\* without error, sees that, and later writes to disk do not undo it; unless
\* a write failed, a device was closed during a write, or there are two
\* buffers.
Coherent ==
    \A k \in Blk \ (lost \cup twice) :
        /\ \A b \in Matches(k) : Is(b, "DONE") /\ ~Is(b, "ERROR") => buf[b].fresh
        /\ disk[k] \/ \E b \in Matches(k) : Is(b, "DELWRI") \/ b \in io \/ Owners(b) # {}
        /\ \A p \in Proc : proc[p].at = "hold" /\ proc[p].call.op \in {"bread", "breada"}
                             /\ proc[p].blk = k /\ ~Is(proc[p].bp, "ERROR")
                             => buf[proc[p].bp].fresh

\* bdwait returns when no asynchronous write is left, but for those that a
\* strategy routine breaks up.
BdwaitWaits ==
    [][\A p \in Proc : Runs(p, "bdwait") /\ proc'[p].at = "user" =>
         \A b \in Writing : buf[b].size > PAGESIZE]_vars
=============================================================================
