-------------------------------- MODULE Sem --------------------------------
(***************************************************************************)
(* System V semaphores: os/sem.c with ipcget/ipcaccess of os/ipc.c, the    *)
(* semmap of os/malloc.c (CoreMap) and the sleep/wakeup of os/slp.c.       *)
(*                                                                         *)
(* The kernel is not preempted: a process that is in the kernel (cur) runs *)
(* until it sleeps or returns.  A call that cannot sleep half-way is one   *)
(* action; semop, which can, takes one action per operation of its list    *)
(* (pc, i), so that its partial work, semundo and its sleeps are steps.    *)
(* Calls that fail without changing anything are not actions, except where *)
(* semop has work to take back first.                                      *)
(***************************************************************************)
EXTENDS CoreMap, Sequences, SequencesExt

CONSTANTS
    Proc, NoProc,   \* process-table slots
    semmnu,         \* # of undo structures in system
    semmni,         \* # of semaphore identifiers
    semmns,         \* # of semaphores in system
    semmsl,         \* max # of semaphores per id
    mapslots,       \* slots of semmap (seminfo.semmap - 2)
    semvmx,         \* semaphore maximum value
    semaem,         \* adjust on exit max value
    semume,         \* max # of undo entries per process
    ushort,         \* # of values of a ushort: 65536
    OpLists,        \* the operation lists processes pass to semop
    SetVals,        \* the value arrays they pass to SETALL
    MaxSeq,         \* bound: no slot's sequence number passes it
    MaxStops,       \* bound: job-control stops of sleeping processes
    PageFaults,     \* copyin may have to wait for a page of the user's buffer
    SlotReuse       \* fork may reuse any freed process-table slot

Slots == 0 .. semmni - 1
Sems  == 0 .. semmns - 1
Undo  == 1 .. semmnu                  \* semu[]
NoUndo == 0                           \* NULL
Nums  == 0 .. semmsl - 1
Id    == Slots \X (0 .. MaxSeq)      \* semid = seq * semmni + slot
Key   == Slots \X (0 .. MaxSeq) \X Nums   \* (un_id, un_num)
Chan  == {"n", "z"} \X Sems           \* &semncnt and &semzcnt of each sem
SemOp == [num : Nums, op : Int, undo : BOOLEAN, nowait : BOOLEAN]

ASSUME SizesAssumption ==
    /\ semmni \in Nat \ {0} /\ semmns \in Nat \ {0} /\ semmsl \in 1 .. semmns
    /\ mapslots \in Nat \ {0} /\ semvmx \in Nat \ {0} /\ semvmx < ushort
    /\ semaem \in Nat /\ semume \in Nat \ {0} /\ ushort \in Nat
    /\ MaxSeq \in Nat /\ MaxStops \in Nat
    /\ PageFaults \in BOOLEAN /\ SlotReuse \in BOOLEAN
ASSUME ProcAssumption ==
    NoProc \notin Proc /\ semmnu \in Nat \ {0}
ASSUME InputAssumption ==
    OpLists \subseteq Seq(SemOp) /\ SetVals \subseteq [Nums -> 0 .. semvmx]

VARIABLES
    sema,     \* sema[]: the set headers
    semmap,   \* the free units of sem[]
    semval,   \* sem[].semval
    cnt,      \* sem[].semncnt and sem[].semzcnt, by wait channel
    un,       \* semu[]: un_aoe by key, 0 where there is no entry
    sem_undo, \* sem_undo[]: the process's undo structure
    semfup,   \* the chain of free undo structures
    stat,     \* what each process is doing
    sig,      \* a signal is pending
    call,     \* the process's semop or SETALL: arguments and locals
    stops,    \* job-control stops so far
    cur,      \* the process that executes in the kernel
    pc,       \* where it is in semop
    i,        \* semop's i, from 1
    after,    \* how semop ends once its work is taken back
    trail     \* history: semval and un before the first and after each
              \* operation the current semop has done

setVars  == <<sema, semmap>>
semVars  == <<semval, cnt>>
undoVars == <<un, sem_undo, semfup>>
procVars == <<stat, sig, call, stops>>
execVars == <<cur, pc, i, after, trail>>
vars     == <<setVars, semVars, undoVars, procVars, execVars>>

Stat == {"none",     \* no such process
         "user",     \* in user mode
         "fault",    \* waits for a page of its buffer, inside copyin
         "kernel",   \* executes semop; it is cur
         "asleep",   \* on the sleep queue of call.ch
         "run",      \* taken off it by wakeup
         "intr"}     \* taken off it by a signal or a stop

NoEntries == [k \in Key |-> 0]

\* call[p]: which call, its arguments, semop's again, the channel of its
\* last sleep (semp) and, as history, the value semval must reach for the
\* operation it sleeps on.
IdleCall  == [cmd |-> "semop", id |-> <<0, 0>>, ops |-> <<>>,
              vals |-> [n \in Nums |-> 0], again |-> FALSE,
              ch |-> <<"n", 0>>, need |-> 0]

Init ==
    /\ sema = [t \in Slots |-> [alloc |-> FALSE, seq |-> 0, nsems |-> 0, base |-> 0]]
    /\ semmap = Sems
    /\ semval = [s \in Sems |-> 0]
    /\ cnt = [ch \in Chan |-> 0]
    /\ un = [u \in Undo |-> NoEntries]
    /\ sem_undo = [p \in Proc |-> NoUndo]
    /\ semfup = [u \in Undo |-> u]
    /\ stat = [p \in Proc |-> "user"]
    /\ sig = [p \in Proc |-> FALSE]
    /\ call = [p \in Proc |-> IdleCall]
    /\ stops = 0
    /\ cur = NoProc /\ pc = "idle" /\ i = 1 /\ after = "error" /\ trail = <<>>

-----------------------------------------------------------------------------
(* Helpers of sem.c.                                                       *)

\* semconv: the id names an allocated set of the same generation.
Semconv(id) == sema[id[1]].alloc /\ sema[id[1]].seq = id[2]

\* sp->sem_base + num, read from the header at the time of use.
SemOf(slot, num) == sema[slot].base + num

SemsOf(slot) == Units(sema[slot].base, sema[slot].nsems)

\* Of the channels C the ones whose count says that somebody waits.
Awaited(C) == {ch \in C : cnt[ch] > 0}

\* "if (cnt) { cnt = 0; wakeup(&cnt); }" for each channel of C.
CntAfter(C)  == [ch \in Chan |-> IF ch \in Awaited(C) THEN 0 ELSE cnt[ch]]
StatAfter(C) == [p \in Proc |->
    IF stat[p] = "asleep" /\ call[p].ch \in Awaited(C) THEN "run" ELSE stat[p]]

\* The undo structure semaoe works on: the process's own, else a free one.
UndoOf(p) == IF sem_undo[p] # NoUndo \/ semfup = <<>>
             THEN sem_undo[p] ELSE Head(semfup)

UnCnt(u) == Cardinality({k \in Key : un[u][k] # 0})

InAem(v) == -semaem <= v /\ v <= semaem

\* semaoe succeeds: the operation is small enough (ERANGE), there is a
\* structure (ENOSPC) with an entry left (EINVAL), and the adjustment stays in
\* range (ERANGE).
SemaoeOK(p, k, val) ==
    LET u == UndoOf(p) IN
    /\ InAem(val)
    /\ u # NoUndo
    /\ IF un[u][k] = 0 THEN UnCnt(u) < semume ELSE InAem(un[u][k] - val)

\* Mutant: a new structure is not taken off the free chain.
SemaoeDoneStaysFree(p, k, val) ==
    /\ un' = [un EXCEPT ![UndoOf(p)][k] = @ - val]
    /\ sem_undo' = [sem_undo EXCEPT ![p] = UndoOf(p)]
    /\ UNCHANGED semfup

\* What it then does; an entry that comes to 0 is removed.
SemaoeDone(p, k, val) ==
    /\ un' = [un EXCEPT ![UndoOf(p)][k] = @ - val]
    /\ sem_undo' = [sem_undo EXCEPT ![p] = UndoOf(p)]
    /\ semfup' = IF sem_undo[p] = NoUndo THEN Tail(semfup) ELSE semfup

\* Mutant: the entries of a removed or reset semaphore are kept.
SemunrmForgotten(id, nums) == un' = un

\* semunrm: every structure loses its entries for these semaphores of the set.
Semunrm(id, nums) ==
    un' = [u \in Undo |-> [k \in Key |->
             IF <<k[1], k[2]>> = id /\ k[3] \in nums THEN 0 ELSE un[u][k]]]

-----------------------------------------------------------------------------
(* semget and semctl.                                                      *)

\* A process in user mode makes a system call and the kernel is free.
Calls(p) == stat[p] = "user" /\ cur = NoProc

\* semget that creates a set of n semaphores: ipcget takes the first header
\* that is free, rmalloc the first fit.
Semget(p, n) ==
    /\ Calls(p)
    /\ \E t \in Slots, a \in semmap :
         /\ ~sema[t].alloc /\ \A t2 \in Slots : t2 < t => sema[t2].alloc
         /\ FirstFit(semmap, n, a)
         /\ sema' = [sema EXCEPT ![t].alloc = TRUE, ![t].nsems = n, ![t].base = a]
         /\ semmap' = semmap \ Units(a, n)
    /\ UNCHANGED <<semVars, undoVars, procVars, execVars>>

\* Mutants: values are kept; the sleepers on semncnt are forgotten; all are;
\* one semaphore too many goes back to the map.
RmidValKept(id) == semval
RmidWakesZeroOnly(id) == {"z"} \X SemsOf(id[1])
RmidWakesNobody(id) == {}
RmidMapOneMore(id) == Release(semmap, sema[id[1]].nsems + 1, sema[id[1]].base, mapslots)

\* What semctl(IPC_RMID) does to the set: values, sleepers, map.
RmidVal(id) == [s \in Sems |-> IF s \in SemsOf(id[1]) THEN 0 ELSE semval[s]]
RmidWakes(id) == {"n", "z"} \X SemsOf(id[1])
RmidMap(id) == Release(semmap, sema[id[1]].nsems, sema[id[1]].base, mapslots)

Rmid(p, id) ==
    /\ Calls(p) /\ Semconv(id) /\ id[2] < MaxSeq
    /\ Semunrm(id, 0 .. sema[id[1]].nsems)
    /\ semval' = RmidVal(id)
    /\ cnt' = CntAfter(RmidWakes(id)) /\ stat' = StatAfter(RmidWakes(id))
    /\ semmap' = RmidMap(id)
    /\ sema' = [sema EXCEPT ![id[1]].alloc = FALSE, ![id[1]].seq = @ + 1]
    /\ UNCHANGED <<sem_undo, semfup, sig, call, stops, execVars>>

\* The channel that storing v into the semaphore s wakes.
SetWakes(s, v) == IF v # 0 THEN <<"n", s>> ELSE <<"z", s>>

\* semctl(SETVAL).
SetVal(p, id, num, v) ==
    LET s == SemOf(id[1], num) IN
    /\ Calls(p) /\ Semconv(id) /\ num < sema[id[1]].nsems
    /\ semval' = [semval EXCEPT ![s] = v]
    /\ cnt' = CntAfter({SetWakes(s, v)})
    /\ stat' = StatAfter({SetWakes(s, v)})
    /\ Semunrm(id, {num})
    /\ UNCHANGED <<setVars, sem_undo, semfup, sig, call, stops, execVars>>

\* The stores of SETALL, on the header the id named when the call began,
\* and its return.
StoreAll(p, id, vals) ==
    LET base == sema[id[1]].base
        wakes == {SetWakes(s, vals[s - base]) : s \in SemsOf(id[1])}
    IN  /\ semval' = [s \in Sems |->
                        IF s \in SemsOf(id[1]) THEN vals[s - base] ELSE semval[s]]
        /\ cnt' = CntAfter(wakes)
        /\ stat' = [StatAfter(wakes) EXCEPT ![p] = "user"]
        /\ Semunrm(id, 0 .. sema[id[1]].nsems)
        /\ sig' = [sig EXCEPT ![p] = FALSE]
        /\ UNCHANGED <<setVars, sem_undo, semfup, stops, execVars>>

\* semctl(SETALL): its copyin may sleep, and semconv is not asked again.
SetAll(p, id, vals) ==
    /\ Calls(p) /\ Semconv(id)
    /\ StoreAll(p, id, vals) /\ UNCHANGED call

SetAllFault(p, id, vals) ==
    /\ PageFaults /\ Calls(p) /\ Semconv(id)
    /\ stat' = [stat EXCEPT ![p] = "fault"]
    /\ call' = [call EXCEPT ![p] = [IdleCall EXCEPT
                  !.cmd = "setall", !.id = id, !.vals = vals]]
    /\ UNCHANGED <<setVars, semVars, undoVars, sig, stops, execVars>>

SetAllPageIn(p) ==
    /\ cur = NoProc /\ stat[p] = "fault" /\ call[p].cmd = "setall"
    /\ StoreAll(p, call[p].id, call[p].vals)
    /\ call' = [call EXCEPT ![p] = IdleCall]

-----------------------------------------------------------------------------
(* semop.                                                                  *)

Ops == call[cur].ops
CurOp == Ops[i]
CurSem == SemOf(call[cur].id[1], CurOp.num)
CurKey(op) == <<call[cur].id[1], call[cur].id[2], op.num>>
Snapshot == [val |-> semval, un |-> un]

\* The process in the kernel returns to user mode, where it takes its signal.
Return(st) ==
    /\ stat' = [st EXCEPT ![cur] = "user"]
    /\ call' = [call EXCEPT ![cur] = IdleCall]
    /\ sig' = [sig EXCEPT ![cur] = FALSE]
    /\ cur' = NoProc /\ pc' = "idle" /\ i' = 1 /\ after' = "error" /\ trail' = <<>>
    /\ UNCHANGED <<setVars, undoVars, stops>>

\* p goes on to the loop over the operations.
EnterLoop(p) ==
    /\ stat' = [stat EXCEPT ![p] = "kernel"]
    /\ call' = [call EXCEPT ![p].again = TRUE]
    /\ cur' = p /\ pc' = "loop" /\ i' = 1 /\ trail' = <<Snapshot>>
    /\ UNCHANGED <<setVars, semVars, undoVars, sig, stops, after>>

\* p sleeps in copyin until its page is there.
EnterFault(p) ==
    /\ stat' = [stat EXCEPT ![p] = "fault"]
    /\ cur' = NoProc /\ pc' = "idle"
    /\ UNCHANGED <<setVars, semVars, undoVars, sig, call, stops,
                   i, after, trail>>

NumsInRange(id, ops) == \A j \in 1 .. Len(ops) : ops[j].num < sema[id[1]].nsems

\* The system call, when its buffer is resident.
Semop(p, id, ops) ==
    /\ Calls(p) /\ Semconv(id) /\ NumsInRange(id, ops)
    /\ stat' = [stat EXCEPT ![p] = "kernel"]
    /\ call' = [call EXCEPT ![p] = [IdleCall EXCEPT
                  !.id = id, !.ops = ops, !.again = TRUE]]
    /\ cur' = p /\ pc' = "loop" /\ i' = 1 /\ trail' = <<Snapshot>>
    /\ UNCHANGED <<setVars, semVars, undoVars, sig, stops, after>>

\* The system call, when copyin has to wait for a page.
SemopFault(p, id, ops) ==
    /\ PageFaults /\ Calls(p) /\ Semconv(id)
    /\ stat' = [stat EXCEPT ![p] = "fault"]
    /\ call' = [call EXCEPT ![p] = [IdleCall EXCEPT !.id = id, !.ops = ops]]
    /\ UNCHANGED <<setVars, semVars, undoVars, sig, stops, execVars>>

\* The page is there.  The numbers are checked only on the first pass.
SemopPageIn(p) ==
    /\ cur = NoProc /\ stat[p] = "fault" /\ call[p].cmd = "semop"
    /\ IF call[p].again \/ NumsInRange(call[p].id, call[p].ops)
       THEN EnterLoop(p)
       ELSE /\ stat' = [stat EXCEPT ![p] = "user"]
            /\ call' = [call EXCEPT ![p] = IdleCall]
            /\ sig' = [sig EXCEPT ![p] = FALSE]
            /\ UNCHANGED <<setVars, semVars, undoVars, stops, execVars>>

\* The undo adjustment of an operation that is being done.
Adjust(op) == IF op.undo THEN SemaoeDone(cur, CurKey(op), op.op)
                         ELSE UNCHANGED undoVars
AdjustFails(op) == op.undo /\ ~SemaoeOK(cur, CurKey(op), op.op)

\* One operation is done: its effect on semval, undo entry and sleepers.
Done(wakes) ==
    /\ semval' = [semval EXCEPT ![CurSem] = @ + CurOp.op]
    /\ Adjust(CurOp)
    /\ cnt' = CntAfter(wakes) /\ stat' = StatAfter(wakes)
    /\ i' = i + 1
    /\ trail' = Append(trail, [val |-> semval', un |-> un'])
    /\ UNCHANGED <<setVars, sig, call, stops, cur, pc, after>>

InLoop == pc = "loop" /\ i <= Len(Ops)

\* Mutants: no test against semvmx; zero is reached and its waiters sleep on.
OpAddNoMax ==
    /\ InLoop /\ CurOp.op > 0 /\ ~AdjustFails(CurOp)
    /\ Done({<<"n", CurSem>>})
OpSubWakesNobody ==
    /\ InLoop /\ CurOp.op < 0
    /\ semval[CurSem] >= -CurOp.op /\ ~AdjustFails(CurOp)
    /\ Done({})

OpAdd ==
    /\ InLoop /\ CurOp.op > 0
    /\ semval[CurSem] + CurOp.op <= semvmx /\ ~AdjustFails(CurOp)
    /\ Done({<<"n", CurSem>>})

OpSub ==
    /\ InLoop /\ CurOp.op < 0
    /\ semval[CurSem] >= -CurOp.op /\ ~AdjustFails(CurOp)
    /\ Done(IF semval[CurSem] + CurOp.op = 0 THEN {<<"z", CurSem>>} ELSE {})

OpZero ==
    /\ InLoop /\ CurOp.op = 0 /\ semval[CurSem] = 0
    /\ i' = i + 1 /\ trail' = Append(trail, Snapshot)
    /\ UNCHANGED <<setVars, semVars, undoVars, procVars, cur, pc, after>>

\* The work done so far is taken back before semop fails or sleeps.
TakeBack(outcome) == pc' = "undo" /\ after' = outcome

\* ERANGE, ENOSPC or EINVAL: the operation cannot be done now or ever.
OpFail ==
    /\ InLoop /\ CurOp.op # 0
    /\ IF CurOp.op > 0
       THEN semval[CurSem] + CurOp.op > semvmx \/ AdjustFails(CurOp)
       ELSE semval[CurSem] >= -CurOp.op /\ AdjustFails(CurOp)
    /\ TakeBack("error")
    /\ UNCHANGED <<setVars, semVars, undoVars, procVars, cur, i, trail>>

\* The operation has to wait: semncnt or semzcnt of its semaphore.
OpBlock ==
    /\ InLoop
    /\ \/ CurOp.op < 0 /\ semval[CurSem] < -CurOp.op
       \/ CurOp.op = 0 /\ semval[CurSem] # 0
    /\ TakeBack(IF CurOp.nowait THEN "error" ELSE "sleep")
    /\ call' = [call EXCEPT
          ![cur].ch = <<IF CurOp.op < 0 THEN "n" ELSE "z", CurSem>>,
          ![cur].need = -CurOp.op - (semval[CurSem] - trail[1].val[CurSem])]
    /\ UNCHANGED <<setVars, semVars, undoVars, stat, sig, stops, cur, i, trail>>

\* Mutant: semundo restores the values and forgets the undo entries.
UndoAdjustForgotten(op) == UNCHANGED undoVars

\* One iteration of semundo, which goes backwards; what semaoe returns is
\* ignored.
UndoAdjust(op) ==
    IF op.undo /\ op.op # 0 /\ SemaoeOK(cur, CurKey(op), -op.op)
    THEN SemaoeDone(cur, CurKey(op), -op.op)
    ELSE UNCHANGED undoVars

UndoStep ==
    /\ pc = "undo" /\ i > 1
    /\ LET op == Ops[i - 1]
       IN  /\ semval' = [semval EXCEPT ![SemOf(call[cur].id[1], op.num)] = @ - op.op]
           /\ UndoAdjust(op)
    /\ i' = i - 1 /\ trail' = Front(trail)
    /\ UNCHANGED <<setVars, cnt, procVars, cur, pc, after>>

\* Nothing is left to undo and the call fails.
UndoneError ==
    /\ pc = "undo" /\ i = 1 /\ after = "error"
    /\ Return(stat) /\ UNCHANGED semVars

\* Nothing is left to undo and the process sleeps.
UndoneSleep ==
    /\ pc = "undo" /\ i = 1 /\ after = "sleep" /\ ~sig[cur]
    /\ cnt' = [cnt EXCEPT ![call[cur].ch] = (@ + 1) % ushort]
    /\ stat' = [stat EXCEPT ![cur] = "asleep"]
    /\ cur' = NoProc /\ pc' = "idle" /\ after' = "error" /\ trail' = <<>>
    /\ UNCHANGED <<setVars, semval, undoVars, sig, call, stops, i>>

\* Mutants: an interrupted sleep stays counted; the last one out wakes nobody.
CntLeftForgotten(c) == c
StatLeftSleeping(ch, c) == stat

\* "if (cnt-- <= 1) { cnt = 0; wakeup(&cnt); }" when the count is c: the
\* last one out wakes the rest.
CntLeft(c) == IF c <= 1 THEN 0 ELSE c - 1
StatLeft(ch, c) == [q \in Proc |->
    IF c <= 1 /\ stat[q] = "asleep" /\ call[q].ch = ch THEN "run" ELSE stat[q]]

\* A signal is pending already: sleep returns 1 at once.
UndoneIntr ==
    LET ch == call[cur].ch
        c == (cnt[ch] + 1) % ushort
    IN  /\ pc = "undo" /\ i = 1 /\ after = "sleep" /\ sig[cur]
        /\ cnt' = [cnt EXCEPT ![ch] = CntLeft(c)]
        /\ Return(StatLeft(ch, c)) /\ UNCHANGED semval

\* All operations succeeded.
Finish ==
    /\ pc = "loop" /\ i > Len(Ops)
    /\ Return(stat) /\ UNCHANGED semVars

-----------------------------------------------------------------------------
(* After the sleep.                                                        *)

\* The dispatcher picks p, which sleep() left to be run again.
Awake(p) == cur = NoProc /\ stat[p] \in {"run", "intr"}

\* sleep returns 1: a signal is pending.
SleepIntr(p) ==
    LET ch == call[p].ch IN
    /\ Awake(p) /\ sig[p]
    /\ cnt' = [cnt EXCEPT ![ch] = CntLeft(@)]
    /\ stat' = [StatLeft(ch, cnt[ch]) EXCEPT ![p] = "user"]
    /\ call' = [call EXCEPT ![p] = IdleCall]
    /\ sig' = [sig EXCEPT ![p] = FALSE]
    /\ UNCHANGED <<setVars, semval, undoVars, stops, execVars>>

\* sleep returns 0 and the set is gone: EIDRM.
SleepRemoved(p) ==
    /\ Awake(p) /\ ~sig[p] /\ ~Semconv(call[p].id)
    /\ stat' = [stat EXCEPT ![p] = "user"]
    /\ call' = [call EXCEPT ![p] = IdleCall]
    /\ UNCHANGED <<setVars, semVars, undoVars, sig, stops, execVars>>

\* sleep returns 0: copy the list in once more and try again from its start.
SleepAgain(p) ==
    /\ Awake(p) /\ ~sig[p] /\ Semconv(call[p].id)
    /\ EnterLoop(p) \/ (PageFaults /\ EnterFault(p))

-----------------------------------------------------------------------------
(* Signals, exit and fork.                                                 *)

\* psignal, from a process or an interrupt: a sleeper is set running.
Signal(p) ==
    /\ stat[p] \in {"fault", "kernel", "asleep", "run", "intr"} /\ ~sig[p]
    /\ sig' = [sig EXCEPT ![p] = TRUE]
    /\ stat' = [stat EXCEPT ![p] = IF @ = "asleep" THEN "intr" ELSE @]
    /\ UNCHANGED <<setVars, semVars, undoVars, call, stops, execVars>>

\* A job-control stop and its SIGCONT: setrun takes the sleeper off the
\* queue, issig stops it and then finds no signal, so sleep returns 0.
StopCont(p) ==
    /\ stat[p] = "asleep" /\ stops < MaxStops
    /\ stat' = [stat EXCEPT ![p] = "intr"]
    /\ stops' = stops + 1
    /\ UNCHANGED <<setVars, semVars, undoVars, sig, call, execVars>>

\* What semexit adds to semaphore s for the structure u: the entries of
\* sets that no longer exist are skipped.
AoeOn(u, s) == {k \in Key : /\ un[u][k] # 0 /\ Semconv(<<k[1], k[2]>>)
                            /\ SemOf(k[1], k[3]) = s}
Restored(u, s) == LET ks == AoeOn(u, s)
                  IN  IF ks = {} THEN semval[s]
                      ELSE semval[s] + un[u][CHOOSE k \in ks : TRUE]
InSemRange(v) == 0 <= v /\ v <= semvmx

\* semexit: the adjustments that keep the value in range are made.  The
\* structure goes to the free chain and, as in the code, the slot of
\* sem_undo keeps pointing to it.
Semexit(p) ==
    LET u == sem_undo[p]
        hit == {s \in Sems : AoeOn(u, s) # {} /\ InSemRange(Restored(u, s))}
        wakes == {<<"z", s>> : s \in {t \in hit : Restored(u, t) = 0}}
                 \cup {<<"n", s>> : s \in {t \in hit : Restored(u, t) > semval[t]}}
    IN  /\ semval' = [s \in Sems |-> IF s \in hit THEN Restored(u, s) ELSE semval[s]]
        /\ cnt' = CntAfter(wakes)
        /\ stat' = [StatAfter(wakes) EXCEPT ![p] = "none"]
        /\ un' = [un EXCEPT ![u] = NoEntries]
        /\ semfup' = <<u>> \o semfup

Exit(p) ==
    /\ Calls(p) /\ \E q \in Proc \ {p} : stat[q] # "none"
    /\ IF sem_undo[p] = NoUndo
       THEN /\ stat' = [stat EXCEPT ![p] = "none"]
            /\ UNCHANGED <<semVars, un, semfup>>
       ELSE Semexit(p)
    /\ UNCHANGED <<setVars, sem_undo, sig, call, stops, execVars>>

\* fork gives the child the slot p; nothing resets sem_undo[p].
Fork(p) ==
    /\ stat[p] = "none" /\ \E q \in Proc : Calls(q)
    /\ SlotReuse \/ sem_undo[p] = NoUndo
    /\ stat' = [stat EXCEPT ![p] = "user"]
    /\ UNCHANGED <<setVars, semVars, undoVars, sig, call, stops, execVars>>

-----------------------------------------------------------------------------
\* What the process in the kernel does next.
Step == \/ OpAdd \/ OpSub \/ OpZero \/ OpFail \/ OpBlock
        \/ UndoStep \/ UndoneError \/ UndoneSleep \/ UndoneIntr \/ Finish

Resume(p) == SleepIntr(p) \/ SleepRemoved(p) \/ SleepAgain(p)

PageIn(p) == SetAllPageIn(p) \/ SemopPageIn(p)

Syscall(p) ==
    \/ \E n \in 1 .. semmsl : Semget(p, n)
    \/ \E id \in Id : Rmid(p, id)
    \/ \E id \in Id, num \in Nums, v \in 0 .. semvmx : SetVal(p, id, num, v)
    \/ \E id \in Id, vals \in SetVals : SetAll(p, id, vals) \/ SetAllFault(p, id, vals)
    \/ \E id \in Id, ops \in OpLists : Semop(p, id, ops) \/ SemopFault(p, id, ops)
    \/ Exit(p)

Next == \/ Step
        \/ \E p \in Proc : Syscall(p) \/ Resume(p) \/ PageIn(p)
                           \/ Signal(p) \/ StopCont(p) \/ Fork(p)

\* The process in the kernel runs on; every runnable process is dispatched
\* again and again (disp/ts.c ages those that wait), also when others keep
\* the kernel busy.
Fairness == WF_vars(Step) /\ \A p \in Proc : SF_vars(Resume(p)) /\ SF_vars(PageIn(p))

Spec == Init /\ [][Next]_vars
FairSpec == Spec /\ Fairness
-----------------------------------------------------------------------------
(* Properties.                                                             *)

\* The shape of every variable, by the groups of variables above, and the
\* ranges of the values and the counts.
SetsType ==
    /\ sema \in [Slots -> [alloc : BOOLEAN, seq : 0 .. MaxSeq,
                           nsems : 0 .. semmsl, base : Sems]]
    /\ semmap \subseteq Sems
SemsType ==
    /\ semval \in [Sems -> 0 .. semvmx]
    /\ cnt \in [Chan -> 0 .. ushort - 1]
UndoType ==
    /\ un \in [Undo -> [Key -> Int]]
    /\ sem_undo \in [Proc -> Undo \cup {NoUndo}]
    /\ semfup \in Seq(Undo)
Call == [cmd : {"semop", "setall"}, id : Id, ops : OpLists \cup {<<>>},
         vals : [Nums -> 0 .. semvmx], again : BOOLEAN, ch : Chan, need : Int]
ProcType ==
    /\ stat \in [Proc -> Stat]
    /\ sig \in [Proc -> BOOLEAN]
    /\ call \in [Proc -> Call]
    /\ stops \in 0 .. MaxStops
ExecType ==
    /\ cur \in Proc \cup {NoProc}
    /\ pc \in {"idle", "loop", "undo"}
    /\ i \in Nat \ {0}
    /\ after \in {"error", "sleep"}
    /\ trail \in Seq([val : [Sems -> 0 .. semvmx], un : [Undo -> [Key -> Int]]])
TypeOK == SetsType /\ SemsType /\ UndoType /\ ProcType /\ ExecType

\* No wakeup is lost: while a process sleeps in semop its count is not zero,
\* so that whoever changes the semaphore knows to wake it, and the value is
\* still one its operation has to wait for - also in the middle of somebody
\* else's list, and after semundo has taken that list back (sem.c:667-704).
NoLostWakeup ==
    \A p \in Proc : stat[p] = "asleep" =>
        /\ cnt[call[p].ch] > 0
        /\ IF call[p].ch[1] = "n" THEN semval[call[p].ch[2]] < call[p].need
                              ELSE semval[call[p].ch[2]] # 0

\* What semop means for a list: every operation finds, after the ones before
\* it, a value it does not have to wait for.
Before(id, ops, j) ==
    semval[SemOf(id[1], ops[j].num)]
    + MapThenSumSet(LAMBDA k : ops[k].op, {k \in 1 .. j - 1 : ops[k].num = ops[j].num})
Satisfiable(id, ops) ==
    \A j \in 1 .. Len(ops) :
        /\ ops[j].op < 0 => Before(id, ops, j) >= -ops[j].op
        /\ ops[j].op = 0 => Before(id, ops, j) = 0

\* "Loop waiting for the operations to be satisfied atomically" (sem.c:637):
\* when the kernel is idle, no process sleeps in semop although the whole of
\* its list could be done.
SleeperBlocked ==
    cur = NoProc => \A p \in Proc : stat[p] = "asleep" =>
                        ~Satisfiable(call[p].id, call[p].ops)

\* A semop that fails or sleeps leaves no trace: when semundo is through,
\* every semaphore and every undo entry is as it was before the first
\* operation, although semundo ignores what semaoe returns (sem.c:228-245).
SemundoExact ==
    pc = "undo" /\ i = 1 => semval = trail[1].val /\ un = trail[1].un

\* "Verify that the semaphores haven't been removed" (sem.c:644): a process
\* sleeps only on a semaphore of the set its id names, and that set exists.
NoOrphanSleeper ==
    \A p \in Proc : stat[p] = "asleep" =>
        Semconv(call[p].id) /\ call[p].ch[2] \in SemsOf(call[p].id[1])

\* Free semaphores are as semget expects them, which does not clear them: no
\* value, nobody counted as waiting (sem.c:295-305, 560).
FreeSemsClean ==
    \A s \in semmap : semval[s] = 0 /\ cnt[<<"n", s>>] = 0 /\ cnt[<<"z", s>>] = 0

\* Sets never share a semaphore, with each other or with the free map.
SetsDisjoint ==
    \A t \in Slots : sema[t].alloc =>
        /\ SemsOf(t) \subseteq Sems \ semmap
        /\ \A t2 \in Slots \ {t} : sema[t2].alloc => SemsOf(t) \cap SemsOf(t2) = {}

\* "There is one undo structure per process" (sys/sem.h:145): the structure
\* of a live process is nobody else's and not on the free chain, and only the
\* structures of live processes hold entries.
UndoExclusive ==
    /\ \A p \in Proc : stat[p] # "none" /\ sem_undo[p] # NoUndo =>
         /\ \A j \in DOMAIN semfup : semfup[j] # sem_undo[p]
         /\ \A q \in Proc \ {p} : stat[q] # "none" => sem_undo[q] # sem_undo[p]
    /\ \A u \in Undo : UnCnt(u) > 0 => \E p \in Proc : stat[p] # "none" /\ sem_undo[p] = u

\* Removing a set leaves no undo entry behind that a later process could
\* trip over (semunrm, sem.c:294): entries name semaphores of existing sets.
UndoEntriesLive ==
    \A u \in Undo, k \in Key : un[u][k] # 0 =>
        Semconv(<<k[1], k[2]>>) /\ k[3] < sema[k[1]].nsems

\* The counts stay far below the width of a ushort: they never exceed the
\* processes that wait by more than the number of job-control stops.
Waiting(ch) == {p \in Proc : stat[p] \in {"asleep", "intr"} /\ call[p].ch = ch}
CountBound == \A ch \in Chan : cnt[ch] <= Cardinality(Waiting(ch)) + stops

\* A semop on a set that has been removed returns (EIDRM, or EINTR), however
\* deep in sleep the process was when the set went away.
RemovedSetReleases ==
    \A p \in Proc : (stat[p] # "user" /\ ~Semconv(call[p].id)) ~> (stat[p] \in {"user", "none"})
=============================================================================
