------------------------------ MODULE SemProof ------------------------------
(***************************************************************************)
(* Theorems about Sem, for any number of processes, sets and semaphores.   *)
(*                                                                         *)
(* copyin may have to wait for a page, with one interleaving left out: a   *)
(* set is removed while a process waits so, and the process goes on with   *)
(* it (NoneStraddles).  With that one, free semaphores are stored into,    *)
(* removed sets get entries and sleepers, and the theorems do not hold.    *)
(*                                                                         *)
(* That no wakeup is lost is not inductive: while a process works through  *)
(* its list, the values it stores are not final, and semundo takes them    *)
(* back without waking anybody.  The invariant therefore keeps a trail of  *)
(* the values the list went through and says of every sleeper that it has  *)
(* to wait at each of them (Sleepers), of the list that each value follows *)
(* from the one before (TrailOK), and of the process that is about to      *)
(* sleep that it will find the value it decided to wait on (AboutToSleep). *)
(*                                                                         *)
(* What IPC_RMID and semundo must not leave behind needs a second one,     *)
(* Clean, on top of it.  That a list is taken back exactly depends on what *)
(* semaoe answers, and semundo does not look: the trail therefore also     *)
(* holds the undo structures (Trailed), and every structure stays within   *)
(* semume and semaem (Bounded), so that an adjustment can be reversed.     *)
(* Owned, a third, follows the undo structures from the free chain to      *)
(* their processes and back.                                               *)
(***************************************************************************)
EXTENDS Sem, TLAPS, FiniteSetTheorems, SequenceTheorems

-----------------------------------------------------------------------------
(* What the theorems assume of the constants.                              *)

\* The list never waits for zero on a semaphore it has changed before: the
\* wakeup semop relies on is not the right one for such a list.
ZeroFirst ==
    \A ops \in OpLists : \A j \in 1 .. Len(ops) : ops[j].op = 0 =>
        \A k \in 1 .. j - 1 : ops[k].num = ops[j].num => ops[k].op = 0

\* And the counts cannot reach the width of a ushort.
Premises ==
    /\ ZeroFirst
    /\ IsFiniteSet(Proc)
    /\ Cardinality(Proc) + MaxStops < ushort

\* A condition on steps, not on constants: nobody comes back from copyin and
\* goes on with a set that was removed in the meantime.  semop and SETALL
\* do not look whether it was: semconv comes before the copyin (sem.c:618 and
\* :622, :645 and :648, :282 and :458).
NoneStraddles ==
    \A p \in Proc :
        /\ stat[p] = "fault" /\ stat'[p] # "fault"
        /\ call[p].cmd = "setall" \/ cur' = p
        => Semconv(call[p].id)

-----------------------------------------------------------------------------
(* The inductive invariant.                                                *)

\* Allocated sets lie inside sem[].
Layout == \A t \in Slots : sema[t].alloc => sema[t].base + sema[t].nsems <= semmns

\* The process is inside semop or SETALL.
Pending(p) == stat[p] \in {"fault", "kernel", "asleep", "run", "intr"}

\* A pending call names a set that exists or is gone for good, and the
\* numbers that semop has checked are in the range of the set.
CallsOK ==
    \A p \in Proc : Pending(p) =>
        LET t == call[p].id[1] IN
        /\ stat[p] # "fault" => call[p].cmd = "semop" /\ call[p].again
        /\ call[p].cmd = "semop" => call[p].ops \in OpLists
        /\ call[p].id[2] <= sema[t].seq
        /\ ~sema[t].alloc => call[p].id[2] < sema[t].seq
        /\ Semconv(call[p].id) /\ call[p].again => NumsInRange(call[p].id, call[p].ops)

\* One process at a time executes in the kernel, in a call on a set that exists.
KernelOK ==
    /\ \A p \in Proc : stat[p] = "kernel" <=> p = cur
    /\ cur = NoProc => pc = "idle" /\ trail = <<>>
    /\ cur # NoProc => pc # "idle" /\ Semconv(call[cur].id)

\* The operations before the j-th leave the semaphore s as it was.
Untouched(j, s) ==
    \A k \in 1 .. j - 1 : SemOf(call[cur].id[1], Ops[k].num) = s => Ops[k].op = 0

\* The trail holds the values before and after each operation done.
TrailOK ==
    cur # NoProc =>
        /\ i <= Len(Ops) + 1
        /\ Len(trail) = i
        /\ trail[i].val = semval
        /\ \A j \in 1 .. i - 1 :
             trail[j + 1].val = [trail[j].val EXCEPT
                 ![SemOf(call[cur].id[1], Ops[j].num)] = @ + Ops[j].op]
        /\ \A j \in 1 .. i, s \in Sems :
             Untouched(j, s) => trail[j].val[s] = trail[1].val[s]

\* With the value v its semaphore has, p has to sleep on.
Waits(p, v) == IF call[p].ch[1] = "n" THEN v < call[p].need ELSE v # 0

\* A process that is about to sleep will find that value, and one that
\* sleeps would find it whatever part of the current list is taken back.
AboutToSleep ==
    pc = "undo" /\ after = "sleep" => Waits(cur, trail[1].val[call[cur].ch[2]])
Sleepers ==
    \A p \in Proc : stat[p] = "asleep" =>
        /\ cnt[call[p].ch] > 0
        /\ Waits(p, semval[call[p].ch[2]])
        /\ \A j \in 1 .. Len(trail) : Waits(p, trail[j].val[call[p].ch[2]])

\* The processes whose sleep the count still has to count.
Counted(ch) == {p \in Proc : /\ call[p].ch = ch
                             /\ stat[p] = "asleep" \/ (stat[p] = "intr" /\ sig[p])}
CountsOK == \A ch \in Chan : cnt[ch] <= Cardinality(Counted(ch)) + stops

IInv == /\ TypeOK /\ Layout /\ CallsOK /\ KernelOK
        /\ TrailOK /\ AboutToSleep /\ Sleepers /\ CountsOK

-----------------------------------------------------------------------------

\* The invariant holds when the system comes up (seminit).
LEMMA InitInv == ASSUME Premises, Init PROVE IInv
<1> USE SizesAssumption, ProcAssumption
<1>1. SetsType
  BY DEF Init, SetsType, Slots, Sems
<1>2. SemsType
  BY DEF Init, SemsType, Sems, Chan
<1>3. UndoType
  BY DEF Init, UndoType, Undo, Key, NoEntries, NoUndo
<1>4. ProcType
  BY DEF Init, ProcType, Stat, IdleCall, Call, Id, Nums, Slots, Chan, Sems
<1>5. ExecType
  BY DEF Init, ExecType
<1>6. Layout /\ CallsOK /\ KernelOK /\ TrailOK /\ AboutToSleep /\ Sleepers
  BY DEF Init, Layout, CallsOK, Pending, KernelOK, TrailOK, AboutToSleep, Sleepers
<1>7. CountsOK
  <2>1. ASSUME NEW ch \in Chan PROVE Counted(ch) = {}
    BY DEF Init, Counted
  <2>2. ASSUME NEW ch \in Chan PROVE Cardinality(Counted(ch)) = 0
    BY <2>1, FS_EmptySet
  <2>3. ASSUME NEW ch \in Chan PROVE cnt[ch] = 0 /\ stops = 0
    BY DEF Init
  <2> QED BY <2>2, <2>3 DEF CountsOK
<1> QED BY <1>1, <1>2, <1>3, <1>4, <1>5, <1>6, <1>7 DEF IInv, TypeOK

-----------------------------------------------------------------------------
(* Facts the actions share.                                                *)

\* Waking leaves the types alone, and whoever is still asleep afterwards was
\* asleep before, on a channel that was not woken and keeps its count.
LEMMA WakeType ==
    ASSUME SemsType, ProcType, NEW C
    PROVE  /\ CntAfter(C) \in [Chan -> 0 .. ushort - 1]
           /\ StatAfter(C) \in [Proc -> Stat]
BY SizesAssumption DEF SemsType, ProcType, CntAfter, StatAfter, Awaited, Stat

\* Whoever sleeps after a wakeup slept before it, on a channel it left alone.
LEMMA StillAsleep ==
    ASSUME SemsType, ProcType, Sleepers, NEW C \in SUBSET Chan, NEW q \in Proc,
           StatAfter(C)[q] = "asleep"
    PROVE  /\ stat[q] = "asleep"
           /\ call[q].ch \notin C
           /\ CntAfter(C)[call[q].ch] = cnt[call[q].ch]
<1>1. stat[q] = "asleep" /\ call[q].ch \notin Awaited(C)
  BY DEF StatAfter
<1>2. call[q].ch \in Chan /\ cnt[call[q].ch] > 0
  BY <1>1 DEF Sleepers, ProcType, Call
<1> QED BY <1>1, <1>2 DEF Awaited, CntAfter

\* Storing, in any action: the sleepers that are not woken still have to wait,
\* if no semaphore rose but those whose semncnt was woken and none became zero
\* but those whose semzcnt was.
LEMMA WakeSleepers ==
    ASSUME SemsType, ProcType, Sleepers, NEW C \in SUBSET Chan, cnt' = CntAfter(C),
           SemsType',
           \A q \in Proc : stat'[q] = "asleep" =>
               StatAfter(C)[q] = "asleep" /\ call'[q] = call[q],
           \A s \in Sems :
               /\ <<"n", s>> \notin C => semval'[s] <= semval[s]
               /\ <<"z", s>> \notin C => semval'[s] # 0 \/ semval'[s] = semval[s],
           \A j \in 1 .. Len(trail') :
               (j \in 1 .. Len(trail) /\ trail'[j] = trail[j]) \/ trail'[j].val = semval'
    PROVE  Sleepers'
<1> SUFFICES ASSUME NEW q \in Proc, stat'[q] = "asleep"
             PROVE  /\ cnt'[call'[q].ch] > 0
                    /\ Waits(q, semval[call[q].ch[2]])'
                    /\ \A j \in 1 .. Len(trail') : Waits(q, trail[j].val[call[q].ch[2]])'
  BY DEF Sleepers
<1>1. /\ stat[q] = "asleep" /\ call'[q] = call[q] /\ call[q].ch \notin C
      /\ cnt'[call[q].ch] = cnt[call[q].ch]
  BY StillAsleep
<1>2. /\ cnt[call[q].ch] > 0
      /\ Waits(q, semval[call[q].ch[2]])
      /\ \A j \in 1 .. Len(trail) : Waits(q, trail[j].val[call[q].ch[2]])
  BY <1>1 DEF Sleepers
<1>3. /\ call[q].ch \in Chan /\ call[q].need \in Int /\ call[q].ch[2] \in Sems
      /\ call[q].ch = <<call[q].ch[1], call[q].ch[2]>> /\ call[q].ch[1] \in {"n", "z"}
  BY DEF ProcType, Call, Chan
<1>4. Waits(q, semval[call[q].ch[2]])'
  <2>1. semval[call[q].ch[2]] \in Int /\ semval'[call[q].ch[2]] \in Int
    BY <1>3, SizesAssumption DEF SemsType
  <2>2. CASE call[q].ch[1] = "n"
    <3>1. <<"n", call[q].ch[2]>> \notin C
      BY <2>2, <1>1, <1>3
    <3>2. semval'[call[q].ch[2]] <= semval[call[q].ch[2]]
      BY <3>1, <1>3
    <3>3. semval[call[q].ch[2]] < call[q].need
      BY <2>2, <1>2 DEF Waits
    <3>4. semval'[call[q].ch[2]] < call'[q].need
      BY <3>2, <3>3, <2>1, <1>1, <1>3
    <3> QED BY <3>4, <2>2, <1>1 DEF Waits
  <2>3. CASE call[q].ch[1] = "z"
    <3>1. <<"z", call[q].ch[2]>> \notin C
      BY <2>3, <1>1, <1>3
    <3>2. semval[call[q].ch[2]] # 0
      BY <2>3, <1>2 DEF Waits
    <3>3. \/ semval'[call[q].ch[2]] # 0
          \/ semval'[call[q].ch[2]] = semval[call[q].ch[2]]
      BY <3>1, <1>3
    <3>4. semval'[call[q].ch[2]] # 0
      BY <3>2, <3>3
    <3> QED BY <3>4, <2>3, <1>1 DEF Waits
  <2> QED BY <2>2, <2>3, <1>3
<1>5. ASSUME NEW j \in 1 .. Len(trail') PROVE Waits(q, trail[j].val[call[q].ch[2]])'
  <2>1. CASE j \in 1 .. Len(trail) /\ trail'[j] = trail[j]
    BY <2>1, <1>1, <1>2 DEF Waits
  <2>2. CASE trail'[j].val = semval'
    BY <2>2, <1>4, <1>1 DEF Waits
  <2> QED BY <2>1, <2>2
<1> QED BY <1>1, <1>2, <1>4, <1>5

\* The counts, when no count rises and no counted process leaves a channel
\* whose count is kept.
LEMMA CountsKept ==
    ASSUME SemsType, ProcType, CountsOK, IsFiniteSet(Proc), SemsType', stops' = stops,
           \A ch \in Chan : \/ cnt'[ch] = 0
                            \/ cnt'[ch] <= cnt[ch] /\ Counted(ch) \subseteq Counted(ch)'
    PROVE  CountsOK'
<1> SUFFICES ASSUME NEW ch \in Chan PROVE cnt'[ch] <= Cardinality(Counted(ch)') + stops'
  BY DEF CountsOK
<1>1. /\ IsFiniteSet(Counted(ch)) /\ IsFiniteSet(Counted(ch)')
      /\ Cardinality(Counted(ch)) \in Nat /\ Cardinality(Counted(ch)') \in Nat
  <2>1. Counted(ch) \subseteq Proc /\ Counted(ch)' \subseteq Proc
    BY DEF Counted
  <2> QED BY <2>1, FS_Subset, FS_CardinalityType
<1>2. cnt[ch] \in Nat /\ cnt'[ch] \in Nat /\ stops \in Nat
  BY SizesAssumption DEF SemsType, ProcType
<1>3. CASE cnt'[ch] = 0
  BY <1>1, <1>2, <1>3
<1>4. CASE cnt'[ch] <= cnt[ch] /\ Counted(ch) \subseteq Counted(ch)'
  <2>1. Cardinality(Counted(ch)) <= Cardinality(Counted(ch)')
    BY <1>1, <1>4, FS_Subset
  <2>2. cnt[ch] <= Cardinality(Counted(ch)) + stops
    BY DEF CountsOK
  <2> QED BY <1>1, <1>2, <1>4, <2>1, <2>2
<1> QED BY <1>3, <1>4

\* Waking keeps the bound on the counts: a count that is not zeroed keeps its
\* processes.
LEMMA WakeCounts ==
    ASSUME SemsType, ProcType, CountsOK, IsFiniteSet(Proc), SemsType',
           NEW C \in SUBSET Chan, cnt' = CntAfter(C), stops' = stops,
           \A q \in Proc : stat[q] \in {"asleep", "intr"} =>
               stat'[q] = StatAfter(C)[q] /\ sig'[q] = sig[q] /\ call'[q] = call[q]
    PROVE  CountsOK'
<1>1. ASSUME NEW ch \in Chan
      PROVE  \/ cnt'[ch] = 0
             \/ cnt'[ch] <= cnt[ch] /\ Counted(ch) \subseteq Counted(ch)'
  <2>1. CASE ch \in Awaited(C)
    BY <2>1 DEF CntAfter
  <2>2. CASE ch \notin Awaited(C)
    <3>1. cnt'[ch] = cnt[ch] /\ cnt[ch] \in Int
      BY <2>2, SizesAssumption DEF CntAfter, SemsType
    <3>2. Counted(ch) \subseteq Counted(ch)'
      BY <2>2 DEF Counted, StatAfter
    <3> QED BY <3>1, <3>2
  <2> QED BY <2>1, <2>2
<1> QED BY <1>1, CountsKept

\* The calls that are pending, while no set comes or goes.
LEMMA CallsKept ==
    ASSUME CallsOK, UNCHANGED sema,
           \A q \in Proc : Pending(q)' =>
               /\ Pending(q) /\ (stat[q] = "fault" => stat'[q] = "fault")
               /\ call'[q].cmd = call[q].cmd /\ call'[q].id = call[q].id
               /\ call'[q].ops = call[q].ops /\ call'[q].again = call[q].again
    PROVE  CallsOK'
BY DEF CallsOK, Semconv, NumsInRange

\* The kernel stays idle.
LEMMA IdleKept ==
    ASSUME KernelOK, cur = NoProc, UNCHANGED execVars, \A q \in Proc : stat'[q] # "kernel"
    PROVE  KernelOK' /\ TrailOK' /\ AboutToSleep' /\ pc = "idle" /\ trail = <<>>
BY ProcAssumption DEF KernelOK, TrailOK, AboutToSleep, execVars

\* What StatAfter leaves of a status.
LEMMA StatKinds ==
    ASSUME ProcType, NEW C, NEW q \in Proc
    PROVE  /\ StatAfter(C)[q] = stat[q] \/ (stat[q] = "asleep" /\ StatAfter(C)[q] = "run")
           /\ stat[q] # "asleep" => StatAfter(C)[q] = stat[q]
BY DEF StatAfter

\* semunrm keeps the shape of the undo structures.
LEMMA SemunrmType ==
    ASSUME UndoType, NEW id, NEW nums, Semunrm(id, nums), UNCHANGED <<sem_undo, semfup>>
    PROVE  UndoType'
BY DEF UndoType, Semunrm

\* The semaphores of a set that exists.
LEMMA SemInRange ==
    ASSUME SetsType, Layout, NEW t \in Slots, sema[t].alloc,
           NEW n \in Nat, n < sema[t].nsems
    PROVE  SemOf(t, n) \in Sems
BY SizesAssumption DEF SetsType, Layout, Sems, SemOf

\* The semaphores of a set that exists lie in sem[].
LEMMA SetInRange ==
    ASSUME SetsType, Layout, NEW t \in Slots, sema[t].alloc
    PROVE  SemsOf(t) \subseteq Sems
BY SizesAssumption DEF SetsType, Layout, Sems, SemsOf, Units

\* The cleared call record has the type of a call.
LEMMA IdleCallType == IdleCall \in Call
BY SizesAssumption DEF IdleCall, Call, Id, Slots, Nums, Chan, Sems

\* What the process in the kernel works on.
LEMMA InKernel ==
    ASSUME IInv, cur # NoProc
    PROVE  /\ cur \in Proc /\ stat[cur] = "kernel"
           /\ call[cur].id \in Id /\ call[cur].id[1] \in Slots
           /\ sema[call[cur].id[1]].alloc
           /\ Ops \in Seq(SemOp)
           /\ \A j \in 1 .. Len(Ops) :
                Ops[j] \in SemOp /\ SemOf(call[cur].id[1], Ops[j].num) \in Sems
<1>1. cur \in Proc /\ stat[cur] = "kernel" /\ Semconv(call[cur].id)
  BY DEF IInv, TypeOK, ExecType, KernelOK
<1>2. call[cur].id \in Id /\ call[cur].id[1] \in Slots
  BY <1>1 DEF IInv, TypeOK, ProcType, Call, Id
<1>3. sema[call[cur].id[1]].alloc
  BY <1>1 DEF Semconv
<1>4. Ops \in Seq(SemOp) /\ NumsInRange(call[cur].id, Ops)
  BY <1>1, InputAssumption DEF IInv, CallsOK, Pending, Ops
<1>5. ASSUME NEW j \in 1 .. Len(Ops)
      PROVE  Ops[j] \in SemOp /\ SemOf(call[cur].id[1], Ops[j].num) \in Sems
  <2>1. Ops[j] \in SemOp
    BY <1>4
  <2>2. Ops[j].num \in Nat
    BY <2>1, SizesAssumption DEF SemOp, Nums
  <2>3. Ops[j].num < sema[call[cur].id[1]].nsems
    BY <1>4 DEF NumsInRange
  <2> QED BY <2>1, <2>2, <2>3, <1>2, <1>3, SemInRange DEF IInv, TypeOK
<1> QED BY <1>1, <1>2, <1>3, <1>4, <1>5

-----------------------------------------------------------------------------
(* semget and semctl.                                                      *)

\* semget preserves the invariant.
LEMMA SemgetInv ==
    ASSUME Premises, IInv, NEW p \in Proc, NEW n \in 1 .. semmsl, Semget(p, n)
    PROVE  IInv'
<1> PICK t \in Slots, a \in semmap :
      /\ ~sema[t].alloc
      /\ FirstFit(semmap, n, a)
      /\ sema' = [sema EXCEPT ![t].alloc = TRUE, ![t].nsems = n, ![t].base = a]
      /\ semmap' = semmap \ Units(a, n)
  BY DEF Semget
<1>u. UNCHANGED <<semVars, undoVars, procVars, execVars>> BY DEF Semget
<1>c. cur = NoProc BY DEF Semget, Calls
<1>s. SetsType /\ a \in Sems /\ n \in 0 .. semmsl
  BY SizesAssumption DEF IInv, TypeOK, SetsType
<1>1. SetsType'
  BY <1>s, ZenonT(60) DEF SetsType
<1>2. TypeOK'
  BY <1>1, <1>u DEF IInv, TypeOK, SemsType, UndoType, ProcType, ExecType,
                    semVars, undoVars, procVars, execVars
<1>3. Layout'
  <2>1. a \in Int /\ n \in Int /\ n >= 1 /\ Units(a, n) \subseteq Sems
    BY <1>s, SizesAssumption DEF FirstFit, Fits, SetsType, Sems
  <2>2. a + n <= semmns
    BY <2>1, SizesAssumption DEF Units, Sems
  <2> SUFFICES ASSUME NEW t2 \in Slots, sema'[t2].alloc
               PROVE  sema'[t2].base + sema'[t2].nsems <= semmns
    BY DEF Layout
  <2>3. CASE t2 = t
    BY <2>2, <2>3, <1>s DEF SetsType
  <2>4. CASE t2 # t
    BY <2>4, <1>s DEF SetsType, IInv, Layout
  <2> QED BY <2>3, <2>4
<1>4. CallsOK'
  <2> SUFFICES ASSUME NEW q \in Proc, Pending(q) PROVE
            LET t2 == call[q].id[1] IN
            /\ stat[q] # "fault" => call[q].cmd = "semop" /\ call[q].again
            /\ call[q].cmd = "semop" => call[q].ops \in OpLists
            /\ call[q].id[2] <= sema'[t2].seq
            /\ ~sema'[t2].alloc => call[q].id[2] < sema'[t2].seq
            /\ Semconv(call[q].id)' /\ call[q].again =>
                 NumsInRange(call[q].id, call[q].ops)'
    BY <1>u DEF CallsOK, procVars, Pending
  <2>1. call[q].id[1] \in Slots /\ call[q].id[2] \in Nat
    BY DEF IInv, TypeOK, ProcType, Call, Id
  <2>2. PICK r \in Slots : r = call[q].id[1]
    BY <2>1
  <2>3. /\ stat[q] # "fault" => call[q].cmd = "semop" /\ call[q].again
        /\ call[q].cmd = "semop" => call[q].ops \in OpLists
        /\ call[q].id[2] <= sema[r].seq
        /\ ~sema[r].alloc => call[q].id[2] < sema[r].seq
        /\ Semconv(call[q].id) /\ call[q].again => NumsInRange(call[q].id, call[q].ops)
    BY <2>2 DEF IInv, CallsOK
  <2>4. CASE r = t
    <3>1. sema'[r].alloc /\ sema'[r].seq = sema[r].seq
      BY <1>s, <2>4 DEF SetsType
    <3>2. call[q].id[2] < sema[r].seq /\ sema[r].seq \in Int
      BY <1>s, <2>3, <2>4, SizesAssumption DEF SetsType
    <3>3. call'[q] = call[q]
      BY <1>u DEF procVars
    <3>4. ~Semconv(call[q].id)'
      <4>1. sema'[r].seq # call[q].id[2]
        BY <2>1, <3>1, <3>2
      <4> QED BY <2>2, <3>3, <4>1 DEF Semconv
    <3> QED BY <2>2, <2>3, <3>1, <3>4
  <2>5. CASE r # t
    <3>1. sema'[r] = sema[r] /\ call'[q] = call[q]
      BY <1>s, <1>u, <2>5 DEF SetsType, procVars
    <3> QED BY <2>2, <2>3, <3>1 DEF Semconv, NumsInRange
  <2> QED BY <2>4, <2>5
<1>5. KernelOK' /\ TrailOK' /\ AboutToSleep'
  BY <1>u, <1>c DEF IInv, KernelOK, TrailOK, AboutToSleep, procVars, execVars
<1>6. Sleepers' /\ CountsOK'
  BY <1>u DEF IInv, Sleepers, CountsOK, Counted, Waits, procVars, execVars, semVars
<1> QED BY <1>2, <1>3, <1>4, <1>5, <1>6 DEF IInv

\* SETVAL preserves the invariant.
LEMMA SetValInv ==
    ASSUME Premises, IInv, NEW p \in Proc, NEW id \in Id, NEW num \in Nums,
           NEW v \in 0 .. semvmx, SetVal(p, id, num, v)
    PROVE  IInv'
<1> DEFINE s == SemOf(id[1], num)
           C == {SetWakes(s, v)}
<1>1. /\ stat[p] = "user" /\ cur = NoProc /\ Semconv(id) /\ num < sema[id[1]].nsems
      /\ semval' = [semval EXCEPT ![s] = v]
      /\ cnt' = CntAfter(C) /\ stat' = StatAfter(C)
      /\ Semunrm(id, {num})
      /\ UNCHANGED <<setVars, sem_undo, semfup, sig, call, stops, execVars>>
  BY DEF SetVal, Calls
<1>2. SetsType /\ SemsType /\ UndoType /\ ProcType /\ ExecType /\ Layout /\ CallsOK
      /\ KernelOK /\ Sleepers /\ CountsOK
  BY DEF IInv, TypeOK
<1>3. s \in Sems /\ C \in SUBSET Chan
  <2>1. id[1] \in Slots /\ sema[id[1]].alloc /\ num \in Nat
    BY <1>1, SizesAssumption DEF Id, Semconv, Nums
  <2>2. s \in Sems
    BY <2>1, <1>1, <1>2, SemInRange
  <2> QED BY <2>2 DEF SetWakes, Chan
<1>4. SemsType' /\ stat' \in [Proc -> Stat]
  BY <1>1, <1>2, <1>3, WakeType DEF SemsType
<1>5. TypeOK' /\ Layout'
  BY <1>1, <1>2, <1>4, SemunrmType
     DEF TypeOK, SetsType, ProcType, ExecType, setVars, execVars, Layout
<1>6. Sleepers'
  <2>1. trail' = <<>>
    BY <1>1, <1>2, IdleKept, StatKinds DEF KernelOK, execVars
  <2>2. ASSUME NEW r \in Sems
        PROVE  /\ <<"n", r>> \notin C => semval'[r] <= semval[r]
               /\ <<"z", r>> \notin C => semval'[r] # 0 \/ semval'[r] = semval[r]
    <3>1. semval[r] \in Int /\ semval[r] >= 0
      BY <1>2, SizesAssumption DEF SemsType
    <3>2. CASE r = s
      BY <1>1, <1>2, <3>1, <3>2 DEF SetWakes, SemsType
    <3>3. CASE r # s
      BY <1>1, <1>2, <3>1, <3>3 DEF SemsType
    <3> QED BY <3>2, <3>3
  <2>3. \A q \in Proc : stat'[q] = "asleep" =>
           StatAfter(C)[q] = "asleep" /\ call'[q] = call[q]
    BY <1>1
  <2>4. \A j \in 1 .. Len(trail') :
           (j \in 1 .. Len(trail) /\ trail'[j] = trail[j]) \/ trail'[j].val = semval'
    BY <2>1
  <2> QED BY <1>1, <1>2, <1>3, <1>4, <2>2, <2>3, <2>4, WakeSleepers
<1>7. CountsOK'
  BY <1>1, <1>2, <1>3, <1>4, WakeCounts DEF Premises
<1>8. CallsOK'
  BY <1>1, <1>2, StatKinds, CallsKept DEF setVars, Pending
<1>9. KernelOK' /\ TrailOK' /\ AboutToSleep'
  <2>1. \A q \in Proc : stat'[q] # "kernel"
    BY <1>1, <1>2, StatKinds, ProcAssumption DEF KernelOK
  <2> QED BY <1>1, <1>2, <2>1, IdleKept
<1> QED BY <1>5, <1>6, <1>7, <1>8, <1>9 DEF IInv

\* The stores of SETALL preserve the invariant, if the set is still there.
LEMMA StoreInv ==
    ASSUME Premises, IInv, NEW p \in Proc, NEW id \in Id, NEW vals \in [Nums -> 0 .. semvmx],
           cur = NoProc, stat[p] \in {"user", "fault"}, Semconv(id), StoreAll(p, id, vals),
           call' \in [Proc -> Call], \A q \in Proc \ {p} : call'[q] = call[q]
    PROVE  IInv'
<1> DEFINE base == sema[id[1]].base
           C == {SetWakes(s, vals[s - base]) : s \in SemsOf(id[1])}
<1>1. /\ semval' = [s \in Sems |->
                      IF s \in SemsOf(id[1]) THEN vals[s - base] ELSE semval[s]]
      /\ cnt' = CntAfter(C) /\ stat' = [StatAfter(C) EXCEPT ![p] = "user"]
      /\ Semunrm(id, 0 .. sema[id[1]].nsems)
      /\ sig' = [sig EXCEPT ![p] = FALSE]
      /\ UNCHANGED <<setVars, sem_undo, semfup, stops, execVars>>
  BY DEF StoreAll
<1>2. SetsType /\ SemsType /\ UndoType /\ ProcType /\ ExecType /\ Layout /\ CallsOK
      /\ KernelOK /\ Sleepers /\ CountsOK
  BY DEF IInv, TypeOK
<1>3. SemsOf(id[1]) \subseteq Sems /\ C \in SUBSET Chan
  <2>1. id[1] \in Slots /\ sema[id[1]].alloc
    BY DEF Id, Semconv
  <2>2. SemsOf(id[1]) \subseteq Sems
    BY <2>1, <1>2, SetInRange
  <2> QED BY <2>2 DEF SetWakes, Chan
<1>v. \A s \in SemsOf(id[1]) : vals[s - base] \in 0 .. semvmx
  <2> SUFFICES ASSUME NEW s \in SemsOf(id[1]) PROVE s - base \in Nums
    OBVIOUS
  <2>3. id[1] \in Slots
    BY DEF Id
  <2>4. base \in Nat /\ sema[id[1]].nsems \in 0 .. semmsl /\ semmsl \in Nat
    BY <2>3, <1>2, SizesAssumption DEF SetsType, Sems
  <2> QED BY <2>4 DEF SemsOf, Units, Nums
<1>4. SemsType' /\ stat' \in [Proc -> Stat]
  BY <1>1, <1>2, <1>3, <1>v, WakeType DEF SemsType, Stat
<1>5. TypeOK' /\ Layout'
  BY <1>1, <1>2, <1>4, SemunrmType
     DEF TypeOK, SetsType, ProcType, ExecType, setVars, execVars, Layout
<1>w. \A q \in Proc : \/ q = p /\ stat'[q] = "user"
                      \/ /\ q # p /\ stat'[q] = StatAfter(C)[q] /\ sig'[q] = sig[q]
                         /\ call'[q] = call[q]
  BY <1>1, <1>2 DEF ProcType, StatAfter
<1>6. Sleepers'
  <2>1. trail' = <<>>
    BY <1>1, <1>2 DEF KernelOK, execVars
  <2>2. ASSUME NEW r \in Sems
        PROVE  /\ <<"n", r>> \notin C => semval'[r] <= semval[r]
               /\ <<"z", r>> \notin C => semval'[r] # 0 \/ semval'[r] = semval[r]
    <3>1. semval[r] \in Int /\ semval[r] >= 0
      BY <1>2, SizesAssumption DEF SemsType
    <3>2. CASE r \in SemsOf(id[1])
      <4>1. SetWakes(r, vals[r - base]) \in C /\ semval'[r] = vals[r - base]
        BY <3>2, <1>1
      <4> QED BY <4>1, <3>1 DEF SetWakes
    <3>3. CASE r \notin SemsOf(id[1])
      BY <1>1, <3>1, <3>3
    <3> QED BY <3>2, <3>3
  <2>3. \A q \in Proc : stat'[q] = "asleep" =>
           StatAfter(C)[q] = "asleep" /\ call'[q] = call[q]
    BY <1>1, <1>w
  <2>4. \A j \in 1 .. Len(trail') :
           (j \in 1 .. Len(trail) /\ trail'[j] = trail[j]) \/ trail'[j].val = semval'
    BY <2>1
  <2> QED BY <1>1, <1>2, <1>3, <1>4, <2>2, <2>3, <2>4, WakeSleepers
<1>7. CountsOK'
  BY <1>1, <1>2, <1>3, <1>4, <1>w, WakeCounts DEF Premises
<1>8. CallsOK'
  <2>1. UNCHANGED sema
    BY <1>1 DEF setVars
  <2>2. \A q \in Proc : Pending(q)' => /\ Pending(q) /\ call'[q] = call[q]
                                       /\ stat[q] = "fault" => stat'[q] = "fault"
    BY <1>2, <1>w, StatKinds DEF Pending
  <2> QED BY <2>1, <2>2, <1>2, CallsKept
<1>9. KernelOK' /\ TrailOK' /\ AboutToSleep'
  <2>1. \A q \in Proc : stat'[q] # "kernel"
    BY <1>1, <1>2, <1>w, StatKinds, ProcAssumption, SMTT(30) DEF KernelOK
  <2> QED BY <1>1, <1>2, <2>1, IdleKept
<1> QED BY <1>5, <1>6, <1>7, <1>8, <1>9 DEF IInv

\* SETALL preserves the invariant, when its copyin does not sleep, and when
\* it has slept and the set is still there.
LEMMA SetAllInv ==
    ASSUME Premises, IInv, NEW p \in Proc,
           \/ \E id \in Id, vals \in SetVals : SetAll(p, id, vals)
           \/ SetAllPageIn(p) /\ Semconv(call[p].id)
    PROVE  IInv'
<1>1. call \in [Proc -> Call] /\ call[p].id \in Id /\ call[p].vals \in [Nums -> 0 .. semvmx]
  BY DEF IInv, TypeOK, ProcType, Call
<1>2. CASE \E id \in Id, vals \in SetVals : SetAll(p, id, vals)
  BY <1>1, <1>2, StoreInv, InputAssumption DEF SetAll, Calls
<1>3. CASE SetAllPageIn(p) /\ Semconv(call[p].id)
  <2>1. call' \in [Proc -> Call] /\ \A q \in Proc \ {p} : call'[q] = call[q]
    BY <1>1, <1>3, IdleCallType DEF SetAllPageIn
  <2> QED BY <1>1, <1>3, <2>1, StoreInv DEF SetAllPageIn
<1> QED BY <1>2, <1>3

\* IPC_RMID preserves the invariant.
LEMMA RmidInv ==
    ASSUME Premises, IInv, NEW p \in Proc, NEW id \in Id, Rmid(p, id)
    PROVE  IInv'
<1> DEFINE t == id[1]
           C == RmidWakes(id)
<1>1. /\ cur = NoProc /\ Semconv(id) /\ id[2] < MaxSeq
      /\ semval' = [s \in Sems |-> IF s \in SemsOf(t) THEN 0 ELSE semval[s]]
      /\ cnt' = CntAfter(C) /\ stat' = StatAfter(C)
      /\ Semunrm(id, 0 .. sema[t].nsems)
      /\ semmap' = Release(semmap, sema[t].nsems, sema[t].base, mapslots)
      /\ sema' = [sema EXCEPT ![t].alloc = FALSE, ![t].seq = @ + 1]
      /\ UNCHANGED <<sem_undo, semfup, sig, call, stops, execVars>>
  BY DEF Rmid, Calls, RmidVal, RmidMap
<1>2. SetsType /\ SemsType /\ UndoType /\ ProcType /\ ExecType /\ Layout /\ CallsOK
      /\ KernelOK /\ Sleepers /\ CountsOK
  BY DEF IInv, TypeOK
<1>i. t \in Slots /\ sema[t].alloc /\ sema[t].seq = id[2] /\ sema[t].seq < MaxSeq
  BY <1>1 DEF Id, Semconv
<1>3. SemsOf(t) \subseteq Sems /\ C \in SUBSET Chan
  <2>1. SemsOf(t) \subseteq Sems
    BY <1>i, <1>2, SetInRange
  <2> QED BY <2>1 DEF RmidWakes, Chan
<1>4. SemsType' /\ stat' \in [Proc -> Stat]
  BY <1>1, <1>2, <1>3, WakeType, SizesAssumption DEF SemsType
<1>s. SetsType'
  <2>1. semmap' \subseteq Sems
    BY <1>1, <1>2, <1>3 DEF Release, SetsType, SemsOf
  <2>2. sema[t].seq + 1 \in 0 .. MaxSeq
    BY <1>i, <1>2, SizesAssumption DEF SetsType
  <2> QED BY <2>1, <2>2, <1>1, <1>2, <1>i DEF SetsType
<1>5. TypeOK' /\ Layout'
  <2>1. TypeOK'
    BY <1>1, <1>2, <1>4, <1>s, SemunrmType DEF TypeOK, ProcType, ExecType, execVars
  <2>2. Layout'
    BY <1>1, <1>2, <1>i DEF SetsType, Layout
  <2> QED BY <2>1, <2>2
<1>6. Sleepers'
  <2>1. trail' = <<>>
    BY <1>1, <1>2 DEF KernelOK, execVars
  <2>2. ASSUME NEW r \in Sems
        PROVE  /\ <<"n", r>> \notin C => semval'[r] <= semval[r]
               /\ <<"z", r>> \notin C => semval'[r] # 0 \/ semval'[r] = semval[r]
    <3>1. semval[r] \in Int /\ semval[r] >= 0
      BY <1>2, SizesAssumption DEF SemsType
    <3>2. CASE r \in SemsOf(t)
      BY <3>1, <3>2, <1>1 DEF RmidWakes
    <3>3. CASE r \notin SemsOf(t)
      BY <1>1, <3>1, <3>3
    <3> QED BY <3>2, <3>3
  <2>3. \A q \in Proc : stat'[q] = "asleep" =>
           StatAfter(C)[q] = "asleep" /\ call'[q] = call[q]
    BY <1>1
  <2>4. \A j \in 1 .. Len(trail') :
           (j \in 1 .. Len(trail) /\ trail'[j] = trail[j]) \/ trail'[j].val = semval'
    BY <2>1
  <2> QED BY <1>1, <1>2, <1>3, <1>4, <2>2, <2>3, <2>4, WakeSleepers
<1>7. CountsOK'
  BY <1>1, <1>2, <1>3, <1>4, WakeCounts DEF Premises
<1>8. CallsOK'
  <2> SUFFICES ASSUME NEW q \in Proc
      PROVE Pending(q)' =>
               /\ stat'[q] # "fault" => call[q].cmd = "semop" /\ call[q].again
               /\ call[q].cmd = "semop" => call[q].ops \in OpLists
               /\ call[q].id[2] <= sema'[call[q].id[1]].seq
               /\ ~sema'[call[q].id[1]].alloc => call[q].id[2] < sema'[call[q].id[1]].seq
               /\ Semconv(call[q].id)' /\ call[q].again =>
                    NumsInRange(call[q].id, call[q].ops)'
    BY <1>1 DEF CallsOK
  <2>1. Pending(q)' => Pending(q) /\ (stat[q] = "fault" => stat'[q] = "fault")
    BY <1>1, <1>2, StatKinds DEF Pending
  <2>2. call[q].id[1] \in Slots /\ call[q].id[2] \in Int
    BY <1>2, SizesAssumption DEF ProcType, Call, Id
  <2>3. CASE call[q].id[1] # t
    <3>1. sema'[call[q].id[1]] = sema[call[q].id[1]]
      BY <1>1, <1>2, <2>2, <2>3 DEF SetsType
    <3>2. Pending(q)' => Pending(q) /\ UNCHANGED call
      BY <2>1, <1>1
    <3> QED BY <3>1, <3>2, <2>1, <1>2 DEF CallsOK, Semconv, NumsInRange
  <2>4. CASE call[q].id[1] = t
    <3>1. ~sema'[t].alloc /\ sema'[t].seq = sema[t].seq + 1 /\ sema[t].seq \in Int
      BY <1>1, <1>2, <1>i, SizesAssumption DEF SetsType
    <3>2. UNCHANGED call
      BY <1>1
    <3> QED BY <3>1, <3>2, <2>1, <2>2, <2>4, <1>2 DEF CallsOK, Semconv
  <2> QED BY <2>3, <2>4
<1>9. KernelOK' /\ TrailOK' /\ AboutToSleep'
  <2>1. \A q \in Proc : stat'[q] # "kernel"
    BY <1>1, <1>2, StatKinds, ProcAssumption DEF KernelOK
  <2> QED BY <1>1, <1>2, <2>1, IdleKept
<1> QED BY <1>5, <1>6, <1>7, <1>8, <1>9 DEF IInv

-----------------------------------------------------------------------------
(* Processes that come, go, are signalled and are dispatched.              *)

\* Nothing is stored, and whoever sleeps afterwards slept before.
LEMMA SleepersKept ==
    ASSUME Sleepers, UNCHANGED <<cnt, semval>>, trail' = trail,
           \A q \in Proc : stat'[q] = "asleep" => stat[q] = "asleep" /\ call'[q] = call[q]
    PROVE  Sleepers'
BY DEF Sleepers, Waits

\* No semaphore is touched and no process that the counts count disappears.
LEMMA QuietCounts ==
    ASSUME SemsType, ProcType, CountsOK, IsFiniteSet(Proc), UNCHANGED <<semVars, stops>>,
           \A q \in Proc : stat[q] = "asleep" \/ (stat[q] = "intr" /\ sig[q]) =>
               /\ stat'[q] = "asleep" \/ (stat'[q] = "intr" /\ sig'[q])
               /\ call'[q] = call[q]
    PROVE  CountsOK'
<1>1. SemsType'
  BY DEF SemsType, semVars
<1>2. ASSUME NEW ch \in Chan
      PROVE  cnt'[ch] <= cnt[ch] /\ Counted(ch) \subseteq Counted(ch)'
  BY SizesAssumption DEF semVars, SemsType, Counted
<1> QED BY <1>1, <1>2, CountsKept DEF semVars

\* fork preserves the invariant.
LEMMA ForkInv ==
    ASSUME Premises, IInv, NEW p \in Proc, Fork(p)
    PROVE  IInv'
<1>1. /\ stat[p] = "none" /\ stat' = [stat EXCEPT ![p] = "user"]
      /\ UNCHANGED <<setVars, semVars, undoVars, sig, call, stops, execVars>>
      /\ cur = NoProc
  BY DEF Fork, Calls
<1>2. SemsType /\ ProcType /\ CallsOK /\ KernelOK /\ Sleepers /\ CountsOK
  BY DEF IInv, TypeOK
<1>3. TypeOK' /\ Layout'
  BY <1>1 DEF IInv, TypeOK, SetsType, SemsType, UndoType, ProcType, ExecType, Stat,
              Layout, setVars, semVars, undoVars, execVars
<1>4. \A q \in Proc : stat'[q] = stat[q] \/ (q = p /\ stat'[q] = "user")
  BY <1>1, <1>2 DEF ProcType
<1>5. Sleepers'
  BY <1>1, <1>2, <1>4, SleepersKept DEF semVars, execVars
<1>6. CountsOK'
  BY <1>1, <1>2, <1>4, QuietCounts DEF Premises
<1>7. CallsOK'
  BY <1>1, <1>2, <1>4, CallsKept DEF setVars, Pending
<1>8. KernelOK' /\ TrailOK' /\ AboutToSleep'
  <2>1. \A q \in Proc : stat'[q] # "kernel"
    BY <1>1, <1>2, <1>4, ProcAssumption DEF KernelOK
  <2> QED BY <2>1, <1>1, <1>2, IdleKept
<1> QED BY <1>3, <1>5, <1>6, <1>7, <1>8 DEF IInv

\* What a restored value is.
LEMMA RestoredType ==
    ASSUME SemsType, UndoType, NEW u \in Undo, NEW s \in Sems
    PROVE  Restored(u, s) \in Int
<1>1. semval[s] \in Int
  BY SizesAssumption DEF SemsType
<1>2. CASE AoeOn(u, s) = {}
  BY <1>1, <1>2 DEF Restored
<1>3. CASE AoeOn(u, s) # {}
  <2>1. (CHOOSE k \in AoeOn(u, s) : TRUE) \in Key
    BY <1>3 DEF AoeOn
  <2>2. un[u][CHOOSE k \in AoeOn(u, s) : TRUE] \in Int
    BY <2>1 DEF UndoType
  <2> QED BY <1>1, <1>3, <2>2 DEF Restored
<1> QED BY <1>2, <1>3

\* exit, with semexit, preserves the invariant.
LEMMA ExitInv ==
    ASSUME Premises, IInv, NEW p \in Proc, Exit(p)
    PROVE  IInv'
<1>1. /\ stat[p] = "user" /\ cur = NoProc
      /\ UNCHANGED <<setVars, sem_undo, sig, call, stops, execVars>>
  BY DEF Exit, Calls
<1>2. SetsType /\ SemsType /\ UndoType /\ ProcType /\ ExecType /\ Layout /\ CallsOK
      /\ KernelOK /\ Sleepers /\ CountsOK
  BY DEF IInv, TypeOK
<1>3. CASE sem_undo[p] = NoUndo
  <2>1. stat' = [stat EXCEPT ![p] = "none"] /\ UNCHANGED <<semVars, un, semfup>>
    BY <1>3 DEF Exit
  <2>2. TypeOK' /\ Layout'
    BY <1>1, <2>1 DEF IInv, TypeOK, SetsType, SemsType, UndoType, ProcType, ExecType,
                      Stat, Layout, setVars, semVars, execVars
  <2>3. \A q \in Proc : stat'[q] = stat[q] \/ (q = p /\ stat'[q] = "none")
    BY <2>1, <1>2 DEF ProcType
  <2>4. Sleepers'
    BY <1>1, <1>2, <2>1, <2>3, SleepersKept DEF semVars, execVars
  <2>5. CountsOK'
    BY <1>1, <1>2, <2>1, <2>3, QuietCounts DEF Premises
  <2>6. CallsOK'
    BY <1>1, <1>2, <2>3, CallsKept DEF setVars, Pending
  <2>7. KernelOK' /\ TrailOK' /\ AboutToSleep'
    <3>1. \A q \in Proc : stat'[q] # "kernel"
      BY <1>1, <1>2, <2>3, ProcAssumption DEF KernelOK
    <3> QED BY <3>1, <1>1, <1>2, IdleKept
  <2> QED BY <2>2, <2>4, <2>5, <2>6, <2>7 DEF IInv
<1>4. CASE sem_undo[p] # NoUndo
  <2> DEFINE u == sem_undo[p]
             hit == {s \in Sems : AoeOn(u, s) # {} /\ InSemRange(Restored(u, s))}
             C == {<<"z", s>> : s \in {t \in hit : Restored(u, t) = 0}}
                  \cup {<<"n", s>> : s \in {t \in hit : Restored(u, t) > semval[t]}}
  <2>1. /\ semval' = [s \in Sems |-> IF s \in hit THEN Restored(u, s) ELSE semval[s]]
        /\ cnt' = CntAfter(C)
        /\ stat' = [StatAfter(C) EXCEPT ![p] = "none"]
        /\ un' = [un EXCEPT ![u] = NoEntries]
        /\ semfup' = <<u>> \o semfup
    BY <1>4 DEF Exit, Semexit
  <2>2. u \in Undo /\ C \in SUBSET Chan
    BY <1>2, <1>4 DEF UndoType, Chan
  <2>3. \A s \in hit : Restored(u, s) \in 0 .. semvmx
    BY <1>2, <2>2, RestoredType, SizesAssumption DEF InSemRange
  <2>4. SemsType' /\ stat' \in [Proc -> Stat]
    BY <1>2, <2>1, <2>3, WakeType DEF SemsType, Stat
  <2>5. UndoType'
    BY <1>1, <1>2, <2>1, <2>2 DEF UndoType, NoEntries
  <2>6. TypeOK' /\ Layout'
    BY <1>1, <1>2, <2>4, <2>5
       DEF TypeOK, SetsType, ProcType, ExecType, setVars, execVars, Layout
  <2>7. \A q \in Proc : stat'[q] = StatAfter(C)[q] \/ (q = p /\ stat'[q] = "none")
    BY <2>1 DEF StatAfter
  <2>8. Sleepers'
    <3>1. trail' = <<>>
      BY <1>1, <1>2 DEF KernelOK, execVars
    <3>2. ASSUME NEW r \in Sems
          PROVE  /\ <<"n", r>> \notin C => semval'[r] <= semval[r]
                 /\ <<"z", r>> \notin C => semval'[r] # 0 \/ semval'[r] = semval[r]
      <4>1. semval[r] \in Int
        BY <1>2, SizesAssumption DEF SemsType
      <4>2. CASE r \in hit
        <5>1. semval'[r] = Restored(u, r) /\ Restored(u, r) \in Int
          BY <4>2, <2>1, <2>3
        <5>2. <<"n", r>> \notin C => ~(Restored(u, r) > semval[r])
          BY <4>2
        <5>3. <<"z", r>> \notin C => Restored(u, r) # 0
          BY <4>2
        <5> QED BY <5>1, <5>2, <5>3, <4>1
      <4>3. CASE r \notin hit
        BY <2>1, <4>1, <4>3
      <4> QED BY <4>2, <4>3
    <3>3. \A q \in Proc : stat'[q] = "asleep" =>
             StatAfter(C)[q] = "asleep" /\ call'[q] = call[q]
      BY <1>1, <2>7
    <3>4. \A j \in 1 .. Len(trail') :
             (j \in 1 .. Len(trail) /\ trail'[j] = trail[j]) \/ trail'[j].val = semval'
      BY <3>1
    <3> QED BY <1>2, <2>1, <2>2, <2>4, <3>2, <3>3, <3>4, WakeSleepers
  <2>9. CountsOK'
    <3>1. \A q \in Proc : stat[q] \in {"asleep", "intr"} =>
             stat'[q] = StatAfter(C)[q] /\ sig'[q] = sig[q] /\ call'[q] = call[q]
      BY <1>1, <2>7
    <3> QED BY <1>1, <1>2, <2>1, <2>2, <2>4, <3>1, WakeCounts DEF Premises
  <2>10. CallsOK'
    <3>1. UNCHANGED <<sema, call>>
      BY <1>1 DEF setVars
    <3>2. \A q \in Proc : Pending(q)' => /\ Pending(q)
                                         /\ stat[q] = "fault" => stat'[q] = "fault"
      BY <1>2, <2>7, StatKinds DEF Pending
    <3> QED BY <3>1, <3>2, <1>2, CallsKept
  <2>11. KernelOK' /\ TrailOK' /\ AboutToSleep'
    <3>1. \A q \in Proc : stat'[q] # "kernel"
      BY <1>1, <1>2, <2>7, StatKinds, ProcAssumption DEF KernelOK
    <3> QED BY <1>1, <1>2, <3>1, IdleKept
  <2> QED BY <2>6, <2>8, <2>9, <2>10, <2>11 DEF IInv
<1> QED BY <1>3, <1>4

\* The process in the kernel, if any, is not concerned.
LEMMA KernelKept ==
    ASSUME KernelOK, TrailOK, AboutToSleep, UNCHANGED <<sema, semval, call, execVars>>,
           \A q \in Proc : stat'[q] = "kernel" <=> stat[q] = "kernel"
    PROVE  KernelOK' /\ TrailOK' /\ AboutToSleep'
<1>1. KernelOK'
  BY DEF KernelOK, Semconv, execVars
<1>2. TrailOK'
  BY ZenonT(60) DEF TrailOK, Untouched, Ops, SemOf, execVars
<1>3. AboutToSleep'
  BY DEF AboutToSleep, Waits, execVars
<1> QED BY <1>1, <1>2, <1>3

\* A signal preserves the invariant.
LEMMA SignalInv ==
    ASSUME Premises, IInv, NEW p \in Proc, Signal(p)
    PROVE  IInv'
<1>1. /\ stat[p] \in {"fault", "kernel", "asleep", "run", "intr"} /\ ~sig[p]
      /\ sig' = [sig EXCEPT ![p] = TRUE]
      /\ stat' = [stat EXCEPT ![p] = IF @ = "asleep" THEN "intr" ELSE @]
      /\ UNCHANGED <<setVars, semVars, undoVars, call, stops, execVars>>
  BY DEF Signal
<1>2. SemsType /\ ProcType /\ CallsOK /\ KernelOK /\ Sleepers /\ CountsOK
  BY DEF IInv, TypeOK
<1>3. TypeOK' /\ Layout'
  BY <1>1 DEF IInv, TypeOK, SetsType, SemsType, UndoType, ProcType, ExecType, Stat,
              Layout, setVars, semVars, undoVars, execVars
<1>4. \A q \in Proc : \/ stat'[q] = stat[q] /\ (sig[q] => sig'[q])
                      \/ stat[q] = "asleep" /\ stat'[q] = "intr" /\ sig'[q]
  BY <1>1, <1>2 DEF ProcType
<1>5. Sleepers'
  BY <1>1, <1>2, <1>4, SleepersKept DEF semVars, execVars
<1>6. CountsOK'
  BY <1>1, <1>2, <1>4, QuietCounts DEF Premises
<1>7. CallsOK'
  BY <1>1, <1>2, <1>4, CallsKept DEF setVars, Pending
<1>8. KernelOK' /\ TrailOK' /\ AboutToSleep'
  <2>1. \A q \in Proc : stat'[q] = "kernel" <=> stat[q] = "kernel"
    BY <1>1, <1>4
  <2> QED BY <2>1, <1>1, KernelKept DEF IInv, setVars, semVars
<1> QED BY <1>3, <1>5, <1>6, <1>7, <1>8 DEF IInv

\* A job-control stop and continue of a sleeper preserves the invariant.
LEMMA StopContInv ==
    ASSUME Premises, IInv, NEW p \in Proc, StopCont(p)
    PROVE  IInv'
<1>1. /\ stat[p] = "asleep" /\ stops < MaxStops
      /\ stat' = [stat EXCEPT ![p] = "intr"]
      /\ stops' = stops + 1
      /\ UNCHANGED <<setVars, semVars, undoVars, sig, call, execVars>>
  BY DEF StopCont
<1>2. SemsType /\ ProcType /\ CallsOK /\ KernelOK /\ Sleepers /\ CountsOK
  BY DEF IInv, TypeOK
<1>s. stops \in Nat /\ stops' \in 0 .. MaxStops
  BY <1>1, <1>2, SizesAssumption DEF ProcType
<1>3. TypeOK' /\ Layout'
  BY <1>1, <1>s DEF IInv, TypeOK, SetsType, SemsType, UndoType, ProcType, ExecType, Stat,
              Layout, setVars, semVars, undoVars, execVars
<1>4. \A q \in Proc : \/ stat'[q] = stat[q]
                      \/ q = p /\ stat[q] = "asleep" /\ stat'[q] = "intr"
  BY <1>1, <1>2 DEF ProcType
<1>5. Sleepers'
  BY <1>1, <1>2, <1>4, SleepersKept DEF semVars, execVars
<1>6. CountsOK'
  <2> SUFFICES ASSUME NEW ch \in Chan PROVE cnt'[ch] <= Cardinality(Counted(ch)') + stops'
    BY DEF CountsOK
  <2>1. /\ Counted(ch) \subseteq Counted(ch)' \cup {p}
        /\ Counted(ch)' \subseteq Proc
    BY <1>1, <1>4 DEF Counted
  <2>2. IsFiniteSet(Counted(ch)') /\ Cardinality(Counted(ch)') \in Nat
    BY <2>1, FS_Subset, FS_CardinalityType DEF Premises
  <2>3. /\ IsFiniteSet(Counted(ch)' \cup {p})
        /\ Cardinality(Counted(ch)' \cup {p}) <= Cardinality(Counted(ch)') + 1
    BY <2>2, FS_AddElement
  <2>4. Cardinality(Counted(ch)) <= Cardinality(Counted(ch)' \cup {p})
    BY <2>1, <2>3, FS_Subset
  <2>5. /\ Cardinality(Counted(ch)) \in Nat /\ Cardinality(Counted(ch)' \cup {p}) \in Nat
    BY <2>1, <2>3, FS_Subset, FS_CardinalityType
  <2>6. cnt[ch] <= Cardinality(Counted(ch)) + stops /\ cnt'[ch] = cnt[ch] /\ cnt[ch] \in Nat
    BY <1>1, <1>2, SizesAssumption DEF CountsOK, semVars, SemsType
  <2> HIDE DEF Counted
  <2> QED BY <1>1, <1>s, <2>2, <2>3, <2>4, <2>5, <2>6
<1>7. CallsOK'
  BY <1>1, <1>2, <1>4, CallsKept DEF setVars, Pending
<1>8. KernelOK' /\ TrailOK' /\ AboutToSleep'
  <2>1. \A q \in Proc : stat'[q] = "kernel" <=> stat[q] = "kernel"
    BY <1>1, <1>4
  <2> QED BY <2>1, <1>1, KernelKept DEF IInv, setVars, semVars
<1> QED BY <1>3, <1>5, <1>6, <1>7, <1>8 DEF IInv

\* A sleeper whose set is gone returns, and the invariant is preserved.
LEMMA SleepRemovedInv ==
    ASSUME Premises, IInv, NEW p \in Proc, SleepRemoved(p)
    PROVE  IInv'
<1>1. /\ stat[p] \in {"run", "intr"} /\ ~sig[p] /\ cur = NoProc
      /\ stat' = [stat EXCEPT ![p] = "user"]
      /\ call' = [call EXCEPT ![p] = IdleCall]
      /\ UNCHANGED <<setVars, semVars, undoVars, sig, stops, execVars>>
  BY DEF SleepRemoved, Awake
<1>2. SemsType /\ ProcType /\ CallsOK /\ KernelOK /\ Sleepers /\ CountsOK
  BY DEF IInv, TypeOK
<1>3. TypeOK' /\ Layout'
  BY <1>1, IdleCallType
     DEF IInv, TypeOK, SetsType, SemsType, UndoType, ProcType, ExecType, Stat,
         Layout, setVars, semVars, undoVars, execVars
<1>4. \A q \in Proc : \/ stat'[q] = stat[q] /\ call'[q] = call[q] /\ q # p
                      \/ q = p /\ stat'[q] = "user"
  BY <1>1, <1>2 DEF ProcType
<1>5. Sleepers'
  BY <1>1, <1>2, <1>4, SleepersKept DEF semVars, execVars
<1>6. CountsOK'
  BY <1>1, <1>2, <1>4, QuietCounts DEF Premises
<1>7. CallsOK'
  BY <1>1, <1>2, <1>4, CallsKept DEF setVars, Pending
<1>8. KernelOK' /\ TrailOK' /\ AboutToSleep'
  <2>1. \A q \in Proc : stat'[q] # "kernel"
    BY <1>1, <1>2, <1>4, ProcAssumption DEF KernelOK
  <2> QED BY <2>1, <1>1, <1>2, IdleKept
<1> QED BY <1>3, <1>5, <1>6, <1>7, <1>8 DEF IInv

\* A process goes to the loop of semop, on a set that exists.
LEMMA LoopEntered ==
    ASSUME Premises, IInv, NEW p \in Proc, cur = NoProc,
           stat[p] \in {"user", "run", "fault"} \/ (stat[p] = "intr" /\ ~sig[p]),
           stat' = [stat EXCEPT ![p] = "kernel"], call' \in [Proc -> Call],
           \A q \in Proc \ {p} : call'[q] = call[q], call'[p].cmd = "semop", call'[p].again,
           call'[p].ops \in OpLists, Semconv(call'[p].id),
           NumsInRange(call'[p].id, call'[p].ops),
           cur' = p, pc' = "loop", i' = 1, trail' = <<Snapshot>>,
           UNCHANGED <<setVars, semVars, undoVars, sig, stops, after>>
    PROVE  IInv'
<1>1. SetsType /\ SemsType /\ UndoType /\ ProcType /\ ExecType /\ CallsOK /\ KernelOK
      /\ Sleepers /\ CountsOK
  BY DEF IInv, TypeOK
<1>2. TypeOK' /\ Layout'
  <2>1. Snapshot \in [val : [Sems -> 0 .. semvmx], un : [Undo -> [Key -> Int]]]
    BY <1>1 DEF Snapshot, SemsType, UndoType
  <2>2. ExecType'
    BY <2>1, <1>1 DEF ExecType
  <2> QED BY <2>2 DEF IInv, TypeOK, SetsType, SemsType, UndoType, ProcType, Stat,
         Layout, setVars, semVars, undoVars
<1>3. \A q \in Proc : \/ stat'[q] = stat[q] /\ call'[q] = call[q] /\ q # p
                      \/ q = p /\ stat'[q] = "kernel"
  BY <1>1 DEF ProcType
<1>4. Sleepers'
  <2> SUFFICES ASSUME NEW q \in Proc, stat'[q] = "asleep"
               PROVE  /\ cnt'[call'[q].ch] > 0
                      /\ Waits(q, semval[call[q].ch[2]])'
                      /\ \A j \in 1 .. Len(trail') : Waits(q, trail[j].val[call[q].ch[2]])'
    BY DEF Sleepers
  <2>1. stat[q] = "asleep" /\ call'[q] = call[q]
    BY <1>3
  <2>2. cnt[call[q].ch] > 0 /\ Waits(q, semval[call[q].ch[2]])
    BY <2>1, <1>1 DEF Sleepers
  <2>3. \A j \in 1 .. Len(trail') : trail'[j].val = semval
    BY DEF Snapshot
  <2> QED BY <2>1, <2>2, <2>3 DEF semVars, Waits
<1>5. CountsOK'
  <2>1. stat[p] # "asleep" /\ ~(stat[p] = "intr" /\ sig[p])
    OBVIOUS
  <2> QED BY <2>1, <1>1, <1>3, QuietCounts DEF Premises
<1>6. CallsOK'
  <2> SUFFICES ASSUME NEW q \in Proc
      PROVE Pending(q)' =>
               /\ stat'[q] # "fault" => call'[q].cmd = "semop" /\ call'[q].again
               /\ call'[q].cmd = "semop" => call'[q].ops \in OpLists
               /\ call'[q].id[2] <= sema[call'[q].id[1]].seq
               /\ ~sema[call'[q].id[1]].alloc =>
                     call'[q].id[2] < sema[call'[q].id[1]].seq
               /\ Semconv(call'[q].id) /\ call'[q].again =>
                     NumsInRange(call'[q].id, call'[q].ops)
    BY DEF CallsOK, setVars, Semconv, NumsInRange
  <2>1. CASE q = p
    <3>1. sema[call'[p].id[1]].seq \in Int
      <4>1. call'[p].id[1] \in Slots
        BY DEF Call, Id
      <4> QED BY <4>1, <1>1, SizesAssumption DEF SetsType
    <3> QED BY <2>1, <3>1, <1>3 DEF Semconv
  <2>2. CASE q # p
    BY <2>2, <1>1, <1>3 DEF CallsOK, Pending
  <2> QED BY <2>1, <2>2
<1>7. KernelOK'
  BY <1>1, <1>3, ProcAssumption DEF KernelOK, Semconv, setVars
<1>8. TrailOK' /\ AboutToSleep'
  <2>1. Len(call'[p].ops) \in Nat
    BY InputAssumption
  <2>2. Len(trail') = 1 /\ trail'[1].val = semval'
    BY DEF Snapshot, semVars
  <2> QED BY <2>1, <2>2 DEF TrailOK, AboutToSleep, Ops
<1> QED BY <1>2, <1>4, <1>5, <1>6, <1>7, <1>8 DEF IInv

\* A process sleeps in copyin, in a call on a set that existed when it began
\* or began again.
LEMMA FaultEntered ==
    ASSUME Premises, IInv, NEW p \in Proc, cur = NoProc,
           stat[p] \in {"user", "run"} \/ (stat[p] = "intr" /\ ~sig[p]),
           stat' = [stat EXCEPT ![p] = "fault"], call' \in [Proc -> Call],
           \A q \in Proc \ {p} : call'[q] = call[q],
           call'[p].cmd = "semop" => call'[p].ops \in OpLists,
           Semconv(call'[p].id),
           call'[p].again => NumsInRange(call'[p].id, call'[p].ops),
           UNCHANGED <<setVars, semVars, undoVars, sig, stops, execVars>>
    PROVE  IInv'
<1>1. SetsType /\ SemsType /\ ProcType /\ CallsOK /\ KernelOK /\ Sleepers /\ CountsOK
  BY DEF IInv, TypeOK
<1>2. TypeOK' /\ Layout'
  BY DEF IInv, TypeOK, SetsType, SemsType, UndoType, ProcType, ExecType, Stat,
         Layout, setVars, semVars, undoVars, execVars
<1>3. \A q \in Proc : \/ stat'[q] = stat[q] /\ call'[q] = call[q] /\ q # p
                      \/ q = p /\ stat'[q] = "fault"
  BY <1>1 DEF ProcType
<1>4. Sleepers'
  BY <1>1, <1>3, SleepersKept DEF semVars, execVars
<1>5. CountsOK'
  <2>1. stat[p] # "asleep" /\ ~(stat[p] = "intr" /\ sig[p])
    OBVIOUS
  <2> QED BY <2>1, <1>1, <1>3, QuietCounts DEF Premises
<1>6. CallsOK'
  <2> SUFFICES ASSUME NEW q \in Proc
      PROVE Pending(q)' =>
               /\ stat'[q] # "fault" => call'[q].cmd = "semop" /\ call'[q].again
               /\ call'[q].cmd = "semop" => call'[q].ops \in OpLists
               /\ call'[q].id[2] <= sema[call'[q].id[1]].seq
               /\ ~sema[call'[q].id[1]].alloc =>
                     call'[q].id[2] < sema[call'[q].id[1]].seq
               /\ Semconv(call'[q].id) /\ call'[q].again =>
                     NumsInRange(call'[q].id, call'[q].ops)
    BY DEF CallsOK, setVars, Semconv, NumsInRange
  <2>1. CASE q = p
    <3>1. sema[call'[p].id[1]].seq \in Int
      <4>1. call'[p].id[1] \in Slots
        BY DEF Call, Id
      <4> QED BY <4>1, <1>1, SizesAssumption DEF SetsType
    <3> QED BY <2>1, <3>1, <1>3 DEF Semconv
  <2>2. CASE q # p
    BY <2>2, <1>1, <1>3 DEF CallsOK, Pending
  <2> QED BY <2>1, <2>2
<1>7. KernelOK' /\ TrailOK' /\ AboutToSleep'
  <2>1. \A q \in Proc : stat'[q] # "kernel"
    BY <1>1, <1>3, ProcAssumption DEF KernelOK
  <2> QED BY <2>1, <1>1, IdleKept
<1> QED BY <1>2, <1>4, <1>5, <1>6, <1>7 DEF IInv

\* SETALL that has to wait for its buffer preserves the invariant.
LEMMA SetAllFaultInv ==
    ASSUME Premises, IInv, NEW p \in Proc, NEW id \in Id, NEW vals \in SetVals,
           SetAllFault(p, id, vals)
    PROVE  IInv'
<1> DEFINE new == [IdleCall EXCEPT !.cmd = "setall", !.id = id, !.vals = vals]
<1>1. /\ stat[p] = "user" /\ cur = NoProc /\ Semconv(id)
      /\ stat' = [stat EXCEPT ![p] = "fault"]
      /\ call' = [call EXCEPT ![p] = new]
      /\ UNCHANGED <<setVars, semVars, undoVars, sig, stops, execVars>>
  BY DEF SetAllFault, Calls
<1>2. new \in Call /\ new.cmd = "setall" /\ new.id = id /\ new.again = FALSE
  BY IdleCallType, InputAssumption DEF Call, IdleCall
<1>3. /\ call' \in [Proc -> Call] /\ call'[p] = new
      /\ \A q \in Proc \ {p} : call'[q] = call[q]
  BY <1>1, <1>2 DEF IInv, TypeOK, ProcType
<1> HIDE DEF new
<1> QED BY <1>1, <1>2, <1>3, FaultEntered

\* semop that has to wait for its list preserves the invariant.
LEMMA SemopFaultInv ==
    ASSUME Premises, IInv, NEW p \in Proc, NEW id \in Id, NEW ops \in OpLists,
           SemopFault(p, id, ops)
    PROVE  IInv'
<1> DEFINE new == [IdleCall EXCEPT !.id = id, !.ops = ops]
<1>1. /\ stat[p] = "user" /\ cur = NoProc /\ Semconv(id)
      /\ stat' = [stat EXCEPT ![p] = "fault"]
      /\ call' = [call EXCEPT ![p] = new]
      /\ UNCHANGED <<setVars, semVars, undoVars, sig, stops, execVars>>
  BY DEF SemopFault, Calls
<1>2. new \in Call /\ new.ops = ops /\ new.id = id /\ new.again = FALSE
  BY IdleCallType DEF Call, IdleCall
<1>3. /\ call' \in [Proc -> Call] /\ call'[p] = new
      /\ \A q \in Proc \ {p} : call'[q] = call[q]
  BY <1>1, <1>2 DEF IInv, TypeOK, ProcType
<1> HIDE DEF new
<1> QED BY <1>1, <1>2, <1>3, FaultEntered

\* A woken sleeper that starts over preserves the invariant, whether its list
\* is there or not.
LEMMA SleepAgainInv ==
    ASSUME Premises, IInv, NEW p \in Proc, SleepAgain(p)
    PROVE  IInv'
<1>1. /\ stat[p] \in {"run", "intr"} /\ ~sig[p] /\ cur = NoProc
      /\ Semconv(call[p].id) /\ (EnterLoop(p) \/ EnterFault(p))
  BY DEF SleepAgain, Awake
<1>2. /\ call[p].cmd = "semop" /\ call[p].again /\ call[p].ops \in OpLists
      /\ NumsInRange(call[p].id, call[p].ops)
  BY <1>1 DEF IInv, CallsOK, Pending
<1>3. CASE EnterLoop(p)
  <2>1. /\ stat' = [stat EXCEPT ![p] = "kernel"]
        /\ call' = [call EXCEPT ![p].again = TRUE]
        /\ cur' = p /\ pc' = "loop" /\ i' = 1 /\ trail' = <<Snapshot>>
        /\ UNCHANGED <<setVars, semVars, undoVars, sig, stops, after>>
    BY <1>3 DEF EnterLoop
  <2>2. /\ call' \in [Proc -> Call]
        /\ \A q \in Proc \ {p} : call'[q] = call[q]
        /\ call'[p].ops = call[p].ops /\ call'[p].id = call[p].id
        /\ call'[p].cmd = call[p].cmd /\ call'[p].again
    BY <2>1, ZenonT(60) DEF IInv, TypeOK, ProcType, Call
  <2> QED BY <1>1, <1>2, <2>1, <2>2, LoopEntered
<1>4. CASE EnterFault(p)
  <2>1. pc = "idle"
    BY <1>1 DEF IInv, KernelOK
  <2>2. /\ stat' = [stat EXCEPT ![p] = "fault"]
        /\ UNCHANGED <<setVars, semVars, undoVars, sig, call, stops, execVars>>
    BY <1>1, <1>4, <2>1 DEF EnterFault, execVars
  <2>3. call' \in [Proc -> Call] /\ \A q \in Proc \ {p} : call'[q] = call[q]
    BY <2>2 DEF IInv, TypeOK, ProcType
  <2> QED BY <1>1, <1>2, <2>2, <2>3, FaultEntered
<1> QED BY <1>1, <1>3, <1>4

\* semop goes on when its list is there, with the set if that still exists;
\* or it fails: the invariant is preserved.
LEMMA SemopPageInInv ==
    ASSUME Premises, IInv, NEW p \in Proc, SemopPageIn(p),
           cur' = p => Semconv(call[p].id)
    PROVE  IInv'
<1>1. cur = NoProc /\ stat[p] = "fault" /\ call[p].cmd = "semop"
  BY DEF SemopPageIn
<1>2. /\ SemsType /\ ProcType /\ CallsOK /\ KernelOK /\ Sleepers /\ CountsOK
      /\ call[p].ops \in OpLists
  BY <1>1 DEF IInv, TypeOK, CallsOK, Pending
<1>3. CASE EnterLoop(p) /\ (call[p].again \/ NumsInRange(call[p].id, call[p].ops))
  <2>1. /\ stat' = [stat EXCEPT ![p] = "kernel"]
        /\ call' = [call EXCEPT ![p].again = TRUE]
        /\ cur' = p /\ pc' = "loop" /\ i' = 1 /\ trail' = <<Snapshot>>
        /\ UNCHANGED <<setVars, semVars, undoVars, sig, stops, after>>
    BY <1>3 DEF EnterLoop
  <2>2. Semconv(call[p].id) /\ NumsInRange(call[p].id, call[p].ops)
    BY <1>1, <1>2, <1>3, <2>1 DEF CallsOK, Pending
  <2>3. /\ call' \in [Proc -> Call]
        /\ \A q \in Proc \ {p} : call'[q] = call[q]
        /\ call'[p].ops = call[p].ops /\ call'[p].id = call[p].id
        /\ call'[p].cmd = call[p].cmd /\ call'[p].again
    BY <1>2, <2>1, ZenonT(60) DEF ProcType, Call
  <2> QED BY <1>1, <1>2, <2>1, <2>2, <2>3, LoopEntered
<1>4. CASE /\ stat' = [stat EXCEPT ![p] = "user"]
           /\ call' = [call EXCEPT ![p] = IdleCall]
           /\ sig' = [sig EXCEPT ![p] = FALSE]
           /\ UNCHANGED <<setVars, semVars, undoVars, stops, execVars>>
  <2>1. TypeOK' /\ Layout'
    BY <1>4, IdleCallType
       DEF IInv, TypeOK, SetsType, SemsType, UndoType, ProcType, ExecType, Stat,
           Layout, setVars, semVars, undoVars, execVars
  <2>2. \A q \in Proc : \/ /\ stat'[q] = stat[q] /\ call'[q] = call[q] /\ sig'[q] = sig[q]
                           /\ q # p
                        \/ q = p /\ stat'[q] = "user"
    BY <1>2, <1>4 DEF ProcType
  <2>3. Sleepers'
    BY <1>2, <1>4, <2>2, SleepersKept DEF semVars, execVars
  <2>4. CountsOK'
    BY <1>1, <1>2, <1>4, <2>2, QuietCounts DEF Premises
  <2>5. CallsOK'
    BY <1>2, <1>4, <2>2, CallsKept DEF setVars, Pending
  <2>6. KernelOK' /\ TrailOK' /\ AboutToSleep'
    <3>1. \A q \in Proc : stat'[q] # "kernel"
      BY <1>1, <1>2, <2>2, ProcAssumption DEF KernelOK
    <3> QED BY <3>1, <1>1, <1>2, <1>4, IdleKept
  <2> QED BY <2>1, <2>3, <2>4, <2>5, <2>6 DEF IInv
<1> QED BY <1>3, <1>4 DEF SemopPageIn

\* Entering semop preserves the invariant.
LEMMA SemopInv ==
    ASSUME Premises, IInv, NEW p \in Proc, NEW id \in Id, NEW ops \in OpLists,
           Semop(p, id, ops)
    PROVE  IInv'
<1>1. /\ stat[p] = "user" /\ cur = NoProc /\ Semconv(id) /\ NumsInRange(id, ops)
      /\ stat' = [stat EXCEPT ![p] = "kernel"]
      /\ call' = [call EXCEPT ![p] = [IdleCall EXCEPT
                    !.id = id, !.ops = ops, !.again = TRUE]]
      /\ cur' = p /\ pc' = "loop" /\ i' = 1 /\ trail' = <<Snapshot>>
      /\ UNCHANGED <<setVars, semVars, undoVars, sig, stops, after>>
  BY DEF Semop, Calls
<1>2. /\ call' \in [Proc -> Call]
      /\ \A q \in Proc \ {p} : call'[q] = call[q]
      /\ call'[p].ops = ops /\ call'[p].id = id
      /\ call'[p].cmd = "semop" /\ call'[p].again
  <2>1. [IdleCall EXCEPT !.id = id, !.ops = ops, !.again = TRUE] \in Call
    BY IdleCallType DEF Call, IdleCall
  <2> QED BY <2>1, <1>1 DEF IInv, TypeOK, ProcType, IdleCall
<1> QED BY <1>1, <1>2, LoopEntered

\* An interrupted sleeper takes itself off the count; the invariant is preserved.
LEMMA SleepIntrInv ==
    ASSUME Premises, IInv, NEW p \in Proc, SleepIntr(p)
    PROVE  IInv'
<1> DEFINE c == call[p].ch
<1>1. /\ stat[p] \in {"run", "intr"} /\ sig[p] /\ cur = NoProc
      /\ cnt' = [cnt EXCEPT ![c] = CntLeft(@)]
      /\ stat' = [StatLeft(c, cnt[c]) EXCEPT ![p] = "user"]
      /\ call' = [call EXCEPT ![p] = IdleCall]
      /\ sig' = [sig EXCEPT ![p] = FALSE]
      /\ UNCHANGED <<setVars, semval, undoVars, stops, execVars>>
  BY DEF SleepIntr, Awake
<1>2. SemsType /\ ProcType /\ CallsOK /\ KernelOK /\ Sleepers /\ CountsOK
  BY DEF IInv, TypeOK
<1>t. c \in Chan /\ \A ch \in Chan : cnt[ch] \in 0 .. ushort - 1
  BY <1>2 DEF ProcType, Call, SemsType
<1>3. /\ cnt'[c] = IF cnt[c] <= 1 THEN 0 ELSE cnt[c] - 1
      /\ \A ch \in Chan : ch # c => cnt'[ch] = cnt[ch]
      /\ cnt' \in [Chan -> 0 .. ushort - 1]
  BY <1>1, <1>2, <1>t, SizesAssumption DEF SemsType, CntLeft
<1>4. \A q \in Proc : \/ /\ q # p /\ call'[q] = call[q] /\ sig'[q] = sig[q]
                         /\ \/ stat'[q] = stat[q] /\ ~(stat[q] = "asleep" /\ call[q].ch = c
                                                       /\ cnt[c] <= 1)
                            \/ stat[q] = "asleep" /\ stat'[q] = "run" /\ call[q].ch = c
                               /\ cnt[c] <= 1
                      \/ q = p /\ stat'[q] = "user" /\ call'[q] = IdleCall
  BY <1>1, <1>2 DEF ProcType, StatLeft
<1>5. TypeOK' /\ Layout'
  <2>1. stat' \in [Proc -> Stat]
    BY <1>1, <1>2 DEF ProcType, StatLeft, Stat
  <2> QED BY <1>1, <1>2, <1>3, <2>1, IdleCallType
       DEF IInv, TypeOK, SetsType, SemsType, UndoType, ProcType, ExecType,
           Layout, setVars, undoVars, execVars
<1>6. Sleepers'
  <2> SUFFICES ASSUME NEW q \in Proc, stat'[q] = "asleep"
               PROVE  /\ cnt'[call'[q].ch] > 0
                      /\ Waits(q, semval[call[q].ch[2]])'
                      /\ \A j \in 1 .. Len(trail') : Waits(q, trail[j].val[call[q].ch[2]])'
    BY DEF Sleepers
  <2>1. stat[q] = "asleep" /\ call'[q] = call[q] /\ (call[q].ch = c => cnt[c] > 1)
    BY <1>4, <1>t, SizesAssumption
  <2>2. call[q].ch \in Chan
    BY <1>2 DEF ProcType, Call
  <2>3. cnt[call[q].ch] > 0 /\ Waits(q, semval[call[q].ch[2]])
    BY <2>1, <1>2 DEF Sleepers
  <2>4. cnt'[call[q].ch] > 0
    BY <2>1, <2>2, <2>3, <1>3, <1>t, SizesAssumption
  <2>5. trail' = <<>>
    BY <1>1, <1>2 DEF KernelOK, execVars
  <2> QED BY <2>1, <2>3, <2>4, <2>5, <1>1 DEF Waits
<1>7. CountsOK'
  <2> SUFFICES ASSUME NEW ch \in Chan PROVE cnt'[ch] <= Cardinality(Counted(ch)') + stops'
    BY DEF CountsOK
  <2>1. Counted(ch) \subseteq Proc /\ Counted(ch)' \subseteq Proc
    BY DEF Counted
  <2>2. /\ IsFiniteSet(Counted(ch)) /\ Cardinality(Counted(ch)) \in Nat
        /\ IsFiniteSet(Counted(ch)') /\ Cardinality(Counted(ch)') \in Nat
    BY <2>1, FS_Subset, FS_CardinalityType DEF Premises
  <2>3. stops' = stops /\ stops \in Nat /\ cnt[ch] <= Cardinality(Counted(ch)) + stops
    BY <1>1, <1>2, SizesAssumption DEF CountsOK, ProcType
  <2>4. CASE ch = c /\ cnt[c] <= 1
    BY <2>4, <2>2, <2>3, <1>3
  <2>5. CASE ch = c /\ cnt[c] > 1
    <3>1. Counted(ch) \subseteq Counted(ch)' \cup {p}
      BY <1>4, <1>t, <2>5, SizesAssumption DEF Counted
    <3>2. /\ IsFiniteSet(Counted(ch)' \cup {p})
          /\ Cardinality(Counted(ch)' \cup {p}) <= Cardinality(Counted(ch)') + 1
      <4>1. IsFiniteSet(Counted(ch)') /\ Cardinality(Counted(ch)') \in Nat
        BY <2>2
      <4> HIDE DEF c
      <4> QED BY <4>1, FS_AddElement
    <3>3. Cardinality(Counted(ch)) <= Cardinality(Counted(ch)' \cup {p})
      BY <3>1, <3>2, FS_Subset
    <3>4. Cardinality(Counted(ch)' \cup {p}) \in Nat
      BY <3>2, FS_CardinalityType
    <3>5. cnt'[ch] = cnt[ch] - 1 /\ cnt[ch] \in Int
      BY <1>3, <1>t, <2>5, SizesAssumption
    <3> QED BY <3>2, <3>3, <3>4, <3>5, <2>2, <2>3
  <2>6. CASE ch # c
    <3>1. Counted(ch) \subseteq Counted(ch)'
      <4>1. ASSUME NEW q \in Counted(ch) PROVE q \in Counted(ch)'
        BY <1>4, <2>6 DEF Counted
      <4> QED BY <4>1
    <3>2. Cardinality(Counted(ch)) <= Cardinality(Counted(ch)')
      BY <3>1, <2>2, FS_Subset
    <3>3. cnt'[ch] = cnt[ch] /\ cnt[ch] \in Int
      BY <1>3, <1>t, <2>6, SizesAssumption
    <3> QED BY <3>2, <3>3, <2>2, <2>3
  <2> QED BY <2>4, <2>5, <2>6, <1>t, SizesAssumption
<1>8. CallsOK'
  <2>1. \A q \in Proc : Pending(q)' => /\ Pending(q) /\ call'[q] = call[q]
                                       /\ stat[q] = "fault" => stat'[q] = "fault"
    BY <1>4 DEF Pending
  <2> QED BY <1>1, <1>2, <2>1, CallsKept DEF setVars
<1>9. KernelOK' /\ TrailOK' /\ AboutToSleep'
  <2>1. \A q \in Proc : stat'[q] # "kernel"
    BY <1>1, <1>2, <1>4, ProcAssumption, ZenonT(60) DEF KernelOK
  <2> QED BY <2>1, <1>1, <1>2, IdleKept
<1> QED BY <1>5, <1>6, <1>7, <1>8, <1>9 DEF IInv

-----------------------------------------------------------------------------
(* The process in the kernel.                                              *)

\* semaoe keeps the shape of the undo structures.
LEMMA SemaoeType ==
    ASSUME UndoType, NEW p \in Proc, NEW k \in Key, NEW val \in Int,
           SemaoeOK(p, k, val), SemaoeDone(p, k, val)
    PROVE  UndoType'
<1>1. UndoOf(p) \in Undo /\ (sem_undo[p] = NoUndo => semfup # <<>>)
  BY DEF UndoType, SemaoeOK, UndoOf
<1>2. un' \in [Undo -> [Key -> Int]]
  BY <1>1 DEF UndoType, SemaoeDone
<1>3. sem_undo' \in [Proc -> Undo \cup {NoUndo}]
  BY <1>1 DEF UndoType, SemaoeDone
<1>4. semfup' \in Seq(Undo)
  BY <1>1 DEF UndoType, SemaoeDone
<1> QED BY <1>2, <1>3, <1>4 DEF UndoType

\* The operations of the process in the kernel and the keys of its entries.
LEMMA CurTypes ==
    ASSUME IInv, cur # NoProc, NEW j \in 1 .. Len(Ops)
    PROVE  /\ Ops[j].num \in Nums /\ Ops[j].op \in Int
           /\ CurKey(Ops[j]) \in Key
           /\ SemOf(call[cur].id[1], Ops[j].num) \in Sems
BY InKernel DEF SemOp, CurKey, Key, Id

\* The process in the kernel leaves it, to sleep or to return.
LEMMA KernelLeft ==
    ASSUME IInv, cur # NoProc, cur' = NoProc, pc' = "idle", trail' = <<>>,
           UNCHANGED sema, stat'[cur] \in {"user", "asleep"},
           stat'[cur] = "asleep" => call'[cur] = call[cur],
           \A q \in Proc \ {cur} :
               /\ call'[q] = call[q]
               /\ stat'[q] = stat[q] \/ (stat[q] = "asleep" /\ stat'[q] = "run")
    PROVE  CallsOK' /\ KernelOK' /\ TrailOK' /\ AboutToSleep'
<1>1. cur \in Proc /\ stat[cur] = "kernel"
  BY InKernel
<1>2. CallsOK'
  <2>1. CallsOK /\ Pending(cur)
    BY <1>1 DEF IInv, Pending
  <2>2. ASSUME NEW q \in Proc
        PROVE  Pending(q)' => /\ Pending(q) /\ call'[q] = call[q]
                              /\ stat[q] = "fault" => stat'[q] = "fault"
    <3>1. CASE q = cur
      BY <3>1, <2>1, <1>1 DEF Pending
    <3>2. CASE q # cur
      BY <3>2 DEF Pending
    <3> QED BY <3>1, <3>2
  <2> QED BY <2>1, <2>2, CallsKept
<1>3. KernelOK'
  <2>1. \A q \in Proc : stat'[q] # "kernel"
    BY <1>1 DEF IInv, KernelOK
  <2> QED BY <2>1, ProcAssumption DEF KernelOK
<1> QED BY <1>2, <1>3 DEF TrailOK, AboutToSleep

\* It leaves without touching a count, to user mode.
LEMMA Returned ==
    ASSUME Premises, IInv, cur # NoProc, Return(stat), UNCHANGED semVars
    PROVE  IInv'
<1>1. /\ stat' = [stat EXCEPT ![cur] = "user"]
      /\ call' = [call EXCEPT ![cur] = IdleCall]
      /\ sig' = [sig EXCEPT ![cur] = FALSE]
      /\ cur' = NoProc /\ pc' = "idle" /\ i' = 1 /\ after' = "error" /\ trail' = <<>>
      /\ UNCHANGED <<setVars, undoVars, stops, semVars>>
  BY DEF Return
<1>2. SemsType /\ ProcType /\ CountsOK /\ Sleepers /\ cur \in Proc /\ stat[cur] = "kernel"
  BY InKernel DEF IInv, TypeOK
<1>3. \A q \in Proc : \/ q # cur /\ stat'[q] = stat[q] /\ call'[q] = call[q] /\ sig'[q] = sig[q]
                      \/ q = cur /\ stat'[q] = "user"
  BY <1>1, <1>2 DEF ProcType
<1>4. TypeOK' /\ Layout'
  BY <1>1, IdleCallType
     DEF IInv, TypeOK, SetsType, SemsType, UndoType, ProcType, ExecType, Stat,
         Layout, setVars, semVars, undoVars
<1>5. Sleepers'
  <2>1. \A q \in Proc : stat'[q] = "asleep" => stat[q] = "asleep" /\ call'[q] = call[q]
    BY <1>3
  <2> QED BY <2>1, <1>1, <1>2 DEF Sleepers, Waits, semVars
<1>6. CountsOK'
  BY <1>1, <1>2, <1>3, QuietCounts DEF Premises
<1>7. CallsOK' /\ KernelOK' /\ TrailOK' /\ AboutToSleep'
  BY <1>1, <1>2, <1>3, KernelLeft DEF setVars
<1> QED BY <1>4, <1>5, <1>6, <1>7 DEF IInv

\* A count below the width of its word is not changed by the width.
LEMMA ModBelow == ASSUME NEW x \in Nat, NEW w \in Nat, x < w PROVE x % w = x
OBVIOUS

\* A count has room for one more: there are not enough processes to wrap it.
LEMMA CntRoom ==
    ASSUME Premises, IInv, cur # NoProc, NEW ch \in Chan
    PROVE  /\ (cnt[ch] + 1) % ushort = cnt[ch] + 1
           /\ cnt[ch] + 1 < ushort
           /\ cnt[ch] + 1 <= Cardinality(Counted(ch) \cup {cur}) + stops
           /\ IsFiniteSet(Counted(ch) \cup {cur})
<1>1. cur \in Proc /\ stat[cur] = "kernel"
  BY InKernel
<1>2. Counted(ch) \subseteq Proc /\ cur \notin Counted(ch)
  BY <1>1 DEF Counted
<1>3. IsFiniteSet(Counted(ch)) /\ Cardinality(Counted(ch)) \in Nat
  BY <1>2, FS_Subset, FS_CardinalityType DEF Premises
<1>4. /\ Cardinality(Counted(ch) \cup {cur}) = Cardinality(Counted(ch)) + 1
      /\ IsFiniteSet(Counted(ch) \cup {cur})
  BY <1>2, <1>3, FS_AddElement
<1>5. Cardinality(Counted(ch) \cup {cur}) <= Cardinality(Proc)
  BY <1>1, <1>2, FS_Subset DEF Premises
<1>6. /\ cnt[ch] \in Nat /\ cnt[ch] <= Cardinality(Counted(ch)) + stops
      /\ stops \in Nat /\ stops <= MaxStops
  BY SizesAssumption DEF IInv, TypeOK, SemsType, ProcType, CountsOK
<1>7. Cardinality(Proc) + MaxStops < ushort /\ Cardinality(Proc) \in Nat
      /\ ushort \in Nat /\ MaxStops \in Nat
  BY FS_CardinalityType, SizesAssumption DEF Premises
<1>8. cnt[ch] + 1 < ushort /\ cnt[ch] + 1 <= Cardinality(Counted(ch) \cup {cur}) + stops
  BY <1>3, <1>4, <1>5, <1>6, <1>7
<1>9. (cnt[ch] + 1) % ushort = cnt[ch] + 1
  <2>1. cnt[ch] + 1 \in Nat
    BY <1>6
  <2> QED BY <2>1, <1>7, <1>8, ModBelow
<1> QED BY <1>4, <1>8, <1>9

\* semop that fails after semundo preserves the invariant.
LEMMA UndoneErrorInv == ASSUME Premises, IInv, UndoneError PROVE IInv'
<1>1. cur # NoProc
  BY DEF UndoneError, IInv, KernelOK
<1> QED BY <1>1, Returned DEF UndoneError

\* semop that succeeds preserves the invariant.
LEMMA FinishInv == ASSUME Premises, IInv, Finish PROVE IInv'
<1>1. cur # NoProc
  BY DEF Finish, IInv, KernelOK
<1> QED BY <1>1, Returned DEF Finish

\* semop that goes to sleep after semundo preserves the invariant.
LEMMA UndoneSleepInv == ASSUME Premises, IInv, UndoneSleep PROVE IInv'
<1> DEFINE c == call[cur].ch
<1>1. /\ pc = "undo" /\ i = 1 /\ after = "sleep" /\ ~sig[cur]
      /\ cnt' = [cnt EXCEPT ![c] = (@ + 1) % ushort]
      /\ stat' = [stat EXCEPT ![cur] = "asleep"]
      /\ cur' = NoProc /\ pc' = "idle" /\ after' = "error" /\ trail' = <<>>
      /\ UNCHANGED <<setVars, semval, undoVars, sig, call, stops, i>>
  BY DEF UndoneSleep
<1>2. /\ SemsType /\ ProcType /\ CountsOK /\ Sleepers /\ AboutToSleep /\ TrailOK
      /\ cur # NoProc /\ cur \in Proc /\ stat[cur] = "kernel"
  <2>1. cur # NoProc
    BY <1>1 DEF IInv, KernelOK
  <2> QED BY <2>1, InKernel DEF IInv, TypeOK
<1>t. c \in Chan /\ \A ch \in Chan : cnt[ch] \in 0 .. ushort - 1
  BY <1>2 DEF ProcType, Call, SemsType
<1>3. /\ cnt'[c] = cnt[c] + 1 /\ cnt[c] + 1 < ushort
      /\ \A ch \in Chan : ch # c => cnt'[ch] = cnt[ch]
  BY <1>1, <1>2, <1>t, CntRoom DEF SemsType
<1>4. cnt' \in [Chan -> 0 .. ushort - 1]
  <2>1. (cnt[c] + 1) % ushort \in 0 .. ushort - 1
    BY <1>2, <1>t, <1>3, CntRoom, SizesAssumption
  <2> QED BY <2>1, <1>1, <1>2 DEF SemsType
<1>5. TypeOK' /\ Layout'
  <2>1. SemsType'
    BY <1>1, <1>2, <1>4 DEF SemsType
  <2>2. ProcType'
    BY <1>1, <1>2 DEF ProcType, Stat
  <2>3. ExecType'
    BY <1>1 DEF IInv, TypeOK, ExecType
  <2> QED BY <1>1, <2>1, <2>2, <2>3
          DEF IInv, TypeOK, SetsType, UndoType, Layout, setVars, undoVars
<1>6. \A q \in Proc : q # cur => stat'[q] = stat[q]
  BY <1>1, <1>2 DEF ProcType
<1>7. Sleepers'
  <2> SUFFICES ASSUME NEW q \in Proc, stat'[q] = "asleep"
               PROVE  /\ cnt'[call'[q].ch] > 0
                      /\ Waits(q, semval[call[q].ch[2]])'
                      /\ \A j \in 1 .. Len(trail') : Waits(q, trail[j].val[call[q].ch[2]])'
    BY DEF Sleepers
  <2>1. CASE q = cur
    <3>1. cnt'[c] > 0
      BY <1>3, <1>t, SizesAssumption
    <3>2. trail[1].val = semval
      BY <1>1, <1>2 DEF TrailOK
    <3>3. Waits(cur, semval[c[2]])
      BY <1>1, <1>2, <3>2 DEF AboutToSleep
    <3> QED BY <2>1, <3>1, <3>3, <1>1 DEF Waits
  <2>2. CASE q # cur
    <3>1. stat[q] = "asleep" /\ call[q].ch \in Chan
      BY <2>2, <1>2, <1>6 DEF ProcType, Call
    <3>2. cnt[call[q].ch] > 0 /\ Waits(q, semval[call[q].ch[2]])
      BY <3>1, <1>2 DEF Sleepers
    <3>3. cnt'[call[q].ch] > 0
      BY <3>1, <3>2, <1>3, <1>t, SizesAssumption
    <3> QED BY <3>2, <3>3, <1>1 DEF Waits
  <2> QED BY <2>1, <2>2
<1>8. CountsOK'
  <2> SUFFICES ASSUME NEW ch \in Chan PROVE cnt'[ch] <= Cardinality(Counted(ch)') + stops'
    BY DEF CountsOK
  <2>1. stops' = stops
    BY <1>1
  <2>2. CASE ch = c
    <3>1. Counted(ch)' = Counted(ch) \cup {cur}
      BY <1>1, <1>2, <1>6, <2>2 DEF Counted, ProcType
    <3> QED BY <3>1, <2>1, <2>2, <1>2, <1>3, CntRoom
  <2>3. CASE ch # c
    <3>1. Counted(ch)' = Counted(ch)
      BY <1>1, <1>2, <1>6, <2>3 DEF Counted, ProcType
    <3> QED BY <3>1, <2>1, <2>3, <1>2, <1>3 DEF CountsOK
  <2> QED BY <2>2, <2>3
<1>9. CallsOK' /\ KernelOK' /\ TrailOK' /\ AboutToSleep'
  <2>1. stat'[cur] = "asleep" /\ UNCHANGED <<sema, call>>
    BY <1>1, <1>2 DEF ProcType, setVars
  <2> QED BY <2>1, <1>1, <1>2, <1>6, KernelLeft
<1> QED BY <1>5, <1>7, <1>8, <1>9 DEF IInv

\* semop that finds a signal instead of sleeping preserves the invariant.
LEMMA UndoneIntrInv == ASSUME Premises, IInv, UndoneIntr PROVE IInv'
<1> DEFINE ch0 == call[cur].ch
           c == (cnt[ch0] + 1) % ushort
<1>1. /\ pc = "undo" /\ i = 1 /\ after = "sleep" /\ sig[cur]
      /\ cnt' = [cnt EXCEPT ![ch0] = CntLeft(c)]
      /\ stat' = [StatLeft(ch0, c) EXCEPT ![cur] = "user"]
      /\ call' = [call EXCEPT ![cur] = IdleCall]
      /\ sig' = [sig EXCEPT ![cur] = FALSE]
      /\ cur' = NoProc /\ pc' = "idle" /\ i' = 1 /\ after' = "error" /\ trail' = <<>>
      /\ UNCHANGED <<setVars, semval, undoVars, stops>>
  BY DEF UndoneIntr, Return
<1>2. /\ SemsType /\ ProcType /\ CountsOK /\ Sleepers
      /\ cur # NoProc /\ cur \in Proc /\ stat[cur] = "kernel"
  <2>1. cur # NoProc
    BY <1>1 DEF IInv, KernelOK
  <2> QED BY <2>1, InKernel DEF IInv, TypeOK
<1>t. ch0 \in Chan /\ \A ch \in Chan : cnt[ch] \in 0 .. ushort - 1
  BY <1>2 DEF ProcType, Call, SemsType
<1>3. c = cnt[ch0] + 1 /\ CntLeft(c) = cnt[ch0]
  <2>1. c = cnt[ch0] + 1
    BY <1>2, <1>t, CntRoom
  <2> HIDE DEF c
  <2> QED BY <2>1, <1>t, SizesAssumption DEF CntLeft
<1>4. cnt' = cnt
  BY <1>1, <1>2, <1>3 DEF SemsType
<1>5. \A q \in Proc : \/ /\ q # cur /\ call'[q] = call[q] /\ sig'[q] = sig[q]
                         /\ \/ stat'[q] = stat[q]
                            \/ stat[q] = "asleep" /\ stat'[q] = "run" /\ call[q].ch = ch0
                               /\ c <= 1
                      \/ q = cur /\ stat'[q] = "user"
  BY <1>1, <1>2 DEF ProcType, StatLeft
<1>6. \A q \in Proc : q # cur => stat'[q] = stat[q] /\ call'[q] = call[q] /\ sig'[q] = sig[q]
  <2> SUFFICES ASSUME NEW q \in Proc, stat[q] = "asleep", call[q].ch = ch0, c <= 1
               PROVE  FALSE
    BY <1>5
  <2>1. cnt[ch0] > 0
    BY <1>2 DEF Sleepers
  <2> QED BY <2>1, <1>3, <1>t, SizesAssumption
<1>7. TypeOK' /\ Layout'
  <2>1. stat' \in [Proc -> Stat]
    BY <1>1, <1>2 DEF ProcType, StatLeft, Stat
  <2>2. SemsType'
    BY <1>1, <1>2, <1>4 DEF SemsType
  <2>3. ProcType'
    BY <1>1, <1>2, <2>1, IdleCallType DEF ProcType
  <2>4. ExecType'
    BY <1>1 DEF ExecType
  <2> QED BY <1>1, <2>2, <2>3, <2>4
          DEF IInv, TypeOK, SetsType, UndoType, Layout, setVars, undoVars
<1>8. Sleepers'
  <2>1. \A q \in Proc : stat'[q] = "asleep" => stat[q] = "asleep" /\ call'[q] = call[q]
    BY <1>5, <1>6
  <2> QED BY <2>1, <1>1, <1>2, <1>4, SMTT(30) DEF Sleepers, Waits
<1>9. CountsOK'
  <2>1. \A q \in Proc : stat[q] = "asleep" \/ (stat[q] = "intr" /\ sig[q]) => q # cur
    BY <1>2
  <2> QED BY <2>1, <1>1, <1>2, <1>4, <1>6, QuietCounts DEF Premises, semVars
<1>10. CallsOK' /\ KernelOK' /\ TrailOK' /\ AboutToSleep'
  <2>1. stat'[cur] = "user" /\ UNCHANGED sema
    BY <1>1, <1>2, <1>5 DEF setVars
  <2> QED BY <2>1, <1>1, <1>2, <1>6, KernelLeft
<1> QED BY <1>7, <1>8, <1>9, <1>10 DEF IInv

-----------------------------------------------------------------------------
(* The steps of the loop and of semundo.                                   *)

\* An element of a sequence is in the set the sequence is over.
LEMMA ElementOf == ASSUME NEW S, NEW q \in Seq(S), NEW j \in 1 .. Len(q) PROVE q[j] \in S
OBVIOUS

\* All but the last element.
LEMMA FrontOf ==
    ASSUME NEW S, NEW q \in Seq(S), Len(q) > 1
    PROVE  /\ Front(q) \in Seq(S) /\ Len(Front(q)) = Len(q) - 1
           /\ \A j \in 1 .. Len(q) - 1 : Front(q)[j] = q[j]
<1> DEFINE n == Len(q) - 1
<1>1. n \in Nat /\ n >= 1 /\ \A j \in 1 .. n : q[j] \in S
  OBVIOUS
<1>2. Front(q) = SubSeq(q, 1, n)
  BY DEF Front
<1> HIDE DEF n
<1>3. /\ SubSeq(q, 1, n) \in Seq(S)
      /\ Len(SubSeq(q, 1, n)) = IF 1 <= n THEN n - 1 + 1 ELSE 0
      /\ \A j \in 1 .. n - 1 + 1 : SubSeq(q, 1, n)[j] = q[1 + j - 1]
  BY <1>1, SubSeqProperties
<1>4. n - 1 + 1 = n /\ \A j \in 1 .. n : 1 + j - 1 = j
  BY <1>1
<1>5. \A j \in 1 .. n : SubSeq(q, 1, n)[j] = q[j]
  BY <1>3, <1>4
<1>6. Len(SubSeq(q, 1, n)) = n
  BY <1>1, <1>3, <1>4
<1> QED BY <1>2, <1>3, <1>5, <1>6 DEF n

\* The values in the trail.
LEMMA TrailTypes ==
    ASSUME ExecType, TrailOK, cur # NoProc, NEW j \in 1 .. i
    PROVE  trail[j].val \in [Sems -> 0 .. semvmx] /\ trail[j].val \in [Sems -> Int]
<1>1. j \in 1 .. Len(trail)
  BY DEF TrailOK
<1>2. trail[j] \in [val : [Sems -> 0 .. semvmx], un : [Undo -> [Key -> Int]]]
  BY <1>1, ElementOf DEF ExecType
<1>3. trail[j].val \in [Sems -> 0 .. semvmx]
  BY <1>2
<1>4. 0 .. semvmx \subseteq Int
  BY SizesAssumption
<1>5. trail[j].val \in [Sems -> Int]
  BY <1>3, <1>4
<1> QED BY <1>3, <1>5

\* The process in the kernel stays there, on the same set.
LEMMA StillInKernel ==
    ASSUME KernelOK, cur # NoProc, UNCHANGED <<sema, cur>>, pc' # "idle",
           call'[cur].id = call[cur].id,
           \A q \in Proc : stat'[q] = "kernel" <=> stat[q] = "kernel"
    PROVE  KernelOK'
BY DEF KernelOK, Semconv

\* An operation has been done: the trail grows by its result.
LEMMA TrailGrows ==
    ASSUME IInv, cur # NoProc, i <= Len(Ops),
           semval' = [semval EXCEPT ![CurSem] = @ + CurOp.op],
           NEW r, r.val = semval', trail' = Append(trail, r),
           i' = i + 1, UNCHANGED <<sema, call, cur>>
    PROVE  /\ TrailOK'
           /\ \A j \in 1 .. Len(trail') :
                 (j \in 1 .. Len(trail) /\ trail'[j] = trail[j]) \/ trail'[j].val = semval'
<1> DEFINE t == call[cur].id[1]
<1>1. /\ i \in Nat \ {0} /\ Len(trail) = i /\ trail[i].val = semval
      /\ Len(Ops) \in Nat
      /\ semval \in [Sems -> 0 .. semvmx]
  BY InKernel DEF IInv, TypeOK, SemsType, ExecType, TrailOK
<1>2. /\ Len(trail') = i + 1 /\ trail'[i + 1].val = semval'
      /\ \A j \in 1 .. i : trail'[j] = trail[j]
  BY <1>1 DEF IInv, TypeOK, ExecType
<1>3. ASSUME NEW j \in 1 .. i
      PROVE  trail'[j + 1].val = [trail'[j].val EXCEPT ![SemOf(t, Ops[j].num)] = @ + Ops[j].op]
  <2>1. CASE j = i
    BY <2>1, <1>1, <1>2 DEF CurSem, CurOp
  <2>2. CASE j # i
    <3>1. j \in 1 .. i - 1 /\ j + 1 \in 1 .. i
      BY <2>2, <1>1
    <3>2. trail[j + 1].val = [trail[j].val EXCEPT ![SemOf(t, Ops[j].num)] = @ + Ops[j].op]
      BY <3>1 DEF IInv, TrailOK
    <3> QED BY <3>1, <3>2, <1>2
  <2> QED BY <2>1, <2>2
<1>4. ASSUME NEW j \in 1 .. i + 1, NEW s \in Sems, Untouched(j, s)
      PROVE  trail'[j].val[s] = trail'[1].val[s]
  <2>1. \A m \in 1 .. i : Untouched(m, s) => trail[m].val[s] = trail[1].val[s]
    BY DEF IInv, TrailOK
  <2>2. CASE j \in 1 .. i
    BY <2>1, <2>2, <1>1, <1>2, <1>4
  <2>3. CASE j = i + 1
    <3>1. trail[i].val[s] = trail[1].val[s]
      <4>1. i \in 1 .. i /\ \A k \in 1 .. i - 1 : k \in 1 .. j - 1
        BY <1>1, <2>3
      <4>2. Untouched(i, s)
        BY <4>1, <1>4 DEF Untouched
      <4> QED BY <4>1, <4>2, <2>1
    <3>2. semval'[s] = semval[s]
      <4>1. CASE CurSem = s
        <5>1. i \in 1 .. j - 1 /\ SemOf(t, Ops[i].num) = s
          BY <1>1, <2>3, <4>1 DEF CurSem, CurOp
        <5>2. CurOp.op = 0 /\ semval[s] \in Int
          BY <5>1, <1>1, <1>4, SizesAssumption DEF CurOp, Untouched
        <5> QED BY <5>2, <4>1, <1>1
      <4>2. CASE CurSem # s
        BY <4>2, <1>1
      <4> QED BY <4>1, <4>2
    <3> QED BY <3>1, <3>2, <2>3, <1>1, <1>2
  <2> QED BY <2>2, <2>3, <1>1
<1>5. TrailOK'
  <2>1. /\ cur' = cur /\ call'[cur].id = call[cur].id /\ Ops' = Ops
        /\ \A n : SemOf(t, n)' = SemOf(t, n)
    BY DEF Ops, SemOf
  <2>2. i' <= Len(Ops) + 1 /\ i' - 1 = i /\ i' = i + 1
    BY <1>1
  <2>3. (\A j \in 1 .. i - 1 :
            trail[j + 1].val = [trail[j].val EXCEPT
                ![SemOf(call[cur].id[1], Ops[j].num)] = @ + Ops[j].op])'
    BY <1>3, <2>1, <2>2, ZenonT(60) DEF SemOf
  <2>4. (\A j \in 1 .. i, s \in Sems :
            Untouched(j, s) => trail[j].val[s] = trail[1].val[s])'
    <3>1. ASSUME NEW j, NEW s PROVE Untouched(j, s)' <=> Untouched(j, s)
      BY <2>1 DEF Untouched
    <3> QED BY <1>4, <2>2, <3>1
  <2>5. (i <= Len(Ops) + 1 /\ Len(trail) = i /\ trail[i].val = semval)'
    BY <1>2, <2>1, <2>2
  <2> QED BY <2>3, <2>4, <2>5 DEF TrailOK
<1>6. ASSUME NEW j \in 1 .. Len(trail')
      PROVE  (j \in 1 .. Len(trail) /\ trail'[j] = trail[j]) \/ trail'[j].val = semval'
  <2>1. j \in 1 .. i \/ j = i + 1
    BY <1>1, <1>2
  <2> QED BY <2>1, <1>1, <1>2
<1> QED BY <1>5, <1>6

\* An operation that changes its semaphore has been done, and it woke enough.
LEMMA DoneInv ==
    ASSUME Premises, IInv, pc = "loop", i <= Len(Ops), ~AdjustFails(CurOp),
           NEW C \in SUBSET Chan, Done(C),
           semval[CurSem] + CurOp.op \in 0 .. semvmx,
           <<"n", CurSem>> \notin C => CurOp.op <= 0,
           <<"z", CurSem>> \notin C => semval[CurSem] + CurOp.op # 0
    PROVE  IInv'
<1>1. /\ semval' = [semval EXCEPT ![CurSem] = @ + CurOp.op]
      /\ Adjust(CurOp)
      /\ cnt' = CntAfter(C) /\ stat' = StatAfter(C)
      /\ i' = i + 1
      /\ trail' = Append(trail, [val |-> semval', un |-> un'])
      /\ UNCHANGED <<setVars, sig, call, stops, cur, pc, after>>
  BY DEF Done
<1>2. /\ SemsType /\ UndoType /\ ProcType /\ ExecType /\ CountsOK /\ Sleepers /\ KernelOK
      /\ CallsOK /\ cur # NoProc /\ cur \in Proc /\ stat[cur] = "kernel"
  <2>1. cur # NoProc
    BY DEF IInv, KernelOK
  <2> QED BY <2>1, InKernel DEF IInv, TypeOK
<1>3. /\ i \in 1 .. Len(Ops) /\ CurOp.op \in Int /\ CurKey(CurOp) \in Key /\ CurSem \in Sems
  <2>1. i \in 1 .. Len(Ops)
    BY <1>2, InKernel DEF ExecType
  <2> QED BY <2>1, <1>2, CurTypes DEF CurOp, CurSem
<1>4. SemsType' /\ stat' \in [Proc -> Stat]
  BY <1>1, <1>2, <1>3, WakeType DEF SemsType
<1>5. UndoType'
  <2>1. CASE CurOp.undo
    BY <2>1, <1>1, <1>2, <1>3, SemaoeType DEF Adjust, AdjustFails
  <2>2. CASE ~CurOp.undo
    BY <2>2, <1>1, <1>2 DEF Adjust, undoVars, UndoType
  <2> QED BY <2>1, <2>2
<1>6. TypeOK' /\ Layout'
  <2>1. [val |-> semval', un |-> un'] \in [val : [Sems -> 0 .. semvmx], un : [Undo -> [Key -> Int]]]
    BY <1>4, <1>5 DEF SemsType, UndoType
  <2>2. ExecType'
    BY <2>1, <1>1, <1>2 DEF ExecType
  <2>3. ProcType'
    BY <1>1, <1>2, <1>4 DEF ProcType
  <2> QED BY <1>1, <1>4, <1>5, <2>2, <2>3 DEF IInv, TypeOK, SetsType, Layout, setVars
<1>7. /\ TrailOK'
      /\ \A j \in 1 .. Len(trail') :
            (j \in 1 .. Len(trail) /\ trail'[j] = trail[j]) \/ trail'[j].val = semval'
  BY <1>1, <1>2, TrailGrows DEF setVars
<1>8. Sleepers'
  <2>1. ASSUME NEW r \in Sems
        PROVE  /\ <<"n", r>> \notin C => semval'[r] <= semval[r]
               /\ <<"z", r>> \notin C => semval'[r] # 0 \/ semval'[r] = semval[r]
    <3>1. semval[r] \in Int
      BY <1>2, SizesAssumption DEF SemsType
    <3>2. CASE r = CurSem
      BY <3>1, <3>2, <1>1, <1>2, <1>3 DEF SemsType
    <3>3. CASE r # CurSem
      BY <3>1, <3>3, <1>1, <1>2 DEF SemsType
    <3> QED BY <3>2, <3>3
  <2>2. \A q \in Proc : stat'[q] = "asleep" =>
           StatAfter(C)[q] = "asleep" /\ call'[q] = call[q]
    BY <1>1
  <2> QED BY <1>1, <1>2, <1>4, <1>7, <2>1, <2>2, WakeSleepers
<1>9. CountsOK'
  BY <1>1, <1>2, <1>4, WakeCounts DEF Premises
<1>10. CallsOK'
  <2>1. UNCHANGED <<sema, call>>
    BY <1>1 DEF setVars
  <2>2. \A q \in Proc : Pending(q)' => /\ Pending(q)
                                       /\ stat[q] = "fault" => stat'[q] = "fault"
    BY <1>1, <1>2, StatKinds DEF Pending
  <2> QED BY <2>1, <2>2, <1>2, CallsKept
<1>11. KernelOK'
  <2>1. \A q \in Proc : stat'[q] = "kernel" <=> stat[q] = "kernel"
    BY <1>1, <1>2, StatKinds
  <2> QED BY <2>1, <1>1, <1>2, StillInKernel DEF setVars
<1>12. AboutToSleep'
  BY <1>1 DEF AboutToSleep
<1> QED BY <1>6, <1>7, <1>8, <1>9, <1>10, <1>11, <1>12 DEF IInv

\* An operation that adds preserves the invariant.
LEMMA OpAddInv == ASSUME Premises, IInv, OpAdd PROVE IInv'
<1>1. pc = "loop" /\ i <= Len(Ops) /\ cur # NoProc /\ i \in 1 .. Len(Ops)
  BY InKernel DEF OpAdd, InLoop, IInv, KernelOK, TypeOK, ExecType
<1>2. CurSem \in Sems /\ CurOp.op \in Int /\ semval[CurSem] \in Nat
  BY <1>1, CurTypes, SizesAssumption DEF CurSem, CurOp, IInv, TypeOK, SemsType
<1>3. /\ CurOp.op > 0 /\ semval[CurSem] + CurOp.op <= semvmx /\ ~AdjustFails(CurOp)
      /\ Done({<<"n", CurSem>>})
  BY DEF OpAdd
<1>4. {<<"n", CurSem>>} \in SUBSET Chan
  BY <1>2 DEF Chan
<1>5. semval[CurSem] + CurOp.op \in 0 .. semvmx /\ semval[CurSem] + CurOp.op # 0
  BY <1>2, <1>3, SizesAssumption
<1> QED BY <1>1, <1>3, <1>4, <1>5, DoneInv

\* An operation that subtracts preserves the invariant.
LEMMA OpSubInv == ASSUME Premises, IInv, OpSub PROVE IInv'
<1> DEFINE C == IF semval[CurSem] + CurOp.op = 0 THEN {<<"z", CurSem>>} ELSE {}
<1>1. pc = "loop" /\ i <= Len(Ops) /\ cur # NoProc /\ i \in 1 .. Len(Ops)
  BY InKernel DEF OpSub, InLoop, IInv, KernelOK, TypeOK, ExecType
<1>2. /\ CurSem \in Sems /\ CurOp.op \in Int
      /\ semval[CurSem] \in Nat /\ semval[CurSem] <= semvmx
  BY <1>1, CurTypes, SizesAssumption DEF CurSem, CurOp, IInv, TypeOK, SemsType
<1>3. /\ CurOp.op < 0 /\ semval[CurSem] >= -CurOp.op /\ ~AdjustFails(CurOp) /\ Done(C)
  BY DEF OpSub
<1>4. C \in SUBSET Chan
  BY <1>2 DEF Chan
<1>5. semval[CurSem] + CurOp.op \in 0 .. semvmx
  BY <1>2, <1>3, SizesAssumption
<1>6. /\ CurOp.op <= 0
      /\ <<"z", CurSem>> \notin C => semval[CurSem] + CurOp.op # 0
  BY <1>2, <1>3
<1> HIDE DEF C
<1> QED BY <1>1, <1>3, <1>4, <1>5, <1>6, DoneInv

\* An operation that finds zero preserves the invariant.
LEMMA OpZeroInv == ASSUME Premises, IInv, OpZero PROVE IInv'
<1>1. /\ pc = "loop" /\ i <= Len(Ops) /\ CurOp.op = 0
      /\ i' = i + 1 /\ trail' = Append(trail, Snapshot)
      /\ UNCHANGED <<setVars, semVars, undoVars, procVars, cur, pc, after>>
  BY DEF OpZero, InLoop
<1>2. /\ SemsType /\ ProcType /\ UndoType /\ ExecType /\ CountsOK /\ Sleepers /\ KernelOK
      /\ CallsOK /\ cur # NoProc
  <2>1. cur # NoProc
    BY <1>1 DEF IInv, KernelOK
  <2> QED BY <2>1 DEF IInv, TypeOK
<1>3. i \in 1 .. Len(Ops) /\ CurSem \in Sems
  <2>1. i \in 1 .. Len(Ops)
    BY <1>1, <1>2, InKernel DEF ExecType
  <2> QED BY <2>1, <1>2, CurTypes DEF CurOp, CurSem
<1>4. semval' = [semval EXCEPT ![CurSem] = @ + CurOp.op] /\ Snapshot.val = semval'
  <2>1. semval \in [Sems -> Int]
    BY <1>2, SizesAssumption DEF SemsType
  <2>2. semval[CurSem] + CurOp.op = semval[CurSem]
    BY <2>1, <1>1, <1>3
  <2> QED BY <2>1, <2>2, <1>1 DEF semVars, Snapshot
<1>5. TrailOK' /\ \A j \in 1 .. Len(trail') :
                     (j \in 1 .. Len(trail) /\ trail'[j] = trail[j]) \/ trail'[j].val = semval'
  BY <1>1, <1>2, <1>4, TrailGrows DEF setVars, procVars
<1>6. TypeOK' /\ Layout'
  <2>1. Snapshot \in [val : [Sems -> 0 .. semvmx], un : [Undo -> [Key -> Int]]]
    BY <1>2 DEF Snapshot, SemsType, UndoType
  <2>2. ExecType'
    BY <2>1, <1>1, <1>2 DEF ExecType
  <2> QED BY <1>1, <2>2 DEF IInv, TypeOK, SetsType, SemsType, UndoType, ProcType,
                            Layout, setVars, semVars, undoVars, procVars
<1>7. Sleepers'
  <2> SUFFICES ASSUME NEW q \in Proc, stat[q] = "asleep"
               PROVE  /\ cnt[call[q].ch] > 0
                      /\ Waits(q, semval[call[q].ch[2]])
                      /\ \A j \in 1 .. Len(trail') : Waits(q, trail'[j].val[call[q].ch[2]])
    BY <1>1 DEF Sleepers, Waits, semVars, procVars
  <2> QED BY <1>1, <1>2, <1>5 DEF Sleepers, semVars
<1>8. CountsOK' /\ CallsOK' /\ AboutToSleep'
  BY <1>1, <1>2 DEF CountsOK, Counted, CallsOK, Pending, Semconv, NumsInRange, AboutToSleep,
                    setVars, semVars, procVars
<1>9. KernelOK'
  BY <1>1, <1>2, StillInKernel DEF setVars, procVars
<1> QED BY <1>5, <1>6, <1>7, <1>8, <1>9 DEF IInv

\* An operation that fails preserves the invariant.
LEMMA OpFailInv == ASSUME Premises, IInv, OpFail PROVE IInv'
<1>1. /\ pc = "loop" /\ pc' = "undo" /\ after' = "error"
      /\ UNCHANGED <<setVars, semVars, undoVars, procVars, cur, i, trail>>
  BY DEF OpFail, InLoop, TakeBack
<1>2. KernelOK /\ cur # NoProc
  BY <1>1 DEF IInv, KernelOK
<1>3. TypeOK' /\ Layout'
  BY <1>1 DEF IInv, TypeOK, SetsType, SemsType, UndoType, ProcType, ExecType,
              Layout, setVars, semVars, undoVars, procVars
<1>4. Sleepers'
  BY <1>1 DEF IInv, Sleepers, Waits, semVars, procVars
<1>5. CountsOK' /\ CallsOK' /\ AboutToSleep'
  BY <1>1 DEF IInv, CountsOK, Counted, CallsOK, Pending, Semconv, NumsInRange, AboutToSleep,
              setVars, semVars, procVars
<1>6. KernelOK'
  BY <1>1, <1>2, StillInKernel DEF setVars, procVars
<1>7. TrailOK'
  BY <1>1, ZenonT(60) DEF IInv, TrailOK, Untouched, Ops, SemOf, setVars, semVars, procVars
<1> QED BY <1>3, <1>4, <1>5, <1>6, <1>7 DEF IInv

\* An operation that has to wait preserves the invariant.
LEMMA OpBlockInv == ASSUME Premises, IInv, OpBlock PROVE IInv'
<1> DEFINE need == -CurOp.op - (semval[CurSem] - trail[1].val[CurSem])
           kind == IF CurOp.op < 0 THEN "n" ELSE "z"
<1>1. /\ pc = "loop" /\ i <= Len(Ops) /\ pc' = "undo" /\ after' \in {"error", "sleep"}
      /\ \/ CurOp.op < 0 /\ semval[CurSem] < -CurOp.op
         \/ CurOp.op = 0 /\ semval[CurSem] # 0
      /\ call' = [call EXCEPT ![cur].ch = <<kind, CurSem>>, ![cur].need = need]
      /\ UNCHANGED <<setVars, semVars, undoVars, stat, sig, stops, cur, i, trail>>
  BY DEF OpBlock, InLoop, TakeBack
<1>2. /\ SemsType /\ ProcType /\ ExecType /\ CountsOK /\ Sleepers /\ KernelOK /\ TrailOK
      /\ CallsOK /\ cur # NoProc /\ cur \in Proc /\ stat[cur] = "kernel"
  <2>1. cur # NoProc
    BY <1>1 DEF IInv, KernelOK
  <2> QED BY <2>1, InKernel DEF IInv, TypeOK
<1>3. i \in 1 .. Len(Ops) /\ CurOp.op \in Int /\ CurSem \in Sems
  <2>1. i \in 1 .. Len(Ops)
    BY <1>1, <1>2, InKernel DEF ExecType
  <2> QED BY <2>1, <1>2, CurTypes DEF CurOp, CurSem
<1>4. semval[CurSem] \in Nat /\ trail[1].val[CurSem] \in Nat
  <2>1. 1 \in 1 .. i
    BY <1>3
  <2>2. trail[1].val \in [Sems -> 0 .. semvmx] /\ semval \in [Sems -> 0 .. semvmx]
    BY <2>1, <1>2, TrailTypes DEF SemsType
  <2>3. \A v \in 0 .. semvmx : v \in Nat
    BY SizesAssumption
  <2> QED BY <2>2, <2>3, <1>3
<1>5. /\ call' \in [Proc -> Call]
      /\ \A q \in Proc \ {cur} : call'[q] = call[q]
      /\ call'[cur].id = call[cur].id /\ call'[cur].ops = call[cur].ops
      /\ call'[cur].cmd = call[cur].cmd /\ call'[cur].again = call[cur].again
      /\ call'[cur].ch = <<kind, CurSem>> /\ call'[cur].need = need
  <2>1. <<kind, CurSem>> \in Chan /\ need \in Int
    BY <1>3, <1>4 DEF Chan
  <2> HIDE DEF need, kind
  <2>2. call[cur] \in Call
    BY <1>2 DEF ProcType
  <2> QED BY <1>1, <1>2, <2>1, <2>2 DEF ProcType, Call
<1>6. TypeOK' /\ Layout'
  BY <1>1, <1>5 DEF IInv, TypeOK, SetsType, SemsType, UndoType, ProcType, ExecType,
                    Layout, setVars, semVars, undoVars
<1>7. Sleepers'
  <2>1. \A q \in Proc : stat[q] = "asleep" => q # cur
    BY <1>2
  <2> QED BY <2>1, <1>1, <1>2, <1>5, ZenonT(60) DEF Sleepers, Waits, semVars
<1>8. CountsOK'
  BY <1>1, <1>2, <1>5, QuietCounts DEF Premises
<1>9. CallsOK'
  <2>1. \A q \in Proc : /\ stat'[q] = stat[q] /\ (Pending(q)' => Pending(q))
                        /\ call'[q].id = call[q].id /\ call'[q].ops = call[q].ops
                        /\ call'[q].cmd = call[q].cmd /\ call'[q].again = call[q].again
    BY <1>1, <1>2, <1>5 DEF Pending
  <2> QED BY <2>1, <1>1, <1>2, CallsKept DEF setVars
<1>10. KernelOK'
  BY <1>1, <1>2, <1>5, StillInKernel DEF setVars
<1>11. TrailOK'
  <2>1. /\ Ops' = Ops /\ cur' = cur /\ call'[cur].id = call[cur].id
        /\ \A n : SemOf(call[cur].id[1], n)' = SemOf(call[cur].id[1], n)
    BY <1>1, <1>5 DEF Ops, SemOf, setVars
  <2>2. ASSUME NEW j, NEW s PROVE Untouched(j, s)' <=> Untouched(j, s)
    BY <2>1 DEF Untouched
  <2>3. UNCHANGED <<i, trail, semval>>
    BY <1>1 DEF semVars
  <2>4. (\A j \in 1 .. i - 1 :
            trail[j + 1].val = [trail[j].val EXCEPT
                ![SemOf(call[cur].id[1], Ops[j].num)] = @ + Ops[j].op])'
    <3>1. \A j \in 1 .. i - 1 :
             trail[j + 1].val = [trail[j].val EXCEPT
                ![SemOf(call[cur].id[1], Ops[j].num)] = @ + Ops[j].op]
      BY <1>2 DEF TrailOK
    <3>2. \A j : SemOf(call[cur].id[1], Ops[j].num)' = SemOf(call[cur].id[1], Ops[j].num)
      BY <2>1, <1>1 DEF SemOf, setVars
    <3> QED BY <2>1, <2>3, <3>1, <3>2
  <2>5. (\A j \in 1 .. i, s \in Sems :
            Untouched(j, s) => trail[j].val[s] = trail[1].val[s])'
    BY <2>2, <2>3, <1>2 DEF TrailOK
  <2>6. (i <= Len(Ops) + 1 /\ Len(trail) = i /\ trail[i].val = semval)'
    BY <2>1, <2>3, <1>2 DEF TrailOK
  <2> QED BY <2>4, <2>5, <2>6 DEF TrailOK
<1>12. AboutToSleep'
  <2>1. CASE CurOp.op < 0
    <3>1. trail[1].val[CurSem] < need
      BY <1>1, <1>3, <1>4, <2>1, SMTT(30)
    <3>2. kind = "n" /\ call'[cur].ch[1] = "n" /\ call'[cur].ch[2] = CurSem
      BY <1>5, <2>1
    <3> HIDE DEF need, kind
    <3> QED BY <3>1, <3>2, <1>1, <1>5 DEF AboutToSleep, Waits
  <2>2. CASE CurOp.op = 0
    <3>1. Untouched(i, CurSem)
      <4> SUFFICES ASSUME NEW k \in 1 .. i - 1,
                          SemOf(call[cur].id[1], Ops[k].num) = CurSem
                   PROVE  Ops[k].op = 0
        BY DEF Untouched
      <4>1. k \in 1 .. Len(Ops) /\ Ops[k].num \in Int /\ Ops[i].num \in Int
        <5>1. k \in 1 .. Len(Ops)
          BY <1>3, InKernel, <1>2
        <5> QED BY <5>1, <1>2, <1>3, CurTypes, SizesAssumption DEF Nums
      <4>2. sema[call[cur].id[1]].base \in Int
        BY <1>2, InKernel, SizesAssumption DEF IInv, TypeOK, SetsType, Sems
      <4>3. Ops[k].num = Ops[i].num
        BY <4>1, <4>2 DEF CurSem, CurOp, SemOf
      <4>4. Ops \in OpLists
        BY <1>2 DEF CallsOK, Pending, Ops
      <4> QED BY <4>3, <4>4, <1>3, <2>2 DEF Premises, ZeroFirst, CurOp
    <3>2. trail[1].val[CurSem] # 0
      <4>1. i \in 1 .. i
        BY <1>3
      <4>2. trail[i].val[CurSem] = trail[1].val[CurSem] /\ trail[i].val = semval
        BY <3>1, <4>1, <1>2, <1>3 DEF TrailOK
      <4> QED BY <4>2, <1>1, <2>2
    <3>3. call'[cur].ch[1] = "z" /\ call'[cur].ch[2] = CurSem
      BY <1>5, <2>2
    <3> QED BY <3>2, <3>3, <1>1 DEF AboutToSleep, Waits
  <2> QED BY <2>1, <2>2, <1>1
<1> QED BY <1>6, <1>7, <1>8, <1>9, <1>10, <1>11, <1>12 DEF IInv

\* An iteration of semundo preserves the invariant.
LEMMA UndoStepInv == ASSUME Premises, IInv, UndoStep PROVE IInv'
<1> DEFINE op == Ops[i - 1]
           s0 == SemOf(call[cur].id[1], op.num)
<1>1. /\ pc = "undo" /\ i > 1
      /\ semval' = [semval EXCEPT ![s0] = @ - op.op] /\ UndoAdjust(op)
      /\ i' = i - 1 /\ trail' = Front(trail)
      /\ UNCHANGED <<setVars, cnt, procVars, cur, pc, after>>
  BY DEF UndoStep
<1>2. /\ SemsType /\ ProcType /\ UndoType /\ ExecType /\ CountsOK /\ Sleepers /\ KernelOK
      /\ CallsOK /\ TrailOK /\ AboutToSleep /\ cur # NoProc /\ cur \in Proc
  <2>1. cur # NoProc
    BY <1>1 DEF IInv, KernelOK
  <2> QED BY <2>1, InKernel DEF IInv, TypeOK
<1>3. /\ i \in Nat /\ i - 1 \in 1 .. Len(Ops) /\ Len(trail) = i
      /\ op.op \in Int /\ s0 \in Sems /\ CurKey(op) \in Key
  <2>1. i \in Nat /\ i <= Len(Ops) + 1 /\ Len(trail) = i /\ Len(Ops) \in Nat
    BY <1>2, InKernel DEF ExecType, TrailOK
  <2>2. i - 1 \in 1 .. Len(Ops)
    BY <2>1, <1>1
  <2> QED BY <2>1, <2>2, <1>2, CurTypes
<1>4. /\ Len(trail') = i - 1 /\ \A j \in 1 .. i - 1 : trail'[j] = trail[j]
      /\ trail' \in Seq([val : [Sems -> 0 .. semvmx], un : [Undo -> [Key -> Int]]])
  <2>1. trail \in Seq([val : [Sems -> 0 .. semvmx], un : [Undo -> [Key -> Int]]])
    BY <1>2 DEF ExecType
  <2> QED BY <2>1, <1>1, <1>3, FrontOf
<1>5. semval' = trail[i - 1].val
  <2>1. i - 1 \in 1 .. i - 1 /\ (i - 1) + 1 = i
    BY <1>1, <1>3
  <2>2. semval = [trail[i - 1].val EXCEPT ![s0] = @ + op.op]
    <3>1. trail[i].val = semval
      BY <1>2 DEF TrailOK
    <3>2. trail[(i - 1) + 1].val = [trail[i - 1].val EXCEPT ![s0] = @ + op.op]
      BY <2>1, <1>2 DEF TrailOK
    <3> QED BY <2>1, <3>1, <3>2
  <2>3. trail[i - 1].val \in [Sems -> Int]
    <3>1. i - 1 \in 1 .. i
      BY <1>1, <1>3
    <3> QED BY <3>1, <1>2, TrailTypes
  <2> HIDE DEF s0, op
  <2>4. ASSUME NEW s \in Sems PROVE semval'[s] = trail[i - 1].val[s]
    <3>1. CASE s = s0
      BY <3>1, <2>2, <2>3, <1>1, <1>3
    <3>2. CASE s # s0
      BY <3>2, <2>2, <2>3, <1>1, <1>3
    <3> QED BY <3>1, <3>2
  <2>5. DOMAIN semval' = Sems
    BY <1>1, <1>2 DEF SemsType
  <2>6. semval' = [s \in Sems |-> semval'[s]]
    BY <1>1, <2>2, <2>3
  <2> QED BY <2>3, <2>4, <2>6
<1>6. SemsType'
  <2>1. i - 1 \in 1 .. i
    BY <1>1, <1>3
  <2>2. semval' \in [Sems -> 0 .. semvmx]
    BY <2>1, <1>2, <1>5, TrailTypes
  <2> QED BY <2>2, <1>1, <1>2 DEF SemsType
<1>7. UndoType'
  <2>1. CASE op.undo /\ op.op # 0 /\ SemaoeOK(cur, CurKey(op), -op.op)
    <3>1. SemaoeDone(cur, CurKey(op), -op.op) /\ -op.op \in Int
      BY <2>1, <1>1, <1>3 DEF UndoAdjust
    <3> QED BY <3>1, <2>1, <1>2, <1>3, SemaoeType
  <2>2. CASE ~(op.undo /\ op.op # 0 /\ SemaoeOK(cur, CurKey(op), -op.op))
    BY <2>2, <1>1, <1>2 DEF UndoAdjust, undoVars, UndoType
  <2> QED BY <2>1, <2>2
<1>8. TypeOK' /\ Layout'
  <2>1. ExecType'
    BY <1>1, <1>2, <1>3, <1>4 DEF ExecType
  <2> QED BY <2>1, <1>1, <1>6, <1>7
          DEF IInv, TypeOK, SetsType, ProcType, Layout, setVars, procVars
<1>9. Sleepers'
  <2> SUFFICES ASSUME NEW q \in Proc, stat[q] = "asleep"
               PROVE  /\ cnt[call[q].ch] > 0
                      /\ Waits(q, semval'[call[q].ch[2]])
                      /\ \A j \in 1 .. Len(trail') : Waits(q, trail'[j].val[call[q].ch[2]])
    BY <1>1 DEF Sleepers, Waits, procVars
  <2>1. cnt[call[q].ch] > 0 /\ \A j \in 1 .. i : Waits(q, trail[j].val[call[q].ch[2]])
    BY <1>2, <1>3 DEF Sleepers
  <2>2. i - 1 \in 1 .. i /\ \A j \in 1 .. i - 1 : j \in 1 .. i
    BY <1>1, <1>3
  <2> QED BY <2>1, <2>2, <1>4, <1>5
<1>10. CountsOK' /\ CallsOK'
  BY <1>1, <1>2 DEF CountsOK, Counted, CallsOK, Pending, Semconv, NumsInRange,
                    setVars, procVars
<1>11. KernelOK'
  BY <1>1, <1>2, StillInKernel DEF setVars, procVars
<1>12. TrailOK'
  <2>1. UNCHANGED <<sema, call, cur>> /\ Ops' = Ops /\ i - 1 \in 1 .. i - 1
    BY <1>1, <1>3 DEF Ops, setVars, procVars
  <2>2. ASSUME NEW j, NEW s PROVE Untouched(j, s)' <=> Untouched(j, s)
    BY <2>1 DEF Untouched, SemOf
  <2>3. (i <= Len(Ops) + 1 /\ Len(trail) = i /\ trail[i].val = semval)'
    <3>1. i - 1 <= Len(Ops) + 1 /\ trail'[i - 1].val = semval'
      BY <1>3, <1>4, <1>5, <2>1
    <3> QED BY <3>1, <2>1, <1>1, <1>4
  <2>4. (\A j \in 1 .. i - 1 :
            trail[j + 1].val = [trail[j].val EXCEPT
                ![SemOf(call[cur].id[1], Ops[j].num)] = @ + Ops[j].op])'
    <3> SUFFICES ASSUME NEW j \in 1 .. i - 1 - 1
        PROVE  trail'[j + 1].val = [trail'[j].val EXCEPT
                  ![SemOf(call[cur].id[1], Ops[j].num)] = @ + Ops[j].op]
      BY <2>1, <1>1 DEF SemOf
    <3>1. j \in 1 .. i - 1 /\ j + 1 \in 1 .. i - 1
      BY <1>3
    <3> QED BY <3>1, <1>2, <1>4 DEF TrailOK
  <2>5. (\A j \in 1 .. i, s \in Sems :
            Untouched(j, s) => trail[j].val[s] = trail[1].val[s])'
    <3> SUFFICES ASSUME NEW j \in 1 .. i - 1, NEW s \in Sems, Untouched(j, s)
                 PROVE  trail'[j].val[s] = trail'[1].val[s]
      BY <2>2, <1>1
    <3>1. j \in 1 .. i /\ 1 \in 1 .. i - 1
      BY <1>1, <1>3
    <3>2. trail[j].val[s] = trail[1].val[s]
      BY <3>1, <1>2 DEF TrailOK
    <3> QED BY <3>1, <3>2, <1>4
  <2> QED BY <2>3, <2>4, <2>5 DEF TrailOK
<1>13. AboutToSleep'
  <2>1. 1 \in 1 .. i - 1
    BY <1>1, <1>3
  <2> QED BY <2>1, <1>1, <1>2, <1>4 DEF AboutToSleep, Waits, procVars
<1> QED BY <1>8, <1>9, <1>10, <1>11, <1>12, <1>13 DEF IInv

-----------------------------------------------------------------------------
(* The theorems.                                                           *)

\* A step that changes nothing preserves the invariant.
LEMMA StutterInv == ASSUME IInv, UNCHANGED vars PROVE IInv'
<1>1. TypeOK' /\ Layout'
  BY DEF IInv, TypeOK, SetsType, SemsType, UndoType, ProcType, ExecType, Layout,
         vars, setVars, semVars, undoVars, procVars, execVars
<1>2. CallsOK' /\ KernelOK' /\ AboutToSleep' /\ Sleepers' /\ CountsOK'
  BY DEF IInv, CallsOK, Pending, Semconv, NumsInRange, KernelOK, AboutToSleep, Sleepers,
         Waits, CountsOK, Counted, vars, setVars, semVars, procVars, execVars
<1>3. TrailOK'
  BY ZenonT(60) DEF IInv, TrailOK, Untouched, Ops, SemOf, vars, setVars, semVars, procVars, execVars
<1> QED BY <1>1, <1>2, <1>3 DEF IInv

\* Without page faults nobody begins to wait for a page.
LEMMA NextResident ==
    ASSUME PageFaults = FALSE, stat \in [Proc -> Stat \ {"fault"}], Next
    PROVE  stat' \in [Proc -> Stat \ {"fault"}]
<1>1. \A C : StatAfter(C) \in [Proc -> Stat \ {"fault"}]
  BY DEF StatAfter, Stat
<1>2. \A ch, c : StatLeft(ch, c) \in [Proc -> Stat \ {"fault"}]
  BY DEF StatLeft, Stat
<1>3. CASE Step
  <2>1. CASE OpAdd \/ OpSub
    BY <1>1, <2>1 DEF OpAdd, OpSub, Done
  <2>2. CASE OpZero \/ OpFail \/ OpBlock \/ UndoStep
    BY <2>2 DEF OpZero, OpFail, OpBlock, UndoStep, procVars
  <2>3. CASE UndoneError \/ UndoneSleep \/ UndoneIntr \/ Finish
    BY <1>2, <2>3 DEF UndoneError, UndoneSleep, UndoneIntr, Finish, Return, Stat
  <2> QED BY <1>3, <2>1, <2>2, <2>3 DEF Step
<1>4. ASSUME NEW p \in Proc, Syscall(p)
      PROVE  stat' \in [Proc -> Stat \ {"fault"}]
  <2>1. CASE (\E n \in 1 .. semmsl : Semget(p, n)) \/ (\E id \in Id : Rmid(p, id))
    BY <1>1, <2>1 DEF Semget, Rmid, procVars
  <2>2. CASE \E id \in Id, num \in Nums, v \in 0 .. semvmx : SetVal(p, id, num, v)
    BY <1>1, <2>2 DEF SetVal
  <2>3. CASE \E id \in Id, vals \in SetVals :
                SetAll(p, id, vals) \/ SetAllFault(p, id, vals)
    BY <1>1, <2>3 DEF SetAll, StoreAll, SetAllFault, Stat
  <2>4. CASE \E id \in Id, ops \in OpLists : Semop(p, id, ops) \/ SemopFault(p, id, ops)
    BY <2>4 DEF Semop, SemopFault, Stat
  <2>5. CASE Exit(p)
    <3>1. \/ stat' = [stat EXCEPT ![p] = "none"]
          \/ \E C : stat' = [StatAfter(C) EXCEPT ![p] = "none"]
      BY <2>5 DEF Exit, Semexit
    <3> QED BY <1>1, <3>1 DEF Stat
  <2> QED BY <1>4, <2>1, <2>2, <2>3, <2>4, <2>5 DEF Syscall
<1>5. ASSUME NEW p \in Proc, Resume(p)
      PROVE  stat' \in [Proc -> Stat \ {"fault"}]
  BY <1>2, <1>5 DEF Resume, SleepIntr, SleepRemoved, SleepAgain, EnterLoop, Stat
<1>6. ASSUME NEW p \in Proc, PageIn(p)
      PROVE  FALSE
  BY <1>6 DEF PageIn, SetAllPageIn, SemopPageIn
<1>7. ASSUME NEW p \in Proc, Signal(p) \/ StopCont(p) \/ Fork(p)
      PROVE  stat' \in [Proc -> Stat \ {"fault"}]
  BY <1>7 DEF Signal, StopCont, Fork, Stat
<1> QED BY <1>3, <1>4, <1>5, <1>6, <1>7 DEF Next

\* What NoneStraddles says of the process whose page has come.
LEMMA NotRemoved ==
    ASSUME ProcType, NoneStraddles, NEW p \in Proc
    PROVE  /\ SetAllPageIn(p) => Semconv(call[p].id)
           /\ SemopPageIn(p) => (cur' = p => Semconv(call[p].id))
<1>1. SetAllPageIn(p) => stat'[p] = "user"
  BY DEF SetAllPageIn, StoreAll, StatAfter
<1>2. SemopPageIn(p) /\ cur' = p => stat'[p] = "kernel"
  BY ProcAssumption DEF SemopPageIn, EnterLoop, ProcType, execVars
<1>3. /\ SetAllPageIn(p) => stat[p] = "fault" /\ call[p].cmd = "setall"
      /\ SemopPageIn(p) => stat[p] = "fault"
  BY DEF SetAllPageIn, SemopPageIn
<1> QED BY <1>1, <1>2, <1>3 DEF NoneStraddles

\* Every step preserves the invariant, unless somebody goes on with a set that
\* was removed while it slept in copyin.
LEMMA NextInv == ASSUME Premises, IInv, Next, NoneStraddles PROVE IInv'
<1>1. CASE Step
  BY <1>1, OpAddInv, OpSubInv, OpZeroInv, OpFailInv, OpBlockInv, UndoStepInv,
     UndoneErrorInv, UndoneSleepInv, UndoneIntrInv, FinishInv DEF Step
<1>2. ASSUME NEW p \in Proc, Syscall(p) PROVE IInv'
  <2>1. CASE \E n \in 1 .. semmsl : Semget(p, n)
    BY <2>1, SemgetInv
  <2>2. CASE \E id \in Id : Rmid(p, id)
    BY <2>2, RmidInv
  <2>3. CASE \E id \in Id, num \in Nums, v \in 0 .. semvmx : SetVal(p, id, num, v)
    BY <2>3, SetValInv
  <2>4. CASE \E id \in Id, vals \in SetVals :
                SetAll(p, id, vals) \/ SetAllFault(p, id, vals)
    BY <2>4, SetAllInv, SetAllFaultInv
  <2>5. CASE \E id \in Id, ops \in OpLists : Semop(p, id, ops) \/ SemopFault(p, id, ops)
    BY <2>5, SemopInv, SemopFaultInv
  <2>6. CASE Exit(p)
    BY <2>6, ExitInv
  <2> QED BY <1>2, <2>1, <2>2, <2>3, <2>4, <2>5, <2>6 DEF Syscall
<1>3. ASSUME NEW p \in Proc, Resume(p) PROVE IInv'
  BY <1>3, SleepIntrInv, SleepRemovedInv, SleepAgainInv DEF Resume
<1>4. ASSUME NEW p \in Proc, PageIn(p) PROVE IInv'
  BY <1>4, NotRemoved, SetAllInv, SemopPageInInv DEF PageIn, IInv, TypeOK
<1>5. ASSUME NEW p \in Proc, Signal(p) \/ StopCont(p) \/ Fork(p) PROVE IInv'
  BY <1>5, SignalInv, StopContInv, ForkInv
<1> QED BY <1>1, <1>2, <1>3, <1>4, <1>5 DEF Next

\* The invariant holds in every state of every run, for any number of
\* processes, sets, semaphores and operation lists, with page faults in copyin
\* too, as long as nobody goes on with a set removed in the meantime.
THEOREM SemInvariant == ASSUME Premises PROVE Spec /\ [][NoneStraddles]_vars => []IInv
<1>1. Init => IInv
  BY InitInv
<1>2. IInv /\ [Next]_vars /\ [NoneStraddles]_vars => IInv'
  BY NextInv, StutterInv
<1> QED BY <1>1, <1>2, PTL DEF Spec

\* Without page faults, as in the runs sem_sets and sem_liveness, nobody sleeps
\* in copyin (sem.c:458, 622, 648) and the condition of the other theorems
\* always holds.
THEOREM SemWithoutFaults == ASSUME PageFaults = FALSE PROVE Spec => [][NoneStraddles]_vars
<1> DEFINE Resident == stat \in [Proc -> Stat \ {"fault"}]
<1>1. Init => Resident
  BY DEF Init, Stat
<1>2. Resident /\ [Next]_vars => Resident'
  BY NextResident DEF vars, procVars
<1>3. Resident => [NoneStraddles]_vars
  BY DEF NoneStraddles
<1> QED BY <1>1, <1>2, <1>3, PTL DEF Spec

\* Every variable of sem.c's model keeps its shape: no value ever leaves
\* 0 .. semvmx and no count the range of a ushort (sem.c:667-704) - with or
\* without page faults, under NoneStraddles as all theorems below.
THEOREM SemTypeCorrect ==
    ASSUME Premises PROVE Spec /\ [][NoneStraddles]_vars => []TypeOK
<1>1. IInv => TypeOK
  BY DEF IInv
<1> QED BY <1>1, SemInvariant, PTL

\* No wakeup is lost, however the operation lists, the signals, the exits and
\* the removals of any number of processes interleave (sem.c:667-704), but for
\* those that go on with a removed set.
THEOREM SemNoLostWakeup ==
    ASSUME Premises PROVE Spec /\ [][NoneStraddles]_vars => []NoLostWakeup
<1>1. IInv => NoLostWakeup
  BY DEF IInv, Sleepers, Waits, NoLostWakeup
<1> QED BY <1>1, SemInvariant, PTL

\* A count exceeds the processes that wait on it by no more than the number
\* of job-control stops there have been (sem.c:690-704), under the same
\* condition.
THEOREM SemCountBound ==
    ASSUME Premises PROVE Spec /\ [][NoneStraddles]_vars => []CountBound
<1>1. IInv => CountBound
  <2> SUFFICES ASSUME IInv, NEW ch \in Chan
               PROVE  cnt[ch] <= Cardinality(Waiting(ch)) + stops
    BY DEF CountBound
  <2>1. Counted(ch) \subseteq Waiting(ch) /\ Waiting(ch) \subseteq Proc
    BY DEF Counted, Waiting
  <2>2. /\ IsFiniteSet(Counted(ch)) /\ IsFiniteSet(Waiting(ch))
        /\ Cardinality(Counted(ch)) <= Cardinality(Waiting(ch))
    BY <2>1, FS_Subset DEF Premises
  <2>3. Cardinality(Counted(ch)) \in Nat /\ Cardinality(Waiting(ch)) \in Nat
    BY <2>2, FS_CardinalityType
  <2>4. cnt[ch] <= Cardinality(Counted(ch)) + stops /\ cnt[ch] \in Int /\ stops \in Nat
    BY SizesAssumption DEF IInv, CountsOK, TypeOK, SemsType, ProcType
  <2> QED BY <2>2, <2>3, <2>4
<1> QED BY <1>1, SemInvariant, PTL

-----------------------------------------------------------------------------
(* Sets and the map of free semaphores; nothing is assumed here.           *)

\* Only semget and IPC_RMID touch the headers and the map.
LEMMA SetsQuiet ==
    ASSUME Next, UNCHANGED setVars \/ \A p \in Proc : /\ \A n \in 1 .. semmsl : ~Semget(p, n)
                                                      /\ \A id \in Id : ~Rmid(p, id)
    PROVE  UNCHANGED setVars
<1>1. Step => UNCHANGED setVars
  BY DEF Step, OpAdd, OpSub, OpZero, OpFail, OpBlock, UndoStep, UndoneError, UndoneSleep,
         UndoneIntr, Finish, Done, Return
<1>2. ASSUME NEW p \in Proc, Resume(p) \/ PageIn(p) \/ Signal(p) \/ StopCont(p) \/ Fork(p)
      PROVE  UNCHANGED setVars
  BY <1>2 DEF Resume, SleepIntr, SleepRemoved, SleepAgain, EnterLoop, EnterFault, PageIn,
              SetAllPageIn, StoreAll, SemopPageIn, Signal, StopCont, Fork
<1>3. ASSUME NEW p \in Proc, Syscall(p),
             \A n \in 1 .. semmsl : ~Semget(p, n), \A id \in Id : ~Rmid(p, id)
      PROVE  UNCHANGED setVars
  BY <1>3 DEF Syscall, SetVal, SetAll, StoreAll, SetAllFault, Semop, SemopFault, Exit
<1> QED BY <1>1, <1>2, <1>3 DEF Next

\* The semaphores of two sets, when semget makes one from free semaphores.
LEMMA SemgetSets ==
    ASSUME SetsType, SetsDisjoint, NEW p \in Proc, NEW n \in 1 .. semmsl, Semget(p, n)
    PROVE  /\ SetsType' /\ SetsDisjoint' /\ semmap' \subseteq semmap
           /\ \E t \in Slots : ~sema[t].alloc /\ \A t2 \in Slots \ {t} : sema'[t2] = sema[t2]
<1>1. PICK t \in Slots, a \in semmap :
        /\ ~sema[t].alloc /\ Units(a, n) \subseteq semmap
        /\ sema' = [sema EXCEPT ![t].alloc = TRUE, ![t].nsems = n, ![t].base = a]
        /\ semmap' = semmap \ Units(a, n)
  BY DEF Semget, FirstFit, Fits
<1>2. PICK h \in [alloc : BOOLEAN, seq : 0 .. MaxSeq, nsems : 0 .. semmsl, base : Sems] :
        h = sema[t]
  BY DEF SetsType
<1>3. PICK g : g = [h EXCEPT !.alloc = TRUE, !.nsems = n, !.base = a]
  OBVIOUS
<1>4. a \in Sems /\ n \in 0 .. semmsl
  BY <1>1, SizesAssumption DEF SetsType
<1>5. /\ g \in [alloc : BOOLEAN, seq : 0 .. MaxSeq, nsems : 0 .. semmsl, base : Sems]
      /\ g.alloc /\ g.nsems = n /\ g.base = a
  BY ONLY <1>3, <1>4, h \in [alloc : BOOLEAN, seq : 0 .. MaxSeq, nsems : 0 .. semmsl, base : Sems]
<1>6. sema' = [sema EXCEPT ![t] = g]
  BY <1>1, <1>2, <1>3
<1>7. SetsType'
  <2>1. semmap' \subseteq Sems
    BY <1>1 DEF SetsType
  <2>2. sema' \in [Slots -> [alloc : BOOLEAN, seq : 0 .. MaxSeq, nsems : 0 .. semmsl, base : Sems]]
    BY <1>5, <1>6 DEF SetsType
  <2> QED BY <2>1, <2>2 DEF SetsType
<1>8. sema'[t] = g /\ \A t2 \in Slots \ {t} : sema'[t2] = sema[t2]
  BY <1>6 DEF SetsType
<1>9. SemsOf(t)' = Units(a, n)
  BY <1>5, <1>8 DEF SemsOf
<1>10. \A t2 \in Slots \ {t} : SemsOf(t2)' = SemsOf(t2)
  BY <1>8 DEF SemsOf
<1>11. ASSUME NEW t2 \in Slots, sema'[t2].alloc
       PROVE  SemsOf(t2)' \subseteq Sems \ semmap'
  BY <1>1, <1>8, <1>9, <1>10, <1>11 DEF SetsDisjoint, SetsType
<1>12. ASSUME NEW t2 \in Slots, NEW t3 \in Slots \ {t2}, sema'[t2].alloc, sema'[t3].alloc
       PROVE  (SemsOf(t2) \cap SemsOf(t3) = {})'
  <2>1. CASE t2 = t
    BY <1>1, <1>8, <1>9, <1>10, <1>12, <2>1 DEF SetsDisjoint
  <2>2. CASE t3 = t
    BY <1>1, <1>8, <1>9, <1>10, <1>12, <2>2 DEF SetsDisjoint
  <2>3. CASE t2 # t /\ t3 # t
    BY <1>8, <1>10, <1>12, <2>3 DEF SetsDisjoint
  <2> QED BY <2>1, <2>2, <2>3
<1>13. SetsDisjoint'
  BY <1>11, <1>12 DEF SetsDisjoint
<1> QED BY <1>1, <1>7, <1>8, <1>13

\* So for IPC_RMID, which gives the semaphores of the set back or loses them.
LEMMA RmidSets ==
    ASSUME SetsType, SetsDisjoint, NEW p \in Proc, NEW id \in Id, Rmid(p, id)
    PROVE  /\ SetsType' /\ SetsDisjoint'
           /\ semmap' \subseteq semmap \cup SemsOf(id[1]) /\ id[1] \in Slots
           /\ sema[id[1]].alloc /\ ~sema'[id[1]].alloc
           /\ \A t \in Slots \ {id[1]} : sema'[t] = sema[t]
<1>1. PICK t \in Slots : t = id[1]
  BY DEF Id
<1>2. /\ sema[t].alloc /\ sema[t].seq < MaxSeq
      /\ sema' = [sema EXCEPT ![t].alloc = FALSE, ![t].seq = @ + 1]
      /\ semmap' \in {semmap, semmap \cup SemsOf(t)}
  BY <1>1 DEF Rmid, Semconv, RmidMap, Release, SemsOf
<1>3. PICK h \in [alloc : BOOLEAN, seq : 0 .. MaxSeq, nsems : 0 .. semmsl, base : Sems] :
        h = sema[t]
  BY DEF SetsType
<1>4. PICK g : g = [h EXCEPT !.alloc = FALSE, !.seq = @ + 1]
  OBVIOUS
<1>5. h.seq + 1 \in 0 .. MaxSeq
  BY <1>2, <1>3, SizesAssumption
<1>6. /\ g \in [alloc : BOOLEAN, seq : 0 .. MaxSeq, nsems : 0 .. semmsl, base : Sems]
      /\ ~g.alloc
  BY ONLY <1>4, <1>5, h \in [alloc : BOOLEAN, seq : 0 .. MaxSeq, nsems : 0 .. semmsl, base : Sems]
<1>7. sema' = [sema EXCEPT ![t] = g]
  BY <1>2, <1>3, <1>4
<1>8. sema'[t] = g /\ \A t2 \in Slots \ {t} : sema'[t2] = sema[t2]
  BY <1>7 DEF SetsType
<1>9. SemsOf(t) \subseteq Sems
  BY <1>2 DEF SetsDisjoint
<1>10. SetsType'
  BY <1>2, <1>6, <1>7, <1>9 DEF SetsType
<1>11. \A t2 \in Slots \ {t} : SemsOf(t2)' = SemsOf(t2)
  BY <1>8 DEF SemsOf
<1>12. SetsDisjoint'
  BY <1>2, <1>6, <1>8, <1>11 DEF SetsDisjoint
<1> QED BY <1>1, <1>2, <1>6, <1>8, <1>10, <1>12

\* Every step leaves the sets apart.
LEMMA SetsStep ==
    ASSUME SetsType, SetsDisjoint, [Next]_vars
    PROVE  SetsType' /\ SetsDisjoint'
<1>1. UNCHANGED setVars => SetsType' /\ SetsDisjoint'
  BY DEF SetsType, SetsDisjoint, SemsOf, setVars
<1>2. UNCHANGED vars => UNCHANGED setVars
  BY DEF vars
<1> QED BY <1>1, <1>2, SetsQuiet, SemgetSets, RmidSets

\* At the start all semaphores are free.
LEMMA SetsInit == ASSUME Init PROVE SetsType /\ SetsDisjoint
<1>1. SetsType
  BY SizesAssumption DEF Init, SetsType, Slots, Sems
<1> QED BY <1>1 DEF Init, SetsDisjoint

-----------------------------------------------------------------------------
(* The undo structures.                                                    *)

\* The entries of a structure, and what semaoe lets a structure become.
UndoT == [Undo -> [Key -> Int]]
Nonzero(f) == {k \in Key : f[k] # 0}
Bounded(w) == \A u \in Undo : /\ \A k \in Key : InAem(w[u][k])
                              /\ Cardinality(Nonzero(w[u])) <= semume

\* There are finitely many keys.
LEMMA KeyFinite == IsFiniteSet(Key)
<1> DEFINE S == (Slots \X (0 .. MaxSeq)) \X Nums
           f == [x \in S |-> <<x[1][1], x[1][2], x[2]>>]
<1>1. IsFiniteSet(Slots) /\ IsFiniteSet(0 .. MaxSeq) /\ IsFiniteSet(Nums)
  BY SizesAssumption, FS_Interval DEF Slots, Nums
<1>2. IsFiniteSet(S)
  <2>1. IsFiniteSet(Slots \X (0 .. MaxSeq))
    BY <1>1, FS_Product
  <2> QED BY <1>1, <2>1, FS_Product
<1>3. f \in Surjection(S, Key)
  <2>1. f \in [S -> Key]
    BY DEF Key
  <2>2. ASSUME NEW k \in Key
        PROVE  \E x \in S : f[x] = k
    <3>1. <<<<k[1], k[2]>>, k[3]>> \in S /\ k = <<k[1], k[2], k[3]>>
      BY DEF Key
    <3> QED BY <3>1
  <2> QED BY <2>1, <2>2 DEF Surjection
<1> QED BY <1>2, <1>3, FS_Surjection

\* So a structure has a number of entries.
LEMMA NonzeroFinite ==
    ASSUME NEW f
    PROVE  IsFiniteSet(Nonzero(f)) /\ Cardinality(Nonzero(f)) \in Nat
<1>1. Nonzero(f) \subseteq Key
  BY DEF Nonzero
<1> QED BY <1>1, KeyFinite, FS_Subset, FS_CardinalityType

\* What was not adjusted stays, or is removed.
LEMMA LessBounded ==
    ASSUME NEW w \in UndoT, Bounded(w), NEW w2 \in UndoT,
           \A u \in Undo, k \in Key : w2[u][k] \in {0, w[u][k]}
    PROVE  Bounded(w2)
<1> SUFFICES ASSUME NEW u \in Undo
             PROVE  /\ \A k \in Key : InAem(w2[u][k])
                    /\ Cardinality(Nonzero(w2[u])) <= semume
  BY DEF Bounded
<1>1. \A k \in Key : InAem(w2[u][k])
  BY SizesAssumption DEF Bounded, InAem
<1>2. Nonzero(w2[u]) \subseteq Nonzero(w[u])
  BY DEF Nonzero
<1>3. Cardinality(Nonzero(w2[u])) <= Cardinality(Nonzero(w[u]))
  BY <1>2, NonzeroFinite, FS_Subset
<1>4. /\ Cardinality(Nonzero(w2[u])) \in Nat /\ Cardinality(Nonzero(w[u])) \in Nat
      /\ Cardinality(Nonzero(w[u])) <= semume
  BY NonzeroFinite DEF Bounded
<1>5. semume \in Nat
  BY SizesAssumption
<1> QED BY <1>1, <1>3, <1>4, <1>5

\* One entry adjusted.
Adjusted(w, w2, u, k, v) ==
    /\ w2 \in UndoT
    /\ \A x \in Undo, y \in Key : w2[x][y] = IF x = u /\ y = k THEN w[x][y] - v ELSE w[x][y]

\* What EXCEPT does.
LEMMA AdjustedIs ==
    ASSUME NEW w \in UndoT, NEW u \in Undo, NEW k \in Key, NEW v \in Int
    PROVE  Adjusted(w, [w EXCEPT ![u][k] = @ - v], u, k, v)
BY DEF UndoT, Adjusted

\* The adjustment semaoe makes keeps the bounds, and can be taken back.
LEMMA AdjustedBounded ==
    ASSUME NEW w \in UndoT, Bounded(w), NEW u \in Undo, NEW k \in Key, NEW v \in Int, InAem(v),
           IF w[u][k] = 0 THEN Cardinality(Nonzero(w[u])) < semume ELSE InAem(w[u][k] - v),
           NEW w2, Adjusted(w, w2, u, k, v)
    PROVE  Bounded(w2)
<1>1. /\ w2 \in UndoT
      /\ \A x \in Undo, y \in Key : w2[x][y] = IF x = u /\ y = k THEN w[x][y] - v ELSE w[x][y]
  BY DEF Adjusted
<1>2. semaem \in Nat /\ semume \in Nat /\ w[u][k] \in Int
  BY SizesAssumption DEF UndoT
<1>3. InAem(w[u][k] - v)
  BY <1>2 DEF InAem
<1>4. ASSUME NEW x \in Undo, NEW y \in Key
      PROVE  InAem(w2[x][y])
  BY <1>1, <1>3 DEF Bounded
<1>5. ASSUME NEW x \in Undo
      PROVE  Cardinality(Nonzero(w2[x])) <= semume
  <2>1. CASE x # u
    <3>1. Nonzero(w2[x]) = Nonzero(w[x])
      BY <1>1, <2>1 DEF Nonzero
    <3> QED BY <3>1 DEF Bounded
  <2>2. CASE x = u
    <3>1. Nonzero(w2[u]) \subseteq Nonzero(w[u]) \cup {k}
      BY <1>1 DEF Nonzero
    <3>2. k \in Nonzero(w[u]) <=> w[u][k] # 0
      BY DEF Nonzero
    <3>3. PICK a \in Nat : a = Cardinality(Nonzero(w[u]))
      BY NonzeroFinite
    <3>4. /\ IsFiniteSet(Nonzero(w[u]) \cup {k})
          /\ Cardinality(Nonzero(w[u]) \cup {k}) = IF w[u][k] # 0 THEN a ELSE a + 1
      BY <3>2, <3>3, NonzeroFinite, FS_AddElement
    <3>5. PICK b \in Nat : b = Cardinality(Nonzero(w2[u]))
      BY NonzeroFinite
    <3>6. b <= Cardinality(Nonzero(w[u]) \cup {k})
      BY <3>1, <3>4, <3>5, FS_Subset
    <3>7. a <= semume /\ (w[u][k] = 0 => a < semume)
      BY <3>3 DEF Bounded
    <3> QED BY <1>2, <2>2, <3>4, <3>5, <3>6, <3>7
  <2> QED BY <2>1, <2>2
<1> QED BY <1>4, <1>5 DEF Bounded

\* What semaoe finds, and does, when it is asked for the opposite adjustment.
TakenBack(w, w2, u, k, v) ==
    /\ InAem(-v)
    /\ IF w2[u][k] = 0 THEN Cardinality(Nonzero(w2[u])) < semume ELSE InAem(w2[u][k] - (-v))
    /\ [w2 EXCEPT ![u][k] = @ - (-v)] = w

\* So it can be taken back.
LEMMA AdjustedBack ==
    ASSUME NEW w \in UndoT, Bounded(w), NEW u \in Undo, NEW k \in Key, NEW v \in Int, InAem(v),
           v # 0, NEW w2, Adjusted(w, w2, u, k, v)
    PROVE  TakenBack(w, w2, u, k, v)
<1>1. /\ w2 \in UndoT
      /\ \A x \in Undo, y \in Key : w2[x][y] = IF x = u /\ y = k THEN w[x][y] - v ELSE w[x][y]
  BY DEF Adjusted
<1>2. PICK c \in Int : c = w[u][k]
  BY DEF UndoT
<1>3. w2[u][k] = c - v
  BY <1>1, <1>2
<1>4. semaem \in Nat /\ semume \in Nat
  BY SizesAssumption
<1>5. InAem(-v)
  BY <1>4 DEF InAem
<1>6. (c - v) - (-v) = c
  OBVIOUS
<1>7. ASSUME w2[u][k] = 0
      PROVE  Cardinality(Nonzero(w2[u])) < semume
  <2>1. c # 0
    BY <1>3, <1>7
  <2>2. k \in Nonzero(w[u]) /\ k \notin Nonzero(w2[u])
    BY <1>2, <1>7, <2>1 DEF Nonzero
  <2>3. Nonzero(w2[u]) = Nonzero(w[u]) \ {k}
    BY <1>1, <2>2 DEF Nonzero
  <2>4. PICK a \in Nat : a = Cardinality(Nonzero(w[u]))
    BY NonzeroFinite
  <2>5. Cardinality(Nonzero(w2[u])) = a - 1
    BY <2>2, <2>3, <2>4, NonzeroFinite, FS_RemoveElement
  <2>6. a <= semume
    BY <2>4 DEF Bounded
  <2>7. a - 1 < semume
    BY <1>4, <2>6
  <2> QED BY <2>5, <2>7
<1>8. ASSUME w2[u][k] # 0
      PROVE  InAem(w2[u][k] - (-v))
  <2>1. InAem(c)
    BY <1>2 DEF Bounded
  <2> QED BY <1>3, <1>6, <2>1
<1>9. [w2 EXCEPT ![u][k] = @ - (-v)] = w
  <2>1. PICK w3 : w3 = [w2 EXCEPT ![u][k] = @ - (-v)]
    OBVIOUS
  <2>2. Adjusted(w2, w3, u, k, -v)
    <3>1. -v \in Int
      OBVIOUS
    <3> QED BY <1>1, <2>1, <3>1, AdjustedIs
  <2>3. ASSUME NEW x \in Undo, NEW y \in Key
        PROVE  w3[x][y] = w[x][y]
    BY <1>1, <1>2, <1>3, <1>6, <2>2 DEF Adjusted
  <2>4. w3 \in UndoT
    BY <2>2 DEF Adjusted
  <2>5. ASSUME NEW x \in Undo
        PROVE  w3[x] = w[x]
    BY <2>3, <2>4 DEF UndoT
  <2>6. w3 = w
    BY <2>4, <2>5 DEF UndoT
  <2> QED BY <2>1, <2>6
<1> QED BY <1>5, <1>7, <1>8, <1>9 DEF TakenBack

-----------------------------------------------------------------------------
(* A second inductive invariant, on top of IInv.                           *)

\* What an operation that was done did to the undo structures, when u is the
\* structure of its process.
Took(u, op, w, w2) ==
    IF op.undo /\ op.op # 0
    THEN /\ u # NoUndo /\ InAem(op.op)
         /\ w2 = [w EXCEPT ![u][CurKey(op)] = @ - op.op]
    ELSE w2 = w

\* The trail holds the undo structures before and after each operation done.
Trailed ==
    cur # NoProc =>
        /\ trail[i].un = un
        /\ \A j \in 1 .. i : Bounded(trail[j].un)
        /\ \A j \in 1 .. i - 1 : Took(sem_undo[cur], Ops[j], trail[j].un, trail[j + 1].un)

\* The process that is about to sleep will do so on a semaphore of its set.
SleepsHere ==
    pc = "undo" /\ after = "sleep" => call[cur].ch[2] \in SemsOf(call[cur].id[1])

Clean == /\ SetsDisjoint /\ UndoEntriesLive /\ FreeSemsClean /\ NoOrphanSleeper
         /\ SleepsHere /\ Bounded(un) /\ Trailed

\* The second invariant holds when the system comes up.
LEMMA CleanInit == ASSUME Init PROVE Clean
<1>1. SetsDisjoint
  BY SetsInit
<1>2. \A u \in Undo, k \in Key : un[u][k] = 0
  BY DEF Init, NoEntries
<1>3. Bounded(un)
  <2>1. \A u \in Undo : Nonzero(un[u]) = {}
    BY <1>2 DEF Nonzero
  <2>2. \A u \in Undo : Cardinality(Nonzero(un[u])) = 0
    BY <2>1, FS_EmptySet
  <2>3. \A u \in Undo, k \in Key : InAem(un[u][k])
    BY <1>2, SizesAssumption DEF InAem
  <2> QED BY <2>2, <2>3, SizesAssumption DEF Bounded
<1>4. UndoEntriesLive /\ FreeSemsClean
  BY <1>2 DEF Init, UndoEntriesLive, FreeSemsClean, Chan
<1>5. NoOrphanSleeper /\ SleepsHere /\ Trailed
  BY DEF Init, NoOrphanSleeper, SleepsHere, Trailed
<1> QED BY <1>1, <1>3, <1>4, <1>5 DEF Clean

\* No entry is made.
LEMMA EntriesKept ==
    ASSUME UndoType, UndoType', UndoEntriesLive, Bounded(un), UNCHANGED sema,
           \A u \in Undo, k \in Key : un'[u][k] \in {0, un[u][k]}
    PROVE  UndoEntriesLive' /\ Bounded(un')
<1>1. UndoEntriesLive'
  BY DEF UndoEntriesLive, Semconv
<1>2. Bounded(un')
  BY LessBounded DEF UndoType, UndoT
<1> QED BY <1>1, <1>2

\* semunrm makes none.
LEMMA SemunrmLess ==
    ASSUME NEW id, NEW nums, Semunrm(id, nums)
    PROVE  \A u \in Undo, k \in Key : un'[u][k] \in {0, un[u][k]}
BY DEF Semunrm

\* No semaphore becomes free, and those that are free are left alone.
LEMMA FreeKept ==
    ASSUME SetsType, FreeSemsClean, semmap' \subseteq semmap,
           \A s \in semmap : semval'[s] = semval[s],
           \A ch \in Chan : cnt[ch] = 0 => cnt'[ch] = 0
    PROVE  FreeSemsClean'
<1> SUFFICES ASSUME NEW s \in semmap'
             PROVE  semval'[s] = 0 /\ cnt'[<<"n", s>>] = 0 /\ cnt'[<<"z", s>>] = 0
  BY DEF FreeSemsClean
<1>1. s \in semmap /\ <<"n", s>> \in Chan /\ <<"z", s>> \in Chan
  BY DEF SetsType, Chan
<1> QED BY <1>1 DEF FreeSemsClean

\* A wakeup counts nobody.
LEMMA WakeCountsNobody ==
    ASSUME NEW C, cnt' = CntAfter(C)
    PROVE  \A ch \in Chan : cnt[ch] = 0 => cnt'[ch] = 0
BY DEF CntAfter

\* Nobody falls asleep.
LEMMA OrphansKept ==
    ASSUME NoOrphanSleeper, UNCHANGED sema,
           \A q \in Proc : stat'[q] = "asleep" => stat[q] = "asleep" /\ call'[q] = call[q]
    PROVE  NoOrphanSleeper'
BY DEF NoOrphanSleeper, Semconv, SemsOf

\* A semaphore of a set that exists is not free.
LEMMA InSet ==
    ASSUME SetsType, SetsDisjoint, NEW t \in Slots, sema[t].alloc, NEW n \in Nat,
           n < sema[t].nsems
    PROVE  SemOf(t, n) \in SemsOf(t) /\ SemOf(t, n) \in Sems /\ SemOf(t, n) \notin semmap
<1>1. sema[t].base \in Int /\ sema[t].nsems \in Int
  BY SizesAssumption DEF SetsType, Sems
<1>2. SemOf(t, n) \in SemsOf(t)
  BY <1>1 DEF SemOf, SemsOf, Units
<1> QED BY <1>2 DEF SetsDisjoint

\* The kernel is idle after the step, which stores nothing.
LEMMA QuietClean ==
    ASSUME IInv, IInv', Clean, cur' = NoProc, UNCHANGED <<setVars, semval, un>>,
           \A ch \in Chan : cnt[ch] = 0 => cnt'[ch] = 0,
           \A q \in Proc : stat'[q] = "asleep" => stat[q] = "asleep" /\ call'[q] = call[q]
    PROVE  Clean'
<1>1. SetsDisjoint'
  BY DEF Clean, SetsDisjoint, SemsOf, setVars
<1>2. UndoEntriesLive' /\ Bounded(un')
  BY DEF Clean, UndoEntriesLive, Semconv, setVars
<1>3. FreeSemsClean'
  BY FreeKept DEF Clean, IInv, TypeOK, setVars
<1>4. NoOrphanSleeper'
  BY OrphansKept DEF Clean, setVars
<1>5. SleepsHere' /\ Trailed'
  BY DEF SleepsHere, Trailed, IInv, KernelOK
<1> QED BY <1>1, <1>2, <1>3, <1>4, <1>5 DEF Clean

\* semget makes a set of free semaphores, which stay clean.
LEMMA SemgetClean ==
    ASSUME IInv, IInv', Clean, NEW p \in Proc, NEW n \in 1 .. semmsl, Semget(p, n)
    PROVE  Clean'
<1>1. /\ SetsDisjoint' /\ semmap' \subseteq semmap /\ cur' = NoProc
      /\ UNCHANGED <<semval, cnt, un, stat, call>>
  BY SemgetSets DEF IInv, TypeOK, Clean, Semget, Calls, semVars, undoVars, procVars, execVars
<1>2. PICK t \in Slots : ~sema[t].alloc /\ \A t2 \in Slots \ {t} : sema'[t2] = sema[t2]
  BY SemgetSets DEF IInv, TypeOK, Clean
<1>3. UndoEntriesLive' /\ Bounded(un')
  <2>1. ASSUME NEW u \in Undo, NEW k \in Key, un'[u][k] # 0
        PROVE  Semconv(<<k[1], k[2]>>)' /\ k[3] < sema'[k[1]].nsems
    <3>1. Semconv(<<k[1], k[2]>>) /\ k[3] < sema[k[1]].nsems /\ k[1] \in Slots
      BY <1>1, <2>1 DEF Clean, UndoEntriesLive, Key
    <3>2. sema'[k[1]] = sema[k[1]]
      BY <1>2, <3>1 DEF Semconv
    <3> QED BY <3>1, <3>2 DEF Semconv
  <2> QED BY <1>1, <2>1 DEF UndoEntriesLive, Clean
<1>4. FreeSemsClean'
  BY <1>1, FreeKept DEF IInv, TypeOK, Clean
<1>5. NoOrphanSleeper'
  <2> SUFFICES ASSUME NEW q \in Proc, stat'[q] = "asleep"
               PROVE  Semconv(call[q].id)' /\ (call[q].ch[2] \in SemsOf(call[q].id[1]))'
    BY DEF NoOrphanSleeper
  <2>1. /\ Semconv(call[q].id) /\ call[q].ch[2] \in SemsOf(call[q].id[1])
        /\ call'[q] = call[q] /\ call[q].id[1] \in Slots
    BY <1>1 DEF Clean, NoOrphanSleeper, IInv, TypeOK, ProcType, Call, Id
  <2>2. sema'[call[q].id[1]] = sema[call[q].id[1]]
    BY <1>2, <2>1 DEF Semconv
  <2> QED BY <2>1, <2>2 DEF Semconv, SemsOf
<1>6. SleepsHere' /\ Trailed'
  BY <1>1 DEF SleepsHere, Trailed, IInv, KernelOK
<1> QED BY <1>1, <1>3, <1>4, <1>5, <1>6 DEF Clean

\* IPC_RMID clears what it gives back, drops the entries and wakes the sleepers.
LEMMA RmidClean ==
    ASSUME IInv, IInv', Clean, NEW p \in Proc, NEW id \in Id, Rmid(p, id)
    PROVE  Clean'
<1>1. PICK t \in Slots : t = id[1]
  BY DEF Id
<1>2. /\ SetsDisjoint' /\ semmap' \subseteq semmap \cup SemsOf(t)
      /\ sema[t].alloc /\ \A t2 \in Slots \ {t} : sema'[t2] = sema[t2]
  BY <1>1, RmidSets DEF IInv, TypeOK, Clean
<1>3. /\ Semconv(id) /\ Semunrm(id, 0 .. sema[t].nsems) /\ semval' = RmidVal(id)
      /\ cnt' = CntAfter(RmidWakes(id)) /\ stat' = StatAfter(RmidWakes(id))
      /\ cur' = NoProc /\ call' = call
  BY <1>1 DEF Rmid, Calls, execVars
<1>4. id = <<id[1], id[2]>> /\ sema[t].seq = id[2]
  BY <1>1, <1>3 DEF Id, Semconv
<1>5. SemsOf(t) \subseteq Sems
  BY <1>2 DEF Clean, SetsDisjoint
<1>6. RmidWakes(id) = {"n", "z"} \X SemsOf(t) /\ RmidWakes(id) \in SUBSET Chan
  BY <1>1, <1>5 DEF RmidWakes, Chan
<1>7. Bounded(un')
  BY <1>3, SemunrmLess, LessBounded DEF IInv, TypeOK, UndoType, UndoT, Clean
<1>8. UndoEntriesLive'
  <2> SUFFICES ASSUME NEW u \in Undo, NEW k \in Key, un'[u][k] # 0
               PROVE  Semconv(<<k[1], k[2]>>)' /\ k[3] < sema'[k[1]].nsems
    BY DEF UndoEntriesLive
  <2>1. un[u][k] # 0 /\ ~(<<k[1], k[2]>> = id /\ k[3] \in 0 .. sema[t].nsems)
    BY <1>3 DEF Semunrm
  <2>2. /\ Semconv(<<k[1], k[2]>>) /\ k[3] < sema[k[1]].nsems
        /\ k[1] \in Slots /\ k[3] \in Nat
    BY <2>1, SizesAssumption DEF Clean, UndoEntriesLive, Key, Nums
  <2>3. k[1] # t
    <3>1. ASSUME k[1] = t
          PROVE  FALSE
      <4>1. k[2] = id[2]
        BY <1>4, <2>2, <3>1 DEF Semconv
      <4>2. sema[t].nsems \in Nat
        BY SizesAssumption DEF IInv, TypeOK, SetsType
      <4>3. k[3] \in 0 .. sema[t].nsems
        BY <2>2, <3>1, <4>2
      <4>4. <<k[1], k[2]>> = id
        BY <1>1, <1>4, <3>1, <4>1
      <4> QED BY <2>1, <4>3, <4>4
    <3> QED BY <3>1
  <2> QED BY <1>2, <2>2, <2>3 DEF Semconv
<1>9. FreeSemsClean'
  <2> SUFFICES ASSUME NEW s \in semmap'
               PROVE  semval'[s] = 0 /\ cnt'[<<"n", s>>] = 0 /\ cnt'[<<"z", s>>] = 0
    BY DEF FreeSemsClean
  <2>1. s \in Sems /\ <<"n", s>> \in Chan /\ <<"z", s>> \in Chan
    BY <1>2, <1>5 DEF IInv, TypeOK, SetsType, Chan
  <2>2. CASE s \in SemsOf(t)
    <3>1. semval'[s] = 0
      BY <1>1, <1>3, <2>1, <2>2 DEF RmidVal
    <3>2. ASSUME NEW c \in {"n", "z"}
          PROVE  cnt'[<<c, s>>] = 0
      <4>1. <<c, s>> \in RmidWakes(id) /\ <<c, s>> \in Chan
        BY <1>6, <2>2, <2>1
      <4>2. cnt[<<c, s>>] > 0 \/ cnt[<<c, s>>] = 0
        BY <4>1, SizesAssumption DEF IInv, TypeOK, SemsType
      <4> QED BY <1>3, <4>1, <4>2 DEF CntAfter, Awaited
    <3> QED BY <3>1, <3>2
  <2>3. CASE s \notin SemsOf(t)
    <3>1. semval[s] = 0 /\ cnt[<<"n", s>>] = 0 /\ cnt[<<"z", s>>] = 0
      BY <1>2, <2>3 DEF Clean, FreeSemsClean
    <3>2. semval'[s] = semval[s]
      BY <1>1, <1>3, <2>1, <2>3 DEF RmidVal
    <3> QED BY <1>3, <2>1, <3>1, <3>2, WakeCountsNobody
  <2> QED BY <2>2, <2>3
<1>10. NoOrphanSleeper'
  <2> SUFFICES ASSUME NEW q \in Proc, stat'[q] = "asleep"
               PROVE  Semconv(call[q].id)' /\ (call[q].ch[2] \in SemsOf(call[q].id[1]))'
    BY DEF NoOrphanSleeper
  <2>1. stat[q] = "asleep" /\ call[q].ch \notin RmidWakes(id)
    BY <1>3, <1>6, StillAsleep DEF IInv, TypeOK
  <2>2. /\ Semconv(call[q].id) /\ call[q].ch[2] \in SemsOf(call[q].id[1])
        /\ call[q].id[1] \in Slots
    BY <2>1 DEF Clean, NoOrphanSleeper, IInv, TypeOK, ProcType, Call, Id
  <2>3. call[q].ch = <<call[q].ch[1], call[q].ch[2]>> /\ call[q].ch[1] \in {"n", "z"}
    BY DEF IInv, TypeOK, ProcType, Call, Chan
  <2>4. call[q].id[1] # t
    BY <1>6, <2>1, <2>2, <2>3
  <2>5. sema'[call[q].id[1]] = sema[call[q].id[1]] /\ call'[q] = call[q]
    BY <1>2, <1>3, <2>2, <2>4
  <2> QED BY <2>2, <2>5 DEF Semconv, SemsOf
<1>11. SleepsHere' /\ Trailed'
  BY <1>3 DEF SleepsHere, Trailed, IInv, KernelOK
<1> QED BY <1>2, <1>7, <1>8, <1>9, <1>10, <1>11 DEF Clean

\* SETVAL and SETALL store into the semaphores of a set that exists.
LEMMA StoreClean ==
    ASSUME IInv, IInv', Clean, cur' = NoProc, UNCHANGED setVars,
           NEW C, cnt' = CntAfter(C), NEW id, NEW nums, Semunrm(id, nums),
           NEW t \in Slots, sema[t].alloc,
           \A s \in Sems \ SemsOf(t) : semval'[s] = semval[s],
           \A q \in Proc : stat'[q] = "asleep" => stat[q] = "asleep" /\ call'[q] = call[q]
    PROVE  Clean'
<1>1. SetsDisjoint' /\ UNCHANGED <<sema, semmap>>
  BY DEF Clean, SetsDisjoint, SemsOf, setVars
<1>2. UndoEntriesLive' /\ Bounded(un')
  BY <1>1, SemunrmLess, EntriesKept DEF Clean, IInv, TypeOK
<1>3. \A s \in semmap : semval'[s] = semval[s]
  BY DEF Clean, SetsDisjoint, IInv, TypeOK, SetsType
<1>4. FreeSemsClean'
  BY <1>1, <1>3, WakeCountsNobody, FreeKept DEF Clean, IInv, TypeOK
<1>5. NoOrphanSleeper'
  BY <1>1, OrphansKept DEF Clean
<1>6. SleepsHere' /\ Trailed'
  BY DEF SleepsHere, Trailed, IInv, KernelOK
<1> QED BY <1>1, <1>2, <1>4, <1>5, <1>6 DEF Clean

\* SETVAL.
LEMMA SetValClean ==
    ASSUME IInv, IInv', Clean, NEW p \in Proc, NEW id \in Id, NEW num \in Nums,
           NEW v \in 0 .. semvmx, SetVal(p, id, num, v)
    PROVE  Clean'
<1>1. PICK t \in Slots : t = id[1]
  BY DEF Id
<1>2. /\ sema[t].alloc /\ num < sema[t].nsems /\ semval' = [semval EXCEPT ![SemOf(t, num)] = v]
      /\ cnt' = CntAfter({SetWakes(SemOf(t, num), v)})
      /\ stat' = StatAfter({SetWakes(SemOf(t, num), v)})
      /\ Semunrm(id, {num}) /\ cur' = NoProc /\ UNCHANGED <<setVars, call>>
  BY <1>1 DEF SetVal, Semconv, Calls, execVars
<1>3. SemOf(t, num) \in SemsOf(t)
  BY <1>2, InSet, SizesAssumption DEF Nums, Clean, IInv, TypeOK
<1>4. \A s \in Sems \ SemsOf(t) : semval'[s] = semval[s]
  BY <1>2, <1>3 DEF IInv, TypeOK, SemsType
<1>5. \A q \in Proc : stat'[q] = "asleep" => stat[q] = "asleep" /\ call'[q] = call[q]
  BY <1>2 DEF StatAfter
<1> QED BY <1>2, <1>4, <1>5, StoreClean

\* SETALL.
LEMMA SetAllClean ==
    ASSUME IInv, IInv', Clean, NEW p \in Proc,
           \/ \E id \in Id, vals \in SetVals : SetAll(p, id, vals)
           \/ SetAllPageIn(p) /\ Semconv(call[p].id)
    PROVE  Clean'
<1>1. PICK id, vals : /\ id \in Id
                      /\ Semconv(id) /\ StoreAll(p, id, vals) /\ cur = NoProc
                      /\ \A q \in Proc \ {p} : call'[q] = call[q]
  BY DEF SetAll, SetAllPageIn, Calls, IInv, TypeOK, ProcType, Call
<1>2. PICK t \in Slots : t = id[1]
  BY <1>1 DEF Id
<1>3. PICK C : /\ cnt' = CntAfter(C) /\ stat' = [StatAfter(C) EXCEPT ![p] = "user"]
               /\ \A s \in Sems \ SemsOf(t) : semval'[s] = semval[s]
  BY <1>1, <1>2 DEF StoreAll
<1>4. /\ sema[t].alloc /\ Semunrm(id, 0 .. sema[t].nsems) /\ cur' = NoProc
      /\ UNCHANGED setVars
  BY <1>1, <1>2 DEF StoreAll, Semconv, execVars
<1>5. \A q \in Proc : stat'[q] = "asleep" => stat[q] = "asleep" /\ call'[q] = call[q]
  BY <1>1, <1>3 DEF StatAfter
<1> QED BY <1>3, <1>4, <1>5, StoreClean

\* exit stores into semaphores that its entries name.
LEMMA ExitClean ==
    ASSUME IInv, IInv', Clean, NEW p \in Proc, Exit(p)
    PROVE  Clean'
<1>1. cur' = NoProc /\ UNCHANGED <<setVars, call>> /\ UNCHANGED <<sema, semmap>>
  BY DEF Exit, Calls, setVars, execVars
<1>2. CASE sem_undo[p] = NoUndo
  <2>1. UNCHANGED <<semval, cnt, un>> /\ stat' = [stat EXCEPT ![p] = "none"]
    BY <1>2 DEF Exit, semVars
  <2>2. \A q \in Proc : stat'[q] = "asleep" => stat[q] = "asleep"
    BY <2>1
  <2>3. \A ch \in Chan : cnt[ch] = 0 => cnt'[ch] = 0
    BY <2>1
  <2> QED BY <1>1, <2>1, <2>2, <2>3, QuietClean
<1>3. CASE sem_undo[p] # NoUndo
  <2>1. PICK u \in Undo : u = sem_undo[p]
    BY <1>3 DEF IInv, TypeOK, UndoType
  <2>2. PICK C : /\ cnt' = CntAfter(C) /\ stat' = [StatAfter(C) EXCEPT ![p] = "none"]
    BY <1>3 DEF Exit, Semexit
  <2>3. /\ semval' = [s \in Sems |-> IF s \in {x \in Sems : /\ AoeOn(u, x) # {}
                                                            /\ InSemRange(Restored(u, x))}
                                     THEN Restored(u, s) ELSE semval[s]]
        /\ un' = [un EXCEPT ![u] = NoEntries]
    BY <1>3, <2>1 DEF Exit, Semexit
  <2>4. \A s \in semmap : semval'[s] = semval[s]
    <3> SUFFICES ASSUME NEW s \in semmap, AoeOn(u, s) # {}
                 PROVE  FALSE
      BY <2>3 DEF IInv, TypeOK, SetsType
    <3>1. PICK k \in Key : un[u][k] # 0 /\ Semconv(<<k[1], k[2]>>) /\ SemOf(k[1], k[3]) = s
      BY DEF AoeOn
    <3>2. /\ k[1] \in Slots /\ k[3] \in Nat /\ k[3] < sema[k[1]].nsems /\ sema[k[1]].alloc
      BY <3>1, SizesAssumption DEF Clean, UndoEntriesLive, Key, Nums, Semconv
    <3> QED BY <3>1, <3>2, InSet DEF Clean, IInv, TypeOK
  <2>5. \A x \in Undo, k \in Key : un'[x][k] \in {0, un[x][k]}
    BY <2>3 DEF NoEntries, IInv, TypeOK, UndoType
  <2>6. UndoEntriesLive' /\ Bounded(un')
    BY <1>1, <2>5, EntriesKept DEF Clean, IInv, TypeOK
  <2>7. FreeSemsClean'
    BY <1>1, <2>2, <2>4, WakeCountsNobody, FreeKept DEF Clean, IInv, TypeOK
  <2>8. \A q \in Proc : stat'[q] = "asleep" => stat[q] = "asleep"
    BY <2>2 DEF StatAfter
  <2>9. NoOrphanSleeper'
    BY <1>1, <2>8, OrphansKept DEF Clean
  <2>10. SetsDisjoint' /\ SleepsHere' /\ Trailed'
    BY <1>1 DEF SleepsHere, Trailed, IInv, KernelOK, Clean, SetsDisjoint, SemsOf
  <2> QED BY <2>6, <2>7, <2>9, <2>10 DEF Clean
<1> QED BY <1>2, <1>3

\* The entry of an operation names a semaphore of a set that exists.
LEMMA EntryLives ==
    ASSUME IInv, UndoEntriesLive, cur # NoProc, NEW j \in 1 .. Len(Ops), UNCHANGED sema,
           \A u \in Undo, k \in Key \ {CurKey(Ops[j])} : un'[u][k] = un[u][k]
    PROVE  UndoEntriesLive'
<1>1. Semconv(call[cur].id) /\ call[cur].id \in Id /\ NumsInRange(call[cur].id, Ops)
  <2>1. cur \in Proc /\ stat[cur] = "kernel" /\ Semconv(call[cur].id)
    BY InKernel DEF IInv, KernelOK
  <2> QED BY <2>1, InKernel DEF IInv, CallsOK, Pending, Ops
<1>2. /\ Ops[j].num < sema[call[cur].id[1]].nsems
      /\ CurKey(Ops[j]) = <<call[cur].id[1], call[cur].id[2], Ops[j].num>>
  BY <1>1 DEF NumsInRange, CurKey
<1> SUFFICES ASSUME NEW u \in Undo, NEW k \in Key, un'[u][k] # 0
             PROVE  Semconv(<<k[1], k[2]>>) /\ k[3] < sema[k[1]].nsems
  BY DEF UndoEntriesLive, Semconv
<1>3. CASE k = CurKey(Ops[j])
  BY <1>1, <1>2, <1>3 DEF Semconv
<1>4. CASE k # CurKey(Ops[j])
  BY <1>4 DEF UndoEntriesLive
<1> QED BY <1>3, <1>4

\* The semaphores of the operations belong to the set of the call.
LEMMA DoneSemKept ==
    ASSUME IInv, Clean, cur # NoProc, NEW j \in 1 .. Len(Ops)
    PROVE  /\ SemOf(call[cur].id[1], Ops[j].num) \in SemsOf(call[cur].id[1])
           /\ SemOf(call[cur].id[1], Ops[j].num) \in Sems
           /\ SemOf(call[cur].id[1], Ops[j].num) \notin semmap
<1>1. /\ call[cur].id[1] \in Slots /\ sema[call[cur].id[1]].alloc /\ Ops[j].num \in Nat
  BY InKernel, CurTypes, SizesAssumption DEF Nums
<1>2. Ops[j].num < sema[call[cur].id[1]].nsems
  <2>1. cur \in Proc /\ stat[cur] = "kernel" /\ Semconv(call[cur].id)
    BY InKernel DEF IInv, KernelOK
  <2>2. NumsInRange(call[cur].id, Ops)
    BY <2>1 DEF IInv, CallsOK, Pending, Ops
  <2> QED BY <2>2 DEF NumsInRange
<1> QED BY <1>1, <1>2, InSet DEF Clean, IInv, TypeOK

\* So does the semaphore of the current one.
LEMMA CurSemKept ==
    ASSUME IInv, Clean, cur # NoProc, i \in 1 .. Len(Ops)
    PROVE  CurSem \in SemsOf(call[cur].id[1]) /\ CurSem \in Sems /\ CurSem \notin semmap
BY DoneSemKept DEF CurSem, CurOp

\* What semaoe does to the entries for an operation that is done.
LEMMA AdjustClean ==
    ASSUME IInv, Clean, cur # NoProc, i \in 1 .. Len(Ops), CurOp.op # 0, UNCHANGED sema,
           ~AdjustFails(CurOp), Adjust(CurOp)
    PROVE  /\ Bounded(un') /\ UndoEntriesLive'
           /\ Took(sem_undo'[cur], CurOp, un, un')
           /\ sem_undo'[cur] = sem_undo[cur] \/ sem_undo[cur] = NoUndo
<1>1. CurOp = Ops[i] /\ CurOp.op \in Int /\ CurKey(CurOp) \in Key /\ cur \in Proc
  BY CurTypes, InKernel DEF CurOp
<1>2. CASE ~CurOp.undo
  <2>1. un' = un /\ sem_undo' = sem_undo
    BY <1>2 DEF Adjust, undoVars
  <2>2. UndoEntriesLive'
    BY <2>1 DEF Clean, UndoEntriesLive, Semconv
  <2> QED BY <1>2, <2>1, <2>2 DEF Clean, Took
<1>3. CASE CurOp.undo
  <2>1. /\ SemaoeOK(cur, CurKey(CurOp), CurOp.op) /\ SemaoeDone(cur, CurKey(CurOp), CurOp.op)
    BY <1>3 DEF AdjustFails, Adjust
  <2>2. PICK u : u = UndoOf(cur)
    OBVIOUS
  <2>3. PICK k \in Key : k = CurKey(CurOp)
    BY <1>1
  <2>4. PICK v \in Int : v = CurOp.op
    BY <1>1
  <2>5. PICK w \in UndoT : w = un
    BY DEF IInv, TypeOK, UndoType, UndoT
  <2>6. /\ InAem(v) /\ u # NoUndo
        /\ IF w[u][k] = 0 THEN Cardinality(Nonzero(w[u])) < semume ELSE InAem(w[u][k] - v)
        /\ un' = [w EXCEPT ![u][k] = @ - v] /\ sem_undo' = [sem_undo EXCEPT ![cur] = u]
    BY <2>1, <2>2, <2>3, <2>4, <2>5 DEF SemaoeOK, SemaoeDone, UnCnt, Nonzero
  <2>7. u \in Undo /\ (u = sem_undo[cur] \/ sem_undo[cur] = NoUndo) /\ sem_undo'[cur] = u
    BY <1>1, <2>2, <2>6 DEF UndoOf, IInv, TypeOK, UndoType
  <2>8. PICK w2 : w2 = [w EXCEPT ![u][k] = @ - v]
    OBVIOUS
  <2>9. Adjusted(w, w2, u, k, v)
    BY <2>7, <2>8, AdjustedIs
  <2>10. Bounded(w)
    BY <2>5 DEF Clean
  <2>11. Bounded(w2)
    BY ONLY <2>6, <2>7, <2>9, <2>10, AdjustedBounded, k \in Key, v \in Int, w \in UndoT
  <2>12. \A x \in Undo, y \in Key \ {CurKey(Ops[i])} : un'[x][y] = un[x][y]
    BY <1>1, <2>3, <2>5, <2>6, <2>8, <2>9 DEF Adjusted
  <2>13. UndoEntriesLive'
    BY <2>12, EntryLives DEF Clean
  <2>14. Took(u, CurOp, w, w2)
    BY <1>3, <2>3, <2>4, <2>6, <2>8 DEF Took
  <2> QED BY <2>5, <2>6, <2>7, <2>8, <2>11, <2>13, <2>14
<1> QED BY <1>2, <1>3

\* An operation has been done: the trail grows by its entries.
LEMMA TrailedGrows ==
    ASSUME IInv, Clean, cur # NoProc, i <= Len(Ops), Bounded(un'),
           Took(sem_undo'[cur], CurOp, un, un'),
           sem_undo'[cur] = sem_undo[cur] \/ sem_undo[cur] = NoUndo,
           NEW r, r.un = un', trail' = Append(trail, r),
           i' = i + 1, UNCHANGED <<call, cur>>
    PROVE  Trailed'
<1>1. i \in Nat \ {0} /\ Len(trail) = i /\ i \in 1 .. i
  BY DEF IInv, TypeOK, ExecType, TrailOK
<1>2. /\ trail'[i + 1].un = un' /\ \A j \in 1 .. i : trail'[j] = trail[j]
  BY <1>1 DEF IInv, TypeOK, ExecType
<1>3. /\ trail[i].un = un /\ \A j \in 1 .. i : Bounded(trail[j].un)
      /\ \A j \in 1 .. i - 1 : Took(sem_undo[cur], Ops[j], trail[j].un, trail[j + 1].un)
  BY DEF Clean, Trailed
<1>4. ASSUME NEW j \in 1 .. i + 1
      PROVE  Bounded(trail'[j].un)
  <2>1. j \in 1 .. i \/ j = i + 1
    BY <1>1
  <2> QED BY <1>2, <1>3, <2>1
<1>5. ASSUME NEW j \in 1 .. i
      PROVE  Took(sem_undo'[cur], Ops[j], trail'[j].un, trail'[j + 1].un)
  <2>1. CASE j = i
    BY <1>1, <1>2, <1>3, <2>1 DEF CurOp
  <2>2. CASE j # i
    <3>1. j \in 1 .. i - 1 /\ j + 1 \in 1 .. i
      BY <1>1, <2>2
    <3>2. Took(sem_undo[cur], Ops[j], trail'[j].un, trail'[j + 1].un)
      BY <1>2, <1>3, <3>1
    <3> QED BY <3>2 DEF Took
  <2> QED BY <2>1, <2>2
<1>6. i' = i + 1 /\ i' - 1 = i /\ cur' = cur /\ Ops' = Ops
  BY <1>1 DEF Ops
<1>7. (\A j \in 1 .. i - 1 : Took(sem_undo[cur], Ops[j], trail[j].un, trail[j + 1].un))'
  BY <1>5, <1>6, ZenonT(60) DEF Took, CurKey
<1>8. (trail[i].un = un /\ \A j \in 1 .. i : Bounded(trail[j].un))'
  <2>1. ASSUME NEW w
        PROVE  Bounded(w)' <=> Bounded(w)
    BY DEF Bounded, InAem, Nonzero
  <2> QED BY <1>2, <1>4, <1>6, <2>1
<1> QED BY <1>7, <1>8 DEF Trailed

\* An operation that changes its semaphore has been done.
LEMMA DoneClean ==
    ASSUME IInv, IInv', Clean, pc = "loop", i <= Len(Ops), CurOp.op # 0,
           ~AdjustFails(CurOp), NEW C, Done(C)
    PROVE  Clean'
<1>1. cur # NoProc /\ i \in 1 .. Len(Ops)
  <2>1. cur # NoProc
    BY DEF IInv, KernelOK
  <2> QED BY <2>1, InKernel DEF IInv, TypeOK, ExecType
<1>2. /\ semval' = [semval EXCEPT ![CurSem] = @ + CurOp.op] /\ Adjust(CurOp)
      /\ cnt' = CntAfter(C) /\ stat' = StatAfter(C) /\ i' = i + 1
      /\ trail' = Append(trail, [val |-> semval', un |-> un'])
      /\ sema' = sema /\ semmap' = semmap /\ call' = call /\ cur' = cur /\ pc' = pc
  BY DEF Done, setVars
<1>3. /\ Bounded(un') /\ UndoEntriesLive' /\ Took(sem_undo'[cur], CurOp, un, un')
      /\ sem_undo'[cur] = sem_undo[cur] \/ sem_undo[cur] = NoUndo
  BY <1>1, <1>2, AdjustClean
<1>4. Trailed'
  <2>1. PICK r : r = [val |-> semval', un |-> un']
    OBVIOUS
  <2>2. r.un = un'
    BY <2>1
  <2> QED BY <1>1, <1>2, <1>3, <2>1, <2>2, TrailedGrows
<1>5. SetsDisjoint'
  BY <1>2 DEF Clean, SetsDisjoint, SemsOf
<1>6. SleepsHere'
  BY <1>2 DEF SleepsHere
<1>7. NoOrphanSleeper'
  <2>1. \A q \in Proc : stat'[q] = "asleep" => stat[q] = "asleep" /\ call'[q] = call[q]
    BY <1>2 DEF StatAfter
  <2> QED BY <1>2, <2>1, OrphansKept DEF Clean
<1>8. FreeSemsClean'
  <2>1. CurSem \notin semmap
    BY <1>1, CurSemKept
  <2>2. \A s \in semmap : semval'[s] = semval[s]
    BY <1>2, <2>1 DEF IInv, TypeOK, SetsType, SemsType
  <2> QED BY <1>2, <2>2, WakeCountsNobody, FreeKept DEF Clean, IInv, TypeOK
<1> QED BY <1>3, <1>4, <1>5, <1>6, <1>7, <1>8 DEF Clean

\* The process in the kernel and the undo structures stay as they are.
LEMMA TrailedKept ==
    ASSUME Trailed, UNCHANGED <<cur, i, trail, un, sem_undo>>, call'[cur].id = call[cur].id,
           call'[cur].ops = call[cur].ops
    PROVE  Trailed'
<1>1. cur' = cur /\ i' = i /\ trail' = trail /\ un' = un /\ sem_undo' = sem_undo /\ Ops' = Ops
  BY DEF Ops
<1> SUFFICES ASSUME cur # NoProc
             PROVE  /\ trail[i].un = un
                    /\ (\A j \in 1 .. i : Bounded(trail[j].un))'
                    /\ (\A j \in 1 .. i - 1 :
                           Took(sem_undo[cur], Ops[j], trail[j].un, trail[j + 1].un))'
  BY <1>1 DEF Trailed
<1>2. (\A j \in 1 .. i : Bounded(trail[j].un))'
  <2> SUFFICES ASSUME NEW j \in 1 .. i
               PROVE  Bounded(trail[j].un)'
    BY <1>1
  <2>1. Bounded(trail[j].un)
    BY DEF Trailed
  <2> QED BY <1>1, <2>1 DEF Bounded, InAem, Nonzero
<1>3. (\A j \in 1 .. i - 1 : Took(sem_undo[cur], Ops[j], trail[j].un, trail[j + 1].un))'
  <2> SUFFICES ASSUME NEW j \in 1 .. i - 1
               PROVE  Took(sem_undo[cur], Ops[j], trail[j].un, trail[j + 1].un)'
    BY <1>1
  <2>1. Took(sem_undo[cur], Ops[j], trail[j].un, trail[j + 1].un)
    BY DEF Trailed
  <2> QED BY <1>1, <2>1 DEF Took, CurKey
<1> QED BY <1>2, <1>3 DEF Trailed

\* The step stores nothing, and nobody falls asleep.
LEMMA CalmClean ==
    ASSUME IInv, Clean, UNCHANGED <<setVars, semVars, un>>, Trailed', SleepsHere',
           \A q \in Proc : stat'[q] = "asleep" => stat[q] = "asleep" /\ call'[q] = call[q]
    PROVE  Clean'
<1>1. SetsDisjoint'
  BY DEF Clean, SetsDisjoint, SemsOf, setVars
<1>2. UndoEntriesLive' /\ Bounded(un')
  BY DEF Clean, UndoEntriesLive, Semconv, setVars
<1>3. FreeSemsClean'
  BY DEF Clean, FreeSemsClean, setVars, semVars
<1>4. NoOrphanSleeper'
  BY OrphansKept DEF Clean, setVars
<1> QED BY <1>1, <1>2, <1>3, <1>4 DEF Clean

\* psignal, and a stop with its SIGCONT.
LEMMA SignalClean ==
    ASSUME IInv, Clean, NEW p \in Proc, Signal(p) \/ StopCont(p)
    PROVE  Clean'
<1>1. /\ UNCHANGED <<setVars, semVars, undoVars, call, execVars>>
      /\ \A q \in Proc : stat'[q] = "asleep" => stat[q] = "asleep"
  BY DEF Signal, StopCont, IInv, TypeOK, ProcType
<1>2. Trailed'
  BY <1>1, TrailedKept DEF Clean, undoVars, execVars
<1>3. SleepsHere'
  BY <1>1 DEF Clean, SleepsHere, SemsOf, setVars, execVars
<1> QED BY <1>1, <1>2, <1>3, CalmClean DEF undoVars

\* semop begins, or begins again.
LEMMA LoopClean ==
    ASSUME IInv, Clean, NEW p \in Proc, UNCHANGED <<setVars, semVars, undoVars>>,
           stat' = [stat EXCEPT ![p] = "kernel"], pc' = "loop", i' = 1, trail' = <<Snapshot>>,
           \A q \in Proc \ {p} : call'[q] = call[q]
    PROVE  Clean'
<1>1. Trailed'
  <2>1. trail'[1].un = un /\ un' = un /\ Bounded(un)'
    BY DEF Snapshot, undoVars, Clean, Bounded, InAem, Nonzero
  <2>2. \A j \in 1 .. 1 : trail'[j].un = un'
    BY <2>1
  <2>3. \A j \in 1 .. 1 - 1 : FALSE
    OBVIOUS
  <2> QED BY <2>1, <2>2, <2>3 DEF Trailed, Bounded, InAem, Nonzero
<1>2. SleepsHere'
  BY DEF SleepsHere
<1>3. \A q \in Proc : stat'[q] = "asleep" => stat[q] = "asleep" /\ call'[q] = call[q]
  BY DEF IInv, TypeOK, ProcType
<1> QED BY <1>1, <1>2, <1>3, CalmClean DEF undoVars

\* The system call, and what a process does after its sleep.
LEMMA SemopClean ==
    ASSUME IInv, IInv', Clean, NEW p \in Proc,
           \/ \E id \in Id, ops \in OpLists : Semop(p, id, ops)
           \/ SleepAgain(p) \/ SemopPageIn(p)
    PROVE  Clean'
<1>1. CASE EnterLoop(p) \/ \E id \in Id, ops \in OpLists : Semop(p, id, ops)
  <2>1. /\ UNCHANGED <<setVars, semVars, undoVars>> /\ stat' = [stat EXCEPT ![p] = "kernel"]
        /\ pc' = "loop" /\ i' = 1 /\ trail' = <<Snapshot>>
        /\ \A q \in Proc \ {p} : call'[q] = call[q]
    BY <1>1 DEF Semop, EnterLoop, IInv, TypeOK, ProcType
  <2> QED BY <2>1, LoopClean
<1>2. CASE EnterFault(p) \/ (SemopPageIn(p) /\ ~EnterLoop(p))
  <2>1. /\ cur' = NoProc /\ UNCHANGED <<setVars, semVars, undoVars>>
        /\ \A q \in Proc : stat'[q] = "asleep" => stat[q] = "asleep" /\ call'[q] = call[q]
    BY <1>2 DEF EnterFault, SemopPageIn, execVars, IInv, TypeOK, ProcType
  <2> QED BY <2>1, QuietClean DEF semVars, undoVars
<1> QED BY <1>1, <1>2 DEF SleepAgain

\* SETALL or semop has to wait for a page of the user's buffer.
LEMMA FaultClean ==
    ASSUME IInv, IInv', Clean, NEW p \in Proc,
           \/ \E id \in Id, vals \in SetVals : SetAllFault(p, id, vals)
           \/ \E id \in Id, ops \in OpLists : SemopFault(p, id, ops)
    PROVE  Clean'
<1>1. /\ cur' = NoProc /\ UNCHANGED <<setVars, semVars, undoVars>>
      /\ \A q \in Proc : stat'[q] = "asleep" => stat[q] = "asleep" /\ call'[q] = call[q]
  BY DEF SetAllFault, SemopFault, Calls, execVars, IInv, TypeOK, ProcType
<1> QED BY <1>1, QuietClean DEF semVars, undoVars

\* sleep is interrupted or finds the set gone.
LEMMA WokenClean ==
    ASSUME IInv, IInv', Clean, NEW p \in Proc, SleepIntr(p) \/ SleepRemoved(p) \/ Fork(p)
    PROVE  Clean'
<1>1. /\ UNCHANGED <<setVars, semval, undoVars>>
      /\ \A q \in Proc : stat'[q] = "asleep" => stat[q] = "asleep" /\ call'[q] = call[q]
  BY DEF SleepIntr, SleepRemoved, Fork, StatLeft, IInv, TypeOK, ProcType, semVars
<1>2. \A ch \in Chan : cnt[ch] = 0 => cnt'[ch] = 0
  BY DEF SleepIntr, SleepRemoved, Fork, CntLeft, semVars, IInv, TypeOK, SemsType
<1>3. CASE cur' = NoProc
  BY <1>1, <1>2, <1>3, QuietClean DEF undoVars
<1>4. CASE cur' # NoProc
  <2>1. Fork(p) /\ UNCHANGED <<semVars, undoVars, call, execVars>>
    BY <1>4 DEF SleepIntr, SleepRemoved, Awake, Fork, execVars
  <2>2. Trailed'
    BY <2>1, TrailedKept DEF Clean, undoVars, execVars
  <2>3. SleepsHere'
    BY <1>1, <2>1 DEF Clean, SleepsHere, SemsOf, setVars, execVars
  <2> QED BY <1>1, <2>1, <2>2, <2>3, CalmClean DEF undoVars
<1> QED BY <1>3, <1>4

\* semop returns.
LEMMA ReturnClean ==
    ASSUME Premises, IInv, IInv', Clean, UndoneError \/ Finish \/ UndoneIntr
    PROVE  Clean'
<1>1. cur # NoProc /\ cur \in Proc
  <2>1. cur # NoProc
    BY DEF UndoneError, Finish, UndoneIntr, IInv, KernelOK
  <2> QED BY <2>1, InKernel
<1>2. /\ UNCHANGED <<setVars, semval, undoVars>> /\ cur' = NoProc
      /\ \A q \in Proc : stat'[q] = "asleep" => stat[q] = "asleep" /\ call'[q] = call[q]
  BY <1>1 DEF UndoneError, Finish, UndoneIntr, Return, StatLeft, IInv, TypeOK, ProcType, semVars
<1>3. \A ch \in Chan : cnt[ch] = 0 => cnt'[ch] = 0
  <2>1. CASE UndoneIntr
    <3>1. PICK ch \in Chan : ch = call[cur].ch
      BY <1>1 DEF IInv, TypeOK, ProcType, Call
    <3>2. cnt' = [cnt EXCEPT ![ch] = CntLeft((cnt[ch] + 1) % ushort)]
      BY <2>1, <3>1 DEF UndoneIntr
    <3>3. (cnt[ch] + 1) % ushort = cnt[ch] + 1
      BY <1>1, CntRoom
    <3>4. cnt[ch] = 0 => CntLeft(cnt[ch] + 1) = 0
      BY DEF CntLeft
    <3> QED BY <3>2, <3>3, <3>4 DEF IInv, TypeOK, SemsType
  <2>2. CASE UndoneError \/ Finish
    BY <2>2 DEF UndoneError, Finish, semVars
  <2> QED BY <2>1, <2>2
<1> QED BY <1>2, <1>3, QuietClean DEF undoVars

\* semop goes to sleep, on a semaphore of its set.
LEMMA SleepClean == ASSUME Premises, IInv, IInv', Clean, UndoneSleep PROVE Clean'
<1>1. cur # NoProc /\ cur \in Proc /\ Semconv(call[cur].id) /\ call[cur].id[1] \in Slots
  <2>1. cur # NoProc
    BY DEF UndoneSleep, IInv, KernelOK
  <2> QED BY <2>1, InKernel DEF IInv, KernelOK
<1>2. /\ cnt' = [cnt EXCEPT ![call[cur].ch] = (@ + 1) % ushort]
      /\ stat' = [stat EXCEPT ![cur] = "asleep"] /\ cur' = NoProc
      /\ UNCHANGED <<setVars, semval, undoVars, call>>
      /\ call[cur].ch[2] \in SemsOf(call[cur].id[1])
  BY DEF UndoneSleep, Clean, SleepsHere
<1>3. SetsDisjoint'
  BY <1>2 DEF Clean, SetsDisjoint, SemsOf, setVars
<1>4. UndoEntriesLive' /\ Bounded(un')
  BY <1>2 DEF Clean, UndoEntriesLive, Semconv, setVars, undoVars
<1>5. FreeSemsClean'
  <2> SUFFICES ASSUME NEW s \in semmap
               PROVE  semval'[s] = 0 /\ cnt'[<<"n", s>>] = 0 /\ cnt'[<<"z", s>>] = 0
    BY <1>2 DEF FreeSemsClean, setVars
  <2>1. s # call[cur].ch[2] /\ s \in Sems
    BY <1>1, <1>2 DEF Clean, SetsDisjoint, Semconv, IInv, TypeOK, SetsType
  <2>2. \A c \in {"n", "z"} : <<c, s>> # call[cur].ch /\ <<c, s>> \in Chan
    BY <2>1 DEF Chan
  <2> QED BY <1>2, <2>2 DEF Clean, FreeSemsClean, IInv, TypeOK, SemsType
<1>6. NoOrphanSleeper'
  <2> SUFFICES ASSUME NEW q \in Proc, stat'[q] = "asleep"
               PROVE  Semconv(call[q].id) /\ call[q].ch[2] \in SemsOf(call[q].id[1])
    BY <1>2 DEF NoOrphanSleeper, Semconv, SemsOf, setVars
  <2>1. stat[q] = "asleep" \/ q = cur
    BY <1>2 DEF IInv, TypeOK, ProcType
  <2> QED BY <1>1, <1>2, <2>1 DEF Clean, NoOrphanSleeper
<1>7. SleepsHere' /\ Trailed'
  BY <1>2 DEF SleepsHere, Trailed, IInv, KernelOK
<1> QED BY <1>3, <1>4, <1>5, <1>6, <1>7 DEF Clean

\* An operation that waits for zero and finds it.
LEMMA OpZeroClean == ASSUME Premises, IInv, IInv', Clean, OpZero PROVE Clean'
<1>1. /\ cur # NoProc /\ i <= Len(Ops) /\ CurOp.op = 0
      /\ UNCHANGED <<setVars, semVars, undoVars, procVars, cur, pc, after>>
      /\ i' = i + 1 /\ trail' = Append(trail, Snapshot)
  BY DEF OpZero, InLoop, IInv, KernelOK
<1>2. UNCHANGED <<call, cur, un, sem_undo, stat, sema>>
  BY <1>1 DEF undoVars, procVars, setVars
<1>3. Trailed'
  <2>1. Bounded(un') /\ Took(sem_undo'[cur], CurOp, un, un')
    BY <1>1, <1>2 DEF Clean, Took
  <2>2. PICK r : r = Snapshot
    OBVIOUS
  <2>3. r.un = un'
    BY <1>2, <2>2 DEF Snapshot
  <2> QED BY <1>1, <1>2, <2>1, <2>2, <2>3, TrailedGrows
<1>4. SleepsHere'
  BY <1>1, <1>2 DEF Clean, SleepsHere, SemsOf
<1> QED BY <1>1, <1>2, <1>3, <1>4, CalmClean

\* semop decides to take back what it has done, to fail or to sleep.
LEMMA BackClean == ASSUME IInv, IInv', Clean, OpFail \/ OpBlock PROVE Clean'
<1>1. /\ cur # NoProc /\ cur \in Proc /\ i \in 1 .. Len(Ops)
  <2>1. cur # NoProc /\ i <= Len(Ops)
    BY DEF OpFail, OpBlock, InLoop, IInv, KernelOK
  <2> QED BY <2>1, InKernel DEF IInv, TypeOK, ExecType
<1>2. UNCHANGED <<setVars, semVars, undoVars, stat, cur, i, trail>>
  BY DEF OpFail, OpBlock, procVars
<1>3. CurSem \in SemsOf(call[cur].id[1])
  BY <1>1, CurSemKept
<1>4. /\ call'[cur].id = call[cur].id /\ call'[cur].ops = call[cur].ops
      /\ \A q \in Proc \ {cur} : call'[q] = call[q]
      /\ after' = "sleep" => call'[cur].ch[2] = CurSem
  <2>1. CASE OpFail
    BY <2>1 DEF OpFail, TakeBack, procVars
  <2>2. CASE OpBlock
    <3>1. PICK c \in Call : c = call[cur]
      BY <1>1 DEF IInv, TypeOK, ProcType
    <3>2. PICK h, s, n : /\ call' = [call EXCEPT ![cur].ch = <<h, s>>, ![cur].need = n]
                         /\ s = CurSem
      BY <2>2 DEF OpBlock
    <3>3. call'[cur] = [c EXCEPT !.ch = <<h, s>>, !.need = n]
      BY <1>1, <3>1, <3>2 DEF IInv, TypeOK, ProcType
    <3>4. call'[cur].id = c.id /\ call'[cur].ops = c.ops /\ call'[cur].ch[2] = s
      BY ONLY <3>3, c \in Call DEF Call
    <3>5. \A q \in Proc \ {cur} : call'[q] = call[q]
      BY <3>2 DEF IInv, TypeOK, ProcType
    <3>6. call'[cur].ch[2] = CurSem
      <4>1. s = CurSem
        BY <3>2
      <4>2. call'[cur].ch[2] = s
        BY <3>4
      <4> QED BY ONLY <4>1, <4>2
    <3>7. call'[cur].id = call[cur].id /\ call'[cur].ops = call[cur].ops
      BY <3>1, <3>4
    <3> QED BY <3>5, <3>6, <3>7
  <2> QED BY <2>1, <2>2
<1>5. Trailed'
  BY <1>2, <1>4, TrailedKept DEF Clean, undoVars
<1>6. SleepsHere'
  BY <1>2, <1>3, <1>4 DEF SleepsHere, SemsOf, setVars
<1>7. stat[cur] # "asleep" /\ stat' = stat
  BY <1>1, <1>2, InKernel
<1>8. \A q \in Proc : stat'[q] = "asleep" => stat[q] = "asleep" /\ call'[q] = call[q]
  BY <1>4, <1>7
<1> QED BY <1>2, <1>5, <1>6, <1>8, CalmClean DEF undoVars

\* One iteration of semundo takes the last entry of the trail back.
LEMMA UndoStepClean == ASSUME Premises, IInv, IInv', Clean, UndoStep PROVE Clean'
<1>1. /\ pc = "undo" /\ i > 1 /\ cur # NoProc /\ UndoAdjust(Ops[i - 1])
      /\ semval' = [semval EXCEPT ![SemOf(call[cur].id[1], Ops[i - 1].num)] = @ - Ops[i - 1].op]
      /\ i' = i - 1 /\ trail' = Front(trail)
      /\ UNCHANGED <<sema, semmap, cnt, stat, call, cur, pc, after>>
  BY DEF UndoStep, IInv, KernelOK, setVars, procVars
<1>2. PICK n \in Nat \ {0} : n = i - 1 /\ n + 1 = i /\ n \in 1 .. Len(Ops)
  <2>1. i \in Nat
    BY DEF IInv, TypeOK, ExecType
  <2>2. i <= Len(Ops) + 1
    BY <1>1 DEF IInv, TrailOK
  <2>3. Len(Ops) \in Nat
    <3>1. Ops \in Seq(SemOp)
      BY <1>1, InKernel
    <3> QED BY <3>1
  <2> QED BY <1>1, <2>1, <2>2, <2>3
<1>3. /\ \A j \in 1 .. n : trail'[j] = trail[j]
      /\ \A j \in 1 .. n + 1 : trail[j].un \in UndoT
  <2>1. /\ trail \in Seq([val : [Sems -> 0 .. semvmx], un : [Undo -> [Key -> Int]]])
        /\ Len(trail) = n + 1
    BY <1>1, <1>2 DEF IInv, TypeOK, ExecType, TrailOK
  <2>2. \A j \in 1 .. n + 1 :
          trail[j] \in [val : [Sems -> 0 .. semvmx], un : [Undo -> [Key -> Int]]]
    BY <2>1, ElementOf
  <2> QED BY <1>1, <1>2, <2>1, <2>2, FrontOf DEF UndoT
<1>4. /\ trail[n + 1].un = un /\ \A j \in 1 .. n + 1 : Bounded(trail[j].un)
      /\ \A j \in 1 .. n : Took(sem_undo[cur], Ops[j], trail[j].un, trail[j + 1].un)
  BY <1>1, <1>2 DEF Clean, Trailed
<1>5. Took(sem_undo[cur], Ops[n], trail[n].un, un)
  <2>1. n \in 1 .. n
    BY <1>2
  <2> QED BY <1>4, <2>1
<1>6. un' = trail[n].un /\ sem_undo' = sem_undo
  <2>1. CASE ~(Ops[n].undo /\ Ops[n].op # 0)
    <3>1. trail[n + 1].un = trail[n].un
      BY <1>4, <1>5, <2>1 DEF Took
    <3> QED BY <1>1, <1>2, <1>4, <2>1, <3>1 DEF UndoAdjust, undoVars
  <2>2. CASE Ops[n].undo /\ Ops[n].op # 0
    <3>1. PICK u : u = sem_undo[cur]
      OBVIOUS
    <3>2. PICK k \in Key : k = CurKey(Ops[n])
      BY <1>1, <1>2, CurTypes
    <3>3. PICK v \in Int : v = Ops[n].op
      BY <1>1, <1>2, CurTypes
    <3>4. PICK w \in UndoT : w = trail[n].un
      BY <1>2, <1>3
    <3>5. PICK w2 \in UndoT : w2 = un
      BY <1>2, <1>3, <1>4
    <3>6. /\ u # NoUndo /\ InAem(v) /\ w2 = [w EXCEPT ![u][k] = @ - v] /\ v # 0 /\ Bounded(w)
      BY <1>2, <1>4, <1>5, <2>2, <3>1, <3>2, <3>3, <3>4, <3>5 DEF Took
    <3>7. cur \in Proc /\ u \in Undo
      BY <1>1, <3>1, <3>6, InKernel DEF IInv, TypeOK, UndoType
    <3>8. Adjusted(w, w2, u, k, v)
      BY <3>6, <3>7, AdjustedIs
    <3>9. TakenBack(w, w2, u, k, v)
      BY <3>6, <3>7, <3>8, AdjustedBack
    <3>10. UndoOf(cur) = u
      BY <3>1, <3>6 DEF UndoOf
    <3>11. SemaoeOK(cur, k, -v)
      BY <3>5, <3>6, <3>9, <3>10 DEF TakenBack, SemaoeOK, UnCnt, Nonzero
    <3>12. SemaoeDone(cur, k, -v)
      BY <1>1, <1>2, <2>2, <3>2, <3>3, <3>11 DEF UndoAdjust
    <3>13. un' = w
      BY <3>5, <3>9, <3>10, <3>12 DEF TakenBack, SemaoeDone
    <3>14. sem_undo' = [sem_undo EXCEPT ![cur] = u]
      BY <3>10, <3>12 DEF SemaoeDone
    <3> QED BY <3>1, <3>4, <3>7, <3>13, <3>14 DEF IInv, TypeOK, UndoType
  <2> QED BY <2>1, <2>2
<1>7. Bounded(un') /\ Bounded(un)'
  <2>1. n \in 1 .. n + 1
    BY <1>2
  <2> QED BY <1>4, <1>6, <2>1 DEF Bounded, InAem, Nonzero
<1>8. UndoEntriesLive'
  <2>1. \A u \in Undo, k \in Key \ {CurKey(Ops[n])} : un'[u][k] = un[u][k]
    <3>1. CASE ~(Ops[n].undo /\ Ops[n].op # 0)
      BY <1>5, <1>6, <3>1 DEF Took
    <3>2. CASE Ops[n].undo /\ Ops[n].op # 0
      <4>1. PICK w \in UndoT : w = trail[n].un
        BY <1>2, <1>3
      <4>2. PICK a, v : un = [w EXCEPT ![a][CurKey(Ops[n])] = @ - v]
        BY <1>5, <3>2, <4>1 DEF Took
      <4> QED BY <1>6, <4>1, <4>2 DEF UndoT
    <3> QED BY <3>1, <3>2
  <2> QED BY <1>1, <1>2, <2>1, EntryLives DEF Clean
<1>9. Trailed'
  <2>1. i' = n /\ cur' = cur /\ Ops' = Ops /\ trail'[n] = trail[n]
    BY <1>1, <1>2, <1>3 DEF Ops
  <2>2. (trail[i].un = un)'
    BY <1>6, <2>1
  <2>3. (\A j \in 1 .. i : Bounded(trail[j].un))'
    <3> SUFFICES ASSUME NEW j \in 1 .. n
                 PROVE  Bounded(trail[j].un)'
      BY <2>1
    <3>1. j \in 1 .. n + 1 /\ trail'[j].un = trail[j].un
      BY <1>2, <1>3
    <3>2. Bounded(trail[j].un)
      BY <1>4, <3>1
    <3> QED BY <3>1, <3>2 DEF Bounded, InAem, Nonzero
  <2>4. (\A j \in 1 .. i - 1 : Took(sem_undo[cur], Ops[j], trail[j].un, trail[j + 1].un))'
    <3> SUFFICES ASSUME NEW j \in 1 .. n - 1
        PROVE  Took(sem_undo[cur], Ops[j], trail[j].un, trail[j + 1].un)'
      BY <2>1
    <3>1. j \in 1 .. n /\ j + 1 \in 1 .. n
      BY <1>2
    <3>2. Took(sem_undo[cur], Ops[j], trail[j].un, trail[j + 1].un)
      BY <1>4, <3>1
    <3> QED BY <1>1, <1>3, <1>6, <2>1, <3>1, <3>2 DEF Took, CurKey
  <2> QED BY <2>2, <2>3, <2>4 DEF Trailed
<1>10. SetsDisjoint' /\ SleepsHere'
  BY <1>1 DEF Clean, SetsDisjoint, SleepsHere, SemsOf
<1>11. NoOrphanSleeper'
  BY <1>1, OrphansKept DEF Clean
<1>12. FreeSemsClean'
  <2>1. SemOf(call[cur].id[1], Ops[n].num) \notin semmap
    BY <1>1, <1>2, DoneSemKept
  <2>2. \A s \in semmap : semval'[s] = semval[s]
    BY <1>1, <1>2, <2>1 DEF IInv, TypeOK, SetsType, SemsType
  <2>3. \A ch \in Chan : cnt[ch] = 0 => cnt'[ch] = 0
    BY <1>1
  <2> QED BY <1>1, <2>2, <2>3, FreeKept DEF Clean, IInv, TypeOK
<1> QED BY <1>7, <1>8, <1>9, <1>10, <1>11, <1>12 DEF Clean

\* Every step preserves the second invariant.
LEMMA NextClean ==
    ASSUME Premises, IInv, IInv', Clean, Next, NoneStraddles
    PROVE  Clean'
<1>1. CASE OpAdd \/ OpSub
  <2>1. PICK C : /\ pc = "loop" /\ i <= Len(Ops) /\ CurOp.op # 0
                 /\ ~AdjustFails(CurOp) /\ Done(C)
    <3>1. CASE OpAdd
      BY <3>1 DEF OpAdd, InLoop
    <3>2. CASE OpSub
      BY <3>2 DEF OpSub, InLoop
    <3> QED BY <1>1, <3>1, <3>2
  <2> QED BY <2>1, DoneClean
<1>2. CASE Step
  BY <1>1, <1>2, OpZeroClean, BackClean, UndoStepClean, ReturnClean, SleepClean DEF Step
<1>3. ASSUME NEW p \in Proc, Syscall(p)
      PROVE  Clean'
  <2>1. CASE \E n \in 1 .. semmsl : Semget(p, n)
    BY <2>1, SemgetClean
  <2>2. CASE \E id \in Id : Rmid(p, id)
    BY <2>2, RmidClean
  <2>3. CASE \E id \in Id, num \in Nums, v \in 0 .. semvmx : SetVal(p, id, num, v)
    BY <2>3, SetValClean
  <2>4. CASE \E id \in Id, vals \in SetVals :
                SetAll(p, id, vals) \/ SetAllFault(p, id, vals)
    BY <2>4, SetAllClean, FaultClean
  <2>5. CASE \E id \in Id, ops \in OpLists : Semop(p, id, ops) \/ SemopFault(p, id, ops)
    BY <2>5, SemopClean, FaultClean
  <2>6. CASE Exit(p)
    BY <2>6, ExitClean
  <2> QED BY <1>3, <2>1, <2>2, <2>3, <2>4, <2>5, <2>6 DEF Syscall
<1>4. ASSUME NEW p \in Proc, Resume(p) \/ Fork(p)
      PROVE  Clean'
  BY <1>4, WokenClean, SemopClean DEF Resume
<1>5. ASSUME NEW p \in Proc, PageIn(p)
      PROVE  Clean'
  BY <1>5, NotRemoved, SetAllClean, SemopClean DEF PageIn, IInv, TypeOK
<1>6. ASSUME NEW p \in Proc, Signal(p) \/ StopCont(p)
      PROVE  Clean'
  BY <1>6, SignalClean
<1> QED BY <1>2, <1>3, <1>4, <1>5, <1>6 DEF Next

\* So does a step that changes nothing.
LEMMA StutterClean == ASSUME Clean, UNCHANGED vars PROVE Clean'
<1>1. /\ UNCHANGED <<sema, semmap, semval, cnt, un, sem_undo, stat, call>>
      /\ UNCHANGED <<cur, pc, i, after, trail>>
  BY DEF vars, setVars, semVars, undoVars, procVars, execVars
<1>2. Trailed'
  BY <1>1, TrailedKept DEF Clean
<1>3. SetsDisjoint' /\ SleepsHere' /\ NoOrphanSleeper'
  BY <1>1 DEF Clean, SetsDisjoint, SleepsHere, NoOrphanSleeper, SemsOf, Semconv
<1>4. UndoEntriesLive' /\ FreeSemsClean' /\ Bounded(un')
  BY <1>1 DEF Clean, UndoEntriesLive, FreeSemsClean, Semconv
<1> QED BY <1>2, <1>3, <1>4 DEF Clean

\* Both invariants hold in every state of every run in which nobody goes on
\* with a removed set.
THEOREM SemClean ==
    ASSUME Premises PROVE Spec /\ [][NoneStraddles]_vars => [](IInv /\ Clean)
<1>1. Init => IInv /\ Clean
  BY InitInv, CleanInit
<1>2. IInv /\ Clean /\ [Next]_vars /\ [NoneStraddles]_vars => (IInv /\ Clean)'
  BY NextInv, StutterInv, NextClean, StutterClean
<1> QED BY <1>1, <1>2, PTL DEF Spec

\* Sets never share a semaphore with each other or with the free map, in any
\* interleaving of semget, IPC_RMID and the other calls and whatever they sleep
\* for: rmalloc and rmfree keep semmap exact (sem.c:298-300, 560-563).
THEOREM SemSetsDisjoint == Spec => []SetsDisjoint
<1>1. Init => SetsType /\ SetsDisjoint
  BY SetsInit
<1>2. SetsType /\ SetsDisjoint /\ [Next]_vars => (SetsType /\ SetsDisjoint)'
  BY SetsStep
<1> QED BY <1>1, <1>2, PTL DEF Spec

\* A semop that fails or sleeps leaves no trace: semundo restores every value
\* and every undo entry of the list's process, although it ignores what semaoe
\* returns, because taking back never fails (sem.c:228-245).  The list may be
\* copied in with page faults, if its set is there when it goes on.
THEOREM SemSemundoExact ==
    ASSUME Premises PROVE Spec /\ [][NoneStraddles]_vars => []SemundoExact
<1>1. IInv /\ Clean => SemundoExact
  BY DEF IInv, KernelOK, TrailOK, Clean, Trailed, SemundoExact
<1> QED BY <1>1, SemClean, PTL

\* A process sleeps only on a semaphore of the set its id names, and that set
\* exists: IPC_RMID leaves nobody asleep (sem.c:295-305, 644), as long as nobody
\* comes back from copyin and goes on with a set that it has removed.  (The run
\* sem_orphan shows what happens then.)
THEOREM SemNoOrphanSleeper ==
    ASSUME Premises PROVE Spec /\ [][NoneStraddles]_vars => []NoOrphanSleeper
<1>1. Clean => NoOrphanSleeper
  BY DEF Clean
<1> QED BY <1>1, SemClean, PTL

\* Free semaphores are zero and nobody is counted as waiting on them, which
\* semget relies on when it hands them out (sem.c:295-305, 560) - as long as
\* nobody comes back from copyin and goes on with a removed set.  (SETALL that
\* does, sem.c:458, or semop, :622 and :648, stores into free semaphores.)
THEOREM SemFreeSemsClean ==
    ASSUME Premises PROVE Spec /\ [][NoneStraddles]_vars => []FreeSemsClean
<1>1. Clean => FreeSemsClean
  BY DEF Clean
<1> QED BY <1>1, SemClean, PTL

\* No undo entry outlives the set it names (semunrm, sem.c:294), as long as
\* nobody comes back from copyin and goes on with a removed set.  (A semop that
\* does, sem.c:622 and :648, makes an entry for it after semunrm.)
THEOREM SemUndoEntriesLive ==
    ASSUME Premises PROVE Spec /\ [][NoneStraddles]_vars => []UndoEntriesLive
<1>1. Clean => UndoEntriesLive
  BY DEF Clean
<1> QED BY <1>1, SemClean, PTL

-----------------------------------------------------------------------------
(* The structures of live processes, as long as fork finds a slot that has *)
(* never had one.                                                          *)

Live(p) == stat[p] # "none"

\* The free structures are different ones, and none is a live process's; no
\* two live processes share one; whoever holds entries is live.
FreeOnce == \A j, l \in 1 .. Len(semfup) : semfup[j] = semfup[l] => j = l
OwnOne ==
    \A p \in Proc : Live(p) /\ sem_undo[p] # NoUndo =>
        /\ \A j \in 1 .. Len(semfup) : semfup[j] # sem_undo[p]
        /\ \A q \in Proc \ {p} : Live(q) => sem_undo[q] # sem_undo[p]
EntriesOwned ==
    \A u \in Undo, k \in Key : un[u][k] # 0 => \E p \in Proc : Live(p) /\ sem_undo[p] = u
Owned == FreeOnce /\ OwnOne /\ EntriesOwned

\* At the start all structures are free, in order.
LEMMA OwnedInit == ASSUME Init PROVE Owned
<1>1. semmnu \in Nat
  BY ProcAssumption
<1>2. Len(semfup) = semmnu /\ \A j \in 1 .. semmnu : semfup[j] = j
  BY <1>1 DEF Init, Undo
<1>3. FreeOnce /\ OwnOne
  BY <1>1, <1>2 DEF Init, FreeOnce, OwnOne
<1>4. EntriesOwned
  BY DEF Init, NoEntries, EntriesOwned
<1> QED BY <1>3, <1>4 DEF Owned

\* Nobody begins or ends, no structure is taken and no entry is made.
LEMMA OwnedKept ==
    ASSUME Owned, UNCHANGED <<sem_undo, semfup>>,
           \A q \in Proc : Live(q)' <=> Live(q),
           \A u \in Undo, k \in Key : un'[u][k] # 0 => un[u][k] # 0
    PROVE  Owned'
<1>1. FreeOnce' /\ OwnOne'
  BY DEF Owned, FreeOnce, OwnOne
<1>2. EntriesOwned'
  BY DEF Owned, EntriesOwned
<1> QED BY <1>1, <1>2 DEF Owned

\* semaoe takes the first free structure, or works on the process's own.
LEMMA SemaoeOwned ==
    ASSUME UndoType, Owned, NEW p \in Proc, Live(p), NEW k \in Key, NEW v \in Int,
           SemaoeOK(p, k, v), SemaoeDone(p, k, v), \A q \in Proc : Live(q)' <=> Live(q)
    PROVE  Owned'
<1>1. PICK u \in Undo : u = UndoOf(p)
  BY DEF UndoType, SemaoeOK, UndoOf
<1>2. /\ un' = [un EXCEPT ![u][k] = @ - v] /\ sem_undo' = [sem_undo EXCEPT ![p] = u]
      /\ semfup' = IF sem_undo[p] = NoUndo THEN Tail(semfup) ELSE semfup
  BY <1>1 DEF SemaoeDone
<1>3. /\ sem_undo'[p] = u /\ Live(p)'
      /\ \A q \in Proc \ {p} : sem_undo'[q] = sem_undo[q]
  BY <1>2 DEF UndoType
<1>4. EntriesOwned'
  <2> SUFFICES ASSUME NEW x \in Undo, NEW y \in Key, un'[x][y] # 0
               PROVE  \E q \in Proc : Live(q)' /\ sem_undo'[q] = x
    BY DEF EntriesOwned
  <2>1. CASE x = u
    BY <1>3, <2>1
  <2>2. CASE x # u
    <3>1. un[x][y] # 0
      BY <1>2, <2>2 DEF UndoType
    <3>2. PICK q \in Proc : Live(q) /\ sem_undo[q] = x
      BY <3>1 DEF Owned, EntriesOwned
    <3>3. CASE q = p
      <4>1. UndoOf(p) = x
        BY <3>2, <3>3 DEF UndoOf, Undo, NoUndo
      <4> QED BY <1>1, <2>2, <4>1
    <3>4. CASE q # p
      BY <1>3, <3>2, <3>4
    <3> QED BY <3>3, <3>4
  <2> QED BY <2>1, <2>2
<1>5. CASE sem_undo[p] # NoUndo
  <2>1. u = sem_undo[p] /\ semfup' = semfup
    BY <1>1, <1>2, <1>5 DEF UndoOf
  <2>2. sem_undo' = sem_undo
    BY <1>2, <2>1 DEF UndoType
  <2>3. FreeOnce' /\ OwnOne'
    BY <2>1, <2>2 DEF Owned, FreeOnce, OwnOne
  <2> QED BY <1>4, <2>3 DEF Owned
<1>6. CASE sem_undo[p] = NoUndo
  <2>1. semfup # <<>> /\ u = Head(semfup)
    BY <1>1, <1>6 DEF UndoOf, SemaoeOK, NoUndo, Undo
  <2>2. PICK n \in Nat : n = Len(semfup) - 1
    <3>1. semfup \in Seq(Undo) /\ Len(semfup) \in Nat
      BY DEF UndoType
    <3>2. Len(semfup) # 0
      BY <2>1, <3>1, EmptySeq
    <3> QED BY <3>1, <3>2
  <2>3. /\ semfup' = Tail(semfup) /\ u = semfup[1] /\ Len(semfup) = n + 1
        /\ Len(semfup') = n /\ \A j \in 1 .. n : semfup'[j] = semfup[j + 1]
    BY <1>2, <1>6, <2>1, <2>2 DEF UndoType
  <2>4. /\ 1 \in 1 .. n + 1
        /\ \A j \in 1 .. n : j + 1 \in 1 .. n + 1 /\ j + 1 # 1
    OBVIOUS
  <2>5. \A j, l \in 1 .. n + 1 : semfup[j] = semfup[l] => j = l
    BY <2>3 DEF Owned, FreeOnce
  <2>6. FreeOnce'
    <3> SUFFICES ASSUME NEW j \in 1 .. n, NEW l \in 1 .. n, semfup[j + 1] = semfup[l + 1]
                 PROVE  j = l
      BY <2>3 DEF FreeOnce
    <3>1. j + 1 = l + 1
      BY <2>4, <2>5
    <3> QED BY <3>1
  <2>7. \A q \in Proc : Live(q) => sem_undo[q] # u
    <3>1. u # NoUndo
      BY DEF Undo, NoUndo
    <3> QED BY <2>3, <2>4, <3>1 DEF Owned, OwnOne
  <2>8. \A j \in 1 .. n : semfup'[j] # u
    BY <2>3, <2>4, <2>5
  <2>9. OwnOne'
    <3> SUFFICES ASSUME NEW q \in Proc, Live(q), sem_undo'[q] # NoUndo
        PROVE  /\ \A j \in 1 .. n : semfup'[j] # sem_undo'[q]
               /\ \A r \in Proc \ {q} : Live(r) => sem_undo'[r] # sem_undo'[q]
      BY <2>3 DEF OwnOne
    <3>1. CASE q = p
      BY <1>3, <2>7, <2>8, <3>1
    <3>2. CASE q # p
      <4>1. sem_undo'[q] = sem_undo[q] /\ sem_undo[q] # NoUndo
        BY <1>3, <3>2
      <4>2. \A j \in 1 .. n : semfup'[j] # sem_undo[q]
        BY <2>3, <2>4, <4>1 DEF Owned, OwnOne
      <4>3. \A r \in Proc \ {q} : Live(r) => sem_undo'[r] # sem_undo[q]
        BY <1>3, <2>7, <4>1 DEF Owned, OwnOne
      <4> QED BY <4>1, <4>2, <4>3
    <3> QED BY <3>1, <3>2
  <2> QED BY <1>4, <2>6, <2>9 DEF Owned
<1> QED BY <1>5, <1>6

\* exit gives the structure of its process back, empty.
LEMMA ExitOwned == ASSUME IInv, Owned, NEW p \in Proc, Exit(p) PROVE Owned'
<1>1. UndoType /\ ProcType /\ Live(p) /\ sem_undo' = sem_undo
  BY DEF IInv, TypeOK, Exit, Calls, Live
<1>2. ~Live(p)' /\ \A q \in Proc \ {p} : Live(q)' <=> Live(q)
  <2>1. CASE sem_undo[p] = NoUndo
    BY <1>1, <2>1 DEF Exit, ProcType, Live
  <2>2. CASE sem_undo[p] # NoUndo
    <3>1. PICK C : stat' = [StatAfter(C) EXCEPT ![p] = "none"]
      BY <2>2 DEF Exit, Semexit
    <3> QED BY <3>1 DEF StatAfter, Live
  <2> QED BY <2>1, <2>2
<1>3. CASE sem_undo[p] = NoUndo
  <2>1. un' = un /\ semfup' = semfup
    BY <1>3 DEF Exit
  <2>2. FreeOnce' /\ OwnOne'
    BY <1>1, <1>2, <2>1 DEF Owned, FreeOnce, OwnOne
  <2>3. EntriesOwned'
    <3> SUFFICES ASSUME NEW u \in Undo, NEW k \in Key, un[u][k] # 0
                 PROVE  \E q \in Proc : Live(q)' /\ sem_undo[q] = u
      BY <1>1, <2>1 DEF EntriesOwned
    <3>1. PICK q \in Proc : Live(q) /\ sem_undo[q] = u
      BY DEF Owned, EntriesOwned
    <3>2. q # p
      BY <1>3, <3>1 DEF Undo, NoUndo
    <3> QED BY <1>2, <3>1, <3>2
  <2> QED BY <2>2, <2>3 DEF Owned
<1>4. CASE sem_undo[p] # NoUndo
  <2>1. PICK u \in Undo : u = sem_undo[p]
    BY <1>1, <1>4 DEF UndoType
  <2>2. un' = [un EXCEPT ![u] = NoEntries] /\ semfup' = <<u>> \o semfup
    BY <1>4, <2>1 DEF Exit, Semexit
  <2>3. PICK n \in Nat : n = Len(semfup)
    BY <1>1 DEF UndoType
  <2>4. /\ Len(semfup') = n + 1 /\ semfup'[1] = u
        /\ \A j \in 2 .. n + 1 : semfup'[j] = semfup[j - 1] /\ j - 1 \in 1 .. n
    BY <1>1, <2>2, <2>3 DEF UndoType
  <2>5. \A j \in 1 .. n : semfup[j] # u
    BY <1>1, <1>4, <2>1, <2>3 DEF Owned, OwnOne
  <2>6. \A q \in Proc \ {p} : Live(q) => sem_undo[q] # u
    BY <1>1, <1>4, <2>1 DEF Owned, OwnOne
  <2>7. \A j \in 1 .. n + 1 : j = 1 \/ j \in 2 .. n + 1
    OBVIOUS
  <2>8. FreeOnce'
    <3> SUFFICES ASSUME NEW j \in 1 .. n + 1, NEW l \in 1 .. n + 1, semfup'[j] = semfup'[l]
                 PROVE  j = l
      BY <2>4 DEF FreeOnce
    <3>1. CASE j = 1 \/ l = 1
      BY <2>4, <2>5, <2>7, <3>1
    <3>2. CASE j # 1 /\ l # 1
      <4>1. semfup[j - 1] = semfup[l - 1] /\ j - 1 \in 1 .. n /\ l - 1 \in 1 .. n
        BY <2>4, <2>7, <3>2
      <4>2. j - 1 = l - 1
        BY <2>3, <4>1 DEF Owned, FreeOnce
      <4> QED BY <4>2
    <3> QED BY <3>1, <3>2
  <2>9. OwnOne'
    <3> SUFFICES ASSUME NEW q \in Proc \ {p}, Live(q), sem_undo[q] # NoUndo
        PROVE  /\ \A j \in 1 .. n + 1 : semfup'[j] # sem_undo[q]
               /\ \A r \in Proc \ {q, p} : Live(r) => sem_undo[r] # sem_undo[q]
      BY <1>1, <1>2, <2>4 DEF OwnOne
    <3>1. \A j \in 1 .. n : semfup[j] # sem_undo[q]
      BY <2>3 DEF Owned, OwnOne
    <3>2. \A j \in 1 .. n + 1 : semfup'[j] # sem_undo[q]
      BY <2>4, <2>6, <2>7, <3>1
    <3> QED BY <3>2 DEF Owned, OwnOne
  <2>10. EntriesOwned'
    <3> SUFFICES ASSUME NEW x \in Undo, NEW k \in Key, un'[x][k] # 0
                 PROVE  \E q \in Proc : Live(q)' /\ sem_undo[q] = x
      BY <1>1 DEF EntriesOwned
    <3>1. x # u /\ un[x][k] # 0
      BY <1>1, <2>2 DEF UndoType, NoEntries
    <3>2. PICK q \in Proc : Live(q) /\ sem_undo[q] = x
      BY <3>1 DEF Owned, EntriesOwned
    <3> QED BY <1>2, <2>1, <3>1, <3>2
  <2> QED BY <2>8, <2>9, <2>10 DEF Owned
<1> QED BY <1>3, <1>4

\* fork gives its child a slot without a structure.
LEMMA ForkOwned ==
    ASSUME SlotReuse = FALSE, ProcType, Owned, NEW p \in Proc, Fork(p)
    PROVE  Owned'
<1>1. /\ sem_undo[p] = NoUndo /\ ~Live(p) /\ \A q \in Proc \ {p} : Live(q)' <=> Live(q)
      /\ UNCHANGED <<un, sem_undo, semfup>>
  BY DEF Fork, ProcType, Live, undoVars
<1>2. FreeOnce' /\ OwnOne'
  BY <1>1 DEF Owned, FreeOnce, OwnOne
<1>3. EntriesOwned'
  BY <1>1 DEF Owned, EntriesOwned
<1> QED BY <1>2, <1>3 DEF Owned

\* Every other step neither begins nor ends a process.
LEMMA LiveKept ==
    ASSUME IInv, Next, \A p \in Proc : ~Exit(p) /\ ~Fork(p)
    PROVE  \A q \in Proc : Live(q)' <=> Live(q)
<1>1. CASE Step
  <2>1. cur # NoProc /\ cur \in Proc /\ stat[cur] = "kernel"
    <3>1. cur # NoProc
      BY <1>1 DEF Step, OpAdd, OpSub, OpZero, OpFail, OpBlock, InLoop, UndoStep, UndoneError,
                  UndoneSleep, UndoneIntr, Finish, IInv, KernelOK
    <3> QED BY <3>1, InKernel
  <2>2. CASE OpAdd \/ OpSub \/ OpZero \/ OpFail \/ OpBlock \/ UndoStep
    BY <2>2 DEF OpAdd, OpSub, OpZero, OpFail, OpBlock, UndoStep, Done, StatAfter, Live, procVars
  <2>3. CASE UndoneError \/ UndoneSleep \/ Finish
    BY <2>1, <2>3 DEF UndoneError, UndoneSleep, Finish, Return, Live, IInv, TypeOK, ProcType
  <2>4. CASE UndoneIntr
    <3>1. PICK ch, c : stat' = [StatLeft(ch, c) EXCEPT ![cur] = "user"]
      BY <2>4 DEF UndoneIntr, Return
    <3> QED BY <2>1, <3>1 DEF StatLeft, Live
  <2> QED BY <1>1, <2>2, <2>3, <2>4 DEF Step
<1>2. ASSUME NEW p \in Proc, Resume(p) \/ Signal(p) \/ StopCont(p)
      PROVE  \A q \in Proc : Live(q)' <=> Live(q)
  <2>1. CASE SleepRemoved(p) \/ SleepAgain(p) \/ Signal(p) \/ StopCont(p)
    BY <2>1 DEF SleepRemoved, SleepAgain, Awake, EnterLoop, EnterFault, Signal, StopCont, Live,
                IInv, TypeOK, ProcType
  <2>2. CASE SleepIntr(p)
    <3>1. stat[p] # "none"
      BY <2>2 DEF SleepIntr, Awake
    <3>2. PICK ch, c : stat' = [StatLeft(ch, c) EXCEPT ![p] = "user"]
      BY <2>2 DEF SleepIntr
    <3> QED BY <3>1, <3>2 DEF StatLeft, Live
  <2> QED BY <1>2, <2>1, <2>2 DEF Resume
<1>3. ASSUME NEW p \in Proc, PageIn(p)
      PROVE  \A q \in Proc : Live(q)' <=> Live(q)
  <2>1. CASE SetAllPageIn(p)
    <3>1. PICK C : stat' = [StatAfter(C) EXCEPT ![p] = "user"] /\ stat[p] = "fault"
      BY <2>1 DEF SetAllPageIn, StoreAll
    <3> QED BY <3>1 DEF StatAfter, Live
  <2>2. CASE SemopPageIn(p)
    BY <2>2 DEF SemopPageIn, EnterLoop, Live, IInv, TypeOK, ProcType
  <2> QED BY <1>3, <2>1, <2>2 DEF PageIn
<1>4. ASSUME NEW p \in Proc, Syscall(p)
      PROVE  \A q \in Proc : Live(q)' <=> Live(q)
  <2>1. CASE \E n \in 1 .. semmsl : Semget(p, n)
    BY <2>1 DEF Semget, Live, procVars
  <2>2. CASE \E id \in Id : Rmid(p, id)
    BY <2>2 DEF Rmid, StatAfter, Live
  <2>3. CASE \E id \in Id, num \in Nums, v \in 0 .. semvmx : SetVal(p, id, num, v)
    BY <2>3 DEF SetVal, StatAfter, Live
  <2>4. CASE \E id \in Id, vals \in SetVals :
                SetAll(p, id, vals) \/ SetAllFault(p, id, vals)
    <3>1. CASE \E id \in Id, vals \in SetVals : SetAll(p, id, vals)
      <4>1. PICK C : stat' = [StatAfter(C) EXCEPT ![p] = "user"] /\ stat[p] = "user"
        BY <3>1 DEF SetAll, StoreAll, Calls
      <4> QED BY <4>1 DEF StatAfter, Live
    <3>2. CASE \E id \in Id, vals \in SetVals : SetAllFault(p, id, vals)
      BY <3>2 DEF SetAllFault, Calls, Live, IInv, TypeOK, ProcType
    <3> QED BY <2>4, <3>1, <3>2
  <2>5. CASE \E id \in Id, ops \in OpLists : Semop(p, id, ops) \/ SemopFault(p, id, ops)
    BY <2>5 DEF Semop, SemopFault, Calls, Live, IInv, TypeOK, ProcType
  <2> QED BY <1>4, <2>1, <2>2, <2>3, <2>4, <2>5 DEF Syscall
<1> QED BY <1>1, <1>2, <1>3, <1>4 DEF Next

\* Every step keeps the structures apart.
LEMMA NextOwned ==
    ASSUME SlotReuse = FALSE, IInv, Owned, Next
    PROVE  Owned'
<1>1. CASE \E p \in Proc : Exit(p) \/ Fork(p)
  BY <1>1, ExitOwned, ForkOwned DEF IInv, TypeOK
<1>2. CASE \A p \in Proc : ~Exit(p) /\ ~Fork(p)
  <2>1. \A q \in Proc : Live(q)' <=> Live(q)
    BY <1>2, LiveKept
  <2>2. CASE OpAdd \/ OpSub \/ UndoStep
    <3>1. cur # NoProc /\ i \in Nat
      BY <2>2 DEF OpAdd, OpSub, InLoop, UndoStep, IInv, KernelOK, TypeOK, ExecType
    <3>2. CASE UNCHANGED undoVars
      BY <2>1, <3>2, OwnedKept DEF undoVars
    <3>3. CASE \E j \in 1 .. Len(Ops), v \in Int :
                  SemaoeOK(cur, CurKey(Ops[j]), v) /\ SemaoeDone(cur, CurKey(Ops[j]), v)
      <4>1. UndoType /\ cur \in Proc /\ Live(cur)
        BY <3>1, InKernel DEF Live, IInv, TypeOK
      <4> QED BY <2>1, <3>1, <3>3, <4>1, CurTypes, SemaoeOwned
    <3>4. CASE OpAdd \/ OpSub
      <4>1. i \in 1 .. Len(Ops) /\ CurOp = Ops[i] /\ Adjust(CurOp) /\ ~AdjustFails(CurOp)
        BY <3>1, <3>4, InKernel DEF OpAdd, OpSub, InLoop, Done, CurOp, IInv, TypeOK, ExecType
      <4>2. Ops[i].op \in Int
        BY <3>1, <4>1, CurTypes
      <4> QED BY <3>2, <3>3, <4>1, <4>2 DEF Adjust, AdjustFails
    <3>5. CASE UndoStep
      <4>1. i - 1 \in 1 .. Len(Ops) /\ UndoAdjust(Ops[i - 1])
        BY <3>1, <3>5, InKernel DEF UndoStep, IInv, TrailOK
      <4>2. Ops[i - 1].op \in Int /\ -Ops[i - 1].op \in Int
        BY <3>1, <4>1, CurTypes
      <4> QED BY <3>2, <3>3, <4>1, <4>2 DEF UndoAdjust
    <3> QED BY <2>2, <3>4, <3>5
  <2>3. CASE OpZero \/ OpFail \/ OpBlock \/ UndoneError \/ UndoneSleep \/ UndoneIntr \/ Finish
    <3>1. UNCHANGED undoVars
      BY <2>3 DEF OpZero, OpFail, OpBlock, UndoneError, UndoneSleep, UndoneIntr, Finish, Return
    <3> QED BY <2>1, <3>1, OwnedKept DEF undoVars
  <2>4. ASSUME NEW p \in Proc,
               Syscall(p) \/ Resume(p) \/ PageIn(p) \/ Signal(p) \/ StopCont(p)
        PROVE  Owned'
    <3>1. UNCHANGED <<sem_undo, semfup>>
      BY <1>2, <2>4 DEF Syscall, Semget, Rmid, SetVal, SetAll, StoreAll, SetAllFault, Semop,
                        SemopFault, Resume, SleepIntr, SleepRemoved, SleepAgain, EnterLoop,
                        EnterFault, PageIn, SetAllPageIn, SemopPageIn, Signal, StopCont,
                        undoVars
    <3>2. un' = un \/ \E id, nums : Semunrm(id, nums)
      BY <1>2, <2>4 DEF Syscall, Semget, Rmid, SetVal, SetAll, StoreAll, SetAllFault, Semop,
                        SemopFault, Resume, SleepIntr, SleepRemoved, SleepAgain, EnterLoop,
                        EnterFault, PageIn, SetAllPageIn, SemopPageIn, Signal, StopCont,
                        undoVars
    <3>3. \A u \in Undo, k \in Key : un'[u][k] # 0 => un[u][k] # 0
      BY <3>2, SemunrmLess
    <3> QED BY <2>1, <3>1, <3>3, OwnedKept
  <2>5. \/ OpAdd \/ OpSub \/ UndoStep
        \/ OpZero \/ OpFail \/ OpBlock \/ UndoneError \/ UndoneSleep \/ UndoneIntr \/ Finish
        \/ \E p \in Proc : Syscall(p) \/ Resume(p) \/ PageIn(p) \/ Signal(p) \/ StopCont(p)
    BY <1>2 DEF Next, Step
  <2> QED BY <2>2, <2>3, <2>4, <2>5
<1> QED BY <1>1, <1>2

\* There is one undo structure per process (sys/sem.h:145): no two live
\* processes ever share one, no structure in use is on the free chain, and only
\* live processes leave adjustments - provided fork never reuses the slot of a
\* process that had a structure (without that it is violated), and nobody goes
\* on with a removed set.
THEOREM SemUndoExclusive ==
    ASSUME Premises, SlotReuse = FALSE
    PROVE  Spec /\ [][NoneStraddles]_vars => []UndoExclusive
<1>1. Init => Owned
  BY OwnedInit
<1>2. IInv /\ Owned /\ [Next]_vars => Owned'
  <2>1. ASSUME Owned, UNCHANGED vars
        PROVE  Owned'
    BY <2>1, OwnedKept DEF vars, undoVars, procVars, Live
  <2> QED BY <2>1, NextOwned
<1>3. IInv /\ Owned => UndoExclusive
  <2> SUFFICES ASSUME IInv, Owned
               PROVE  UndoExclusive
    OBVIOUS
  <2>1. DOMAIN semfup = 1 .. Len(semfup)
    BY DEF IInv, TypeOK, UndoType
  <2>2. ASSUME NEW u \in Undo, UnCnt(u) > 0
        PROVE  \E p \in Proc : Live(p) /\ sem_undo[p] = u
    <3>1. Cardinality(Nonzero(un[u])) > 0
      BY <2>2 DEF UnCnt, Nonzero
    <3>2. Nonzero(un[u]) # {}
      BY <3>1, FS_EmptySet
    <3>3. PICK k \in Key : un[u][k] # 0
      BY <3>2 DEF Nonzero
    <3> QED BY <3>3 DEF Owned, EntriesOwned
  <2> QED BY <2>1, <2>2 DEF Owned, OwnOne, Live, UndoExclusive
<1> QED BY <1>1, <1>2, <1>3, SemInvariant, PTL DEF Spec
=============================================================================
