# TLA+ models of the UNIX System V Release 4 kernel (3B2)

This directory is a verification project for the kernel in `src/usr/src/uts/3b2`. It has TLA+
modules for parts of the kernel, TLC configurations that check them on small instances, and
proofs that TLAPS checks for every value of the constants. `PROJECT.json` lists the components,
the runs, the mutants of the model that each property rejects, the source lines of every
definition, the hazards and the theorems. Paths below are relative to `src/usr/src/uts/3b2`.

Check a configuration with `tlc -workers 2 -config Rmap.cfg MCRmap`, a proof module with
`tlapm FreeMapProof.tla`.

## 1. The system

### How processes run

The kernel is not preempted: a process in the kernel runs until it sleeps or returns to user
mode. Everything that is hard below comes from that one rule. Code between two sleeps is atomic
towards other processes, so the questions are: what may have changed when `sleep` returns, who
has to wake whom, what a signal or a job-control stop does to a sleeper, and what is left half
done on an error path. Interrupts are held off by spl levels and matter for the buffer cache,
STREAMS and the callout table.

`sleep(chan, pri)` (`os/slp.c`) queues the process; `wakeup(chan)` makes *all* sleepers on the
channel runnable, and each has to test its condition again. With `PCATCH` a signal makes `sleep`
return 1; a stop and its SIGCONT make it return 0 although nobody called `wakeup`.

### Inventory

| Component | State it keeps | Operations | Hard behaviour | What makes it correct |
|---|---|---|---|---|
| System V semaphores (`os/sem.c`, `os/ipc.c`) | set headers `sema[]`, `sem[]` with value and two wait counts, `semmap`, undo structures | semget, semctl, semop, semexit | lists of operations taken back half-way, sleepers counted by hand, signals, removal and page faults during a call, reuse of process slots | no lost wakeup, all or nothing, no semaphore or undo structure shared, removal releases every sleeper |
| Resource maps (`os/malloc.c`, `ptmalloc`) | array of `<address, size>` slots, room, `mapwant` | rmalloc, rmfree, ptmalloc; used for sptmap (bp_mapin, sptalloc, kseg), semmap, msgmap | joining, overflow of the array, sleepers in bp_mapin | a set of units: none handed out twice, none lost but by overflow, nobody sleeps while there is room |
| Record locks (`os/flock.c`) | an ordered list per vnode, the list `sleeplcks` | reclock (F_SETLK, F_SETLKW, F_GETLK), chklock, cleanlocks | splitting and joining, waiting for one of several blockers, deadlock detection, ENOLCK half-way, remote owners | a table of bytes: no two owners clash, a call changes what it names, no lost wakeup, no undetected deadlock |
| Sleep, wakeup, signals (`os/slp.c`, `os/sig.c`, `pgrp.c`, `session.c`) | sleep queues, process states, pending signals | sleep, wakeup, setrun, sigtoproc, issig, stop | wakeup against signal against stop | a woken process runs; no process is on two queues |
| Processes (`fork.c`, `exit.c`, `exec.c`) | process table, parent and child links, pid slots | fork, exit, wait, exec | slot reuse, orphans, zombies | a slot's old state is never seen by its new owner |
| Message queues (`os/msg.c`) | queue headers, message headers, msgmap | msgget, msgctl, msgsnd, msgrcv | senders and receivers asleep, queue id checked again after a sleep, space lost on fault | byte and message counts agree with the queue; a sleeper with room is woken |
| Buffer cache (`os/bio.c`) | hash chains, free lists of buffers and headers, flags | getblk, brelse, bread, bwrite, bdwrite, iodone | lookup again after each sleep, delayed writes, two things to wait for | one buffer per block, a busy buffer has one owner, waiters are woken |
| STREAMS (`io/stream.c`, `os/strsubr.c`, `streamio.c`) | queues and bands with counts, water marks and the marks QFULL, QWANTW; the list of enabled queues; STRPRI, RSLEEP and the list of pollers of a stream head | putq, putbq, getq, rmvq, canput, flushes, qenable, queuerun, strrput, read, getmsg, poll, open and close of modules | flow control between queues, service procedures run later, bands, a reader that sleeps in uiomove with a message in its hands, interrupts between looking and sleeping | a driver that was refused is enabled again when there is room; classes stay in order; who sleeps waits for what has not come |
| Shared memory (`os/shm.c`) | segment headers, attach counts | shmget, shmat, shmdt, shmctl, fork, exit | removal with processes attached, lock bit with sleepers | freed once, when removed and detached |
| Dispatcher (`disp/`) | run queues, time-sharing and real-time parameters | setbackdq, swtch, ts_update, priocntl | starvation | a runnable process runs |
| Clock (`os/clock.c`) | delta list of callouts | timeout, untimeout | cancel against expiry | a callout fires once or never |
| Kernel memory (`os/kma.c`) | pools and buddies | kmem_alloc, kmem_free | sleeping for pages | blocks disjoint |
| Virtual memory (`vm/`, `os/vm_*.c`) | address spaces, anon slots, pages | faults, pageout, swap | pages that come and go during a sleep | one page per vnode offset |
| File systems (`fs/`), name cache (`fs/dnlc.c`) | inodes, vnodes, allocation maps, names | vnode operations | locks held across sleeps | one in-core inode per file |
| Remote file sharing, NFS, RPC (`fs/rfs`, `fs/nfs`, `rpc`, `klm`) | circuits, server state, outstanding calls | remote calls, recovery of lost systems | lost and repeated messages | recovery undoes what a lost client held |
| TCP/IP (`netinet/`) | connections, timers | BSD protocols on STREAMS | the network | in order, once |
| Drivers, terminals, machine (`io/`, `ml/`, `os/machdep.c`, `os/trap.c`) | device registers | | interrupts | |

### How the components meet

* *Calls.* semget takes semaphores from a resource map; exit calls semexit; close (and so exit)
  calls cleanlocks; RFS calls cleanlocks for a system that is gone.
* *Sleep and wakeup.* All waiting goes through `sleep`, with a channel that is an address in the
  shared state: `&semncnt`, the map, the lock that was found.
* *Shared state read before and after a sleep.* A semaphore id and its header, the place in a list
  of locks, a map that had no room.
* *Interrupts.* The disk's calls biodone, a driver's calls putnext or qenable, wherever the level is
  low: between a test and a sleep, between a lookup and the use of what was found.
* *Service procedures.* queuerun calls them on the way to user mode, when nothing runs, and from
  runqueues in the middle of read and getmsg.
* *Process slots.* `sem_undo[]` is indexed by process slot and outlives the process.

## 2. Modules

| Module | Models | Extends |
|---|---|---|
| `CoreMap` | rmalloc and rmfree on a set of units, with the limit on slots | |
| `Sem` | all of `os/sem.c` | `CoreMap` |
| `MCSem` | instances of `Sem` | `Sem` |
| `SemProof` | theorems about `Sem` | `Sem` |
| `MapSpace` | constants of the map of system virtual space | `CoreMap` |
| `FreeMap` | abstract: what users of sptmap are promised | `MapSpace` |
| `FreeMapProof` | theorems about `FreeMap` | `FreeMap` |
| `Rmap` | detailed: the array of slots and its users; implements `FreeMap` | `MapSpace` |
| `MCRmap` | instances of `Rmap` | `Rmap` |
| `RmapProof` | theorems about `Rmap` | `Rmap` |
| `MsgSpace` | queues, ids and messages | `CoreMap` |
| `MsgQueue` | abstract: a queue is a sequence of messages in a limited number of bytes | `MsgSpace` |
| `Msg` | detailed: all of `os/msg.c`; implements `MsgQueue` | `MsgSpace` |
| `MsgProof` | theorems about `Msg` | `Msg` |
| `MCMsg` | instances of `Msg` | `Msg` |
| `Bio` | the buffer cache, `os/bio.c`, and the disk's interrupt | |
| `BioProof` | theorems about `Bio` | `Bio` |
| `MCBio` | an instance of `Bio` | `Bio` |
| `BandQueue` | abstract: three classes of messages, each first in first out | |
| `Stream` | detailed: the read side of a stream from a driver to read, getmsg and poll; implements `BandQueue` | |
| `StreamProof` | theorems about `Stream` | `Stream` |
| `MCStream` | an instance of `Stream` | `Stream` |
| `LockSpace` | files, owners and requests | |
| `LockTable` | abstract: what each owner has locked, byte by byte | `LockSpace` |
| `LockTableProof` | theorems about `LockTable` | `LockTable` |
| `RecLock` | detailed: the lists of `os/flock.c`; implements `LockTable` | `LockSpace` |
| `RecLockProof` | theorems about `RecLock` | `RecLock` |
| `MCRecLock` | instances of `RecLock` | `RecLock` |

### Semaphores: `Sem`

`sema`, `semmap`, `semval`, `cnt` (semncnt and semzcnt by wait channel), `un`, `sem_undo` and
`semfup` are the kernel's variables. `stat`, `sig` and `call` are what a process is doing, whether
a signal is pending, and the arguments of its call. `cur`, `pc`, `i` and `after` are the position
of the one process that executes semop. A call that cannot sleep is one action (`Semget`, `Rmid`,
`SetVal`, `SetAll`, `Exit` with `Semexit`, `Fork`). semop is one action per operation: `Semop` or
`SemopFault`, then `OpAdd`, `OpSub`, `OpZero`, `OpFail`, `OpBlock`; where a list is taken back
`UndoStep` runs once per operation and is followed by `UndoneError`, `UndoneSleep` or
`UndoneIntr`; a list that is done ends with `Finish`. A sleeper comes back through `SleepAgain`,
`SleepRemoved` or `SleepIntr`. `Signal` and `StopCont` are the signals and the job-control stops.
No other process runs between those actions unless semop sleeps; they are separate so that the
state in the middle of a list can be spoken about. `trail` and `call[p].need` are history
variables: no guard reads them.

Choices that show in the properties: `PageFaults` lets copyin sleep for a page; `SlotReuse` lets
fork reuse a slot whose old process had an undo structure. Both are real behaviour, both lead to
findings, and the passing runs and the theorems say which of them they exclude.

### Maps: `FreeMap`, `Rmap`

`FreeMap` keeps the free units as a set. `Rmap` keeps `mp.slots` (the array from `mapstart` to the
first slot of size 0), `mp.room` (`mapsize`) and `want` (`mapwant`). `Shorten`, `Rmfree` and
`Ptmalloc` are rmalloc's, rmfree's and ptmalloc's changes of the array; `Mapin` and `Retry` are
bp_mapin before and after its sleep; `Sptalloc`, `Kseg`, `KsegRefused` and `Free` (bp_mapout,
sptfree, unkseg) are the other users. None of these sleeps half-way, and none is called by an
interrupt (`os/vm_pageout.c`, cleanup, leaves bp_mapout to process context), so each is one action.
The refinement maps `free` to the units of the slots and is the identity on the rest.

### Message queues: `MsgQueue`, `Msg`

`MsgQueue` keeps of each slot whether it holds a queue, its sequence number, messages and limit.
`Msg` keeps `que` (msgque[], with the list of messages and the marks MSG_RWAIT and MSG_WWAIT),
`lock` (msglock[]), `pool` (the number of headers on `msgfp`, the free segments, `mapwant`), and of
each process what it does (`stat`) and the call it is in (`call`). An action runs from a call
(`Begin`), a wakeup (`Again`), a signal (`Interrupted`) or the arrival of a page (`PageIn`) until
the process returns, sleeps or waits for a page in copyin or copyout. The lock of a queue is free
at the end of such a run but where it waits for a page (`Fault`), so it is only then that others
meet it (`Attempt`, which is msgconv). `Msgsnd`, `Getres` (the label getres), `Copyin`, `Enqueue`,
`TextFaults` and `Eintr` are msgsnd; `Msgrcv`, `Findmsg` and `Take` are msgrcv; `Rmid`, `Msgset` and
`Msgget` are the rest. IPC_STAT changes nothing and may wait for a page: it is an IPC_SET that
fails. The refinement drops the segments of the texts and takes the limit to be `qbytes`.

### Record locks: `LockTable`, `RecLock`

`LockTable` keeps, for every owner, file and byte, what is locked; `BlockedIn`, `Overlay` and
`WakesBlocked` say when a request waits, what it changes and who is woken. `RecLock` keeps
`locks[f]`, the list of a file, and for each process its entry of `sleeplcks`: `req`, the lock it
wants, and `on`, the lock it found in the way, which is also its sleep channel. `Flckadj` folds
`Visit` (regflck and the switch of flckadj) over the owner's locks from the place that `Insrt`
(blocked's third argument) names; `Coalesce` and `Overlay` are the arms of the switch for the same
type and for another type. `Pass` is one pass of reclock's loop. A lock in a list is identified by
owner and start: no lock's start is changed in place. The refinement maps `lk` to the bytes that
the lists cover.

### The buffer cache: `Bio`

`buf` (the headers: block, size, b_flags), `free` (bfreelist, in order), `hdrs` (bhdrlist), `room`
(bfreelist.b_bufsize), `want` (B_WANTED of the two lists) and `asyn` (basyncnt and basynwait) are the
kernel's variables; `io` is what the driver has. Of a block's contents the model keeps one bit,
whether they are what was last written (`fresh` of a buffer, `disk`). `proc` is what each process
does and `cpu` the process in the middle of a run: a run of the kernel from a call or a wakeup to
the next sleep or return is cut into several actions wherever the interrupt level is low, and
`DiskDone`, the interrupt, comes at those places of them where that makes a difference
(`Interruptible`). `Search` and `Match` are getblk before and after spl6; `Getfree` is one round of
getfreeblk's loop, `Nofree` and `Kmem` what comes after it; `Got`, `ReadAhead` and `Biowait` finish bread and
breada; `Finish` is the caller who gives the buffer back by brelse, bwrite, bdwrite or bawrite;
`Wrote` is the count that bwrite makes after the strategy routine; `Breakup` is buf_breakup, which does a
large request piece by piece and sleeps; `Blkflush`, `Bflush` (with binval for the last close) and
`Bdwait` are the rest. `lost`, `twice` and `raced` are history: the blocks and sleepers that one of the
windows in section 4 has hit.

### Streams: `BandQueue`, `Stream`

`q` is the read queue of the stream head: its messages, for each of two bands count, water marks, QFULL
and QWANTW (QB_FULL, QB_WANTW), the pointers qb_first and qb_last, and whether the driver's queue is
enabled; `kind` says of each message block whether it is high priority, its band and its bytes;
`head` has STRPRI, RSLEEP and STRHUP; `blocked` is the band that bcanput has refused to the driver. The
operators `Putq`, `Putbq`, `Getq`, `Rmvq`, `FlushAll`, `FlushNormal` (with `Refill`), `FlushBand` and `Reenable` are the procedures
of `io/stream.c` and strrput's copies of them. `Arrive` is the driver's interrupt (external), `Queuerun` its
service procedure under queuerun; `Strrput` is the put procedure of the stream head with its wakeups;
`Flush`, `SetOpts` and `Hangup` are M_FLUSH, M_SETOPTS and M_HANGUP. A read is `Read` (the loop, up to
runqueues), `Got` (the switch on the message) and `Copy` (after uiomove, which may sleep: others run); a
getmsg is `Getmsg`, `Ggot`, `Gcopy` and `Gout`; a poll is `Poll` (strpoll), `Polladd` and `Pollsleep`. Interrupts come
between all of these. A message that a reader gives back in part is lighter than before, and others
may have come in front of it. The refinement maps the queue to its messages by class and what readers
hold to `taken`; `missed` and `spoilt` are history.

## 3. Runs

| Run | Instance | Checks |
|---|---|---|
| `sem_wakeups` | 3 processes, 1 semaphore, page faults | `TypeOK`, `NoLostWakeup`, `SleeperBlocked` |
| `sem_sets` | 2 processes, 2 headers, 2 semaphores, lists of up to 4 operations with SEM_UNDO, a map of one slot, no page faults | `SemundoExact`, `CountBound`, `NoOrphanSleeper`, `FreeSemsClean`, `SetsDisjoint`, `UndoExclusive`, `UndoEntriesLive` |
| `sem_liveness` | 2 processes, 1 semaphore, fair, no page faults | `RemovedSetReleases` |
| `rmap` | 2 processes, 7 units, 2 slots, boundary every 2 units, sizes 1 to 3 | `MapWellFormed`, `NoSleeperWithFit`, `LostOnlyByOverflow`, `ImplementsFreeMap` |
| `msg` | 2 processes, 1 slot, 2 headers, 3 segments, 4 bytes | `TypeOK`, `CountsAgree`, `ResourcesKept`, `LockExclusive`, `NoLostWakeup`, `RemovalReleases`, `ImplementsMsgQueue` |
| `bio` | 2 processes, 2 buffers, 2 blocks (1 and 2 units), memory of 3 units, page of 1, one I/O error or sleep for memory | `BuffersAccounted`, `OneBufferPerBlock`, `SleepersWait`, `NoGridlock`, `Coherent`, `BdwaitWaits` |
| `stream` | 2 processes, 3 message blocks, high priority, band 1 and normal messages of 1, 1 and 2 bytes, marks 2 and 1; two reads, a getmsg, a poll | `QueueSound`, `NoStalledDriver`, `SleepersWait`, `PriFlag`, `ImplementsBandQueue` |
| `reclock` | 2 owners, one remote, 3 bytes, every F_SETLK, two waits and a check, fair | `TypeOK`, `ImplementsLockTable`, `WaiterReturns` |
| `reclock_waits` | 3 owners, 2 bytes, F_SETLKW of write and read locks, an unlock of a part, lack of memory | `ListsOrdered`, `NoClash`, `FoundStands`, `WaitersEnd` |
| `sem_slot_reuse` | slots are reused | violates `UndoExclusive` |
| `sem_negzero` | a list that lowers and then waits for zero | violates `SleeperBlocked` |
| `sem_orphan` | page faults and removal | violates `NoOrphanSleeper` |

### Bounds, and why they are enough

* *Semaphores.* A lost wakeup needs a sleeper, somebody who changes the value and somebody whose
  list is taken back: three processes. Sharing of sets and undo structures needs two of each.
  `semvmx` 2 reaches the maximum, `semume` 1 and `semaem` 1 or 2 reach their limits; `mapslots` 1
  makes the map overflow. `MaxSeq` 1 gives each slot two generations, which is what the test of a
  stale id tells apart; `MaxStops` bounds job-control stops. `ushort` keeps its real 65536, and
  counts are taken modulo it.
* *Maps.* Seven units that start off a boundary and two slots are enough for a block to join on
  either side, on both and on none, for the array to overflow, and for an aligned block with a gap
  before it and a tail behind it that does or does not find a slot.
* *Messages.* Texts of 0, 1 and 3 bytes take no, one and two segments. With four bytes on the
  queue, two headers and three segments each of the three can be the one that runs out. Queues meet
  in the headers and the map only, where a sender of one queue is as good as one of another: one
  slot, in two generations (`MaxSeq` 1). A wakeup is lost between a waiter that is interrupted, or
  whose queue is removed, and one other process. `NoLostWakeup` needs `Superuser` FALSE, since
  IPC_SET that raises the limit wakes nobody (`os/msg.c:243`).
* *Buffers.* Two buffers and two blocks of different size make a process give memory back, write
  a delayed buffer to get it, sleep for the other's buffer and run out of headers; a block larger
  than a page makes the strategy routine break the request up. `MaxOdd` 1 allows one I/O error or
  one sleep in kmem_zalloc in a behaviour. With two buffers and two processes a circle of processes that
  hold a buffer and wait for another does not arise: breada, the only caller that holds one while it
  gets another, does so only if more than one is free.
* *Streams.* The high water mark is reached by one normal message and by two of the band. Two
  readers and three blocks let a message arrive, and be read by the other, while one is copied. The
  run's calls are reads that take high priority messages as data or refuse them, a getmsg of
  anything and a poll for normal messages. The same instance with MSG_BAND, POLLIN or POLLRDBAND in
  place of MSG_ANY or POLLRDNORM, or with MSG_HIPRI added, passes too. A single pair of water marks keeps
  the stall of section 4 out. Nothing arrives after M_HANGUP.
* *Locks.* With three bytes a lock can be cut at its start, at its end and in the middle, and two
  locks can adjoin. Three owners make a circle of waiters that is longer than two, and a sleeper
  with two locks in its way. Files do not interact but in deadlock detection, where the file of
  a lock plays no part: one is enough.

Deadlock is checked in the runs of `Sem`, `Rmap`, `Msg` and `RecLock`, where there is no state in which
the system stops. `Bio` can stop, which is the point of `NoGridlock`; a stream stops after a hangup with
all readers gone. There CHECK_DEADLOCK is FALSE.

### Fairness

`sem_liveness` assumes that semop, once in the kernel, goes on (weak fairness of `Step`), and that
a process that has been woken, or whose page has come, is dispatched although others keep
the kernel busy (strong fairness: the step is disabled while another process is in the kernel).
`reclock` assumes weak fairness of a woken process's next pass. Both rest on `disp/ts.c`: ts_update
lifts a time-sharing process that has waited for `ts_maxwait`. No fairness is assumed of user
programs: nobody has to release a semaphore or unlock a file. So `RemovedSetReleases` is about
removed sets only, and `WaiterReturns` allows others to stand in the way again and again. The
property is that each waiter looks again, not that it wins.

### Mutants

Each property of a passing run is broken by a mutant of one mapped definition: a wakeup of one
sleeper in place of all (`WakeupOne`), a refused writer that is not marked (`WantsSilent`), the part
behind an unlock that is dropped (`OverlayNoRear`), an undo that is skipped
(`UndoAdjustForgotten`), and so on. They stand before the definitions they change, under
"Mutant". Their use is listed in `PROJECT.json`.

## 4. Findings

1. `os/sem.c:531` *(sem_slot_reuse)*. semexit puts the undo structure on the free chain and
   leaves it in `sem_undo[]`. The next process in the slot shares it with whoever takes it from the
   chain. sys/sem.h:145 promises "one undo structure per process".
2. `os/sem.c:708` *(sem_negzero)*. A list that lowers a semaphore and then waits for it to be
   zero sleeps on semzcnt after semundo has raised the value again. What it waits for is another
   value than zero, and nothing wakes it when that is reached.
3. `os/sem.c:622` *(sem_orphan)*. The id is looked up before copyin, which can sleep for a page, and
   not again afterwards. A set removed meanwhile is operated on, and the process may sleep on a
   semaphore of no set, where no IPC_RMID reaches it. On the first pass, at :622, only a super-user
   gets there, because IPC_RMID clears the mode and ipcaccess at :628 refuses everybody else; on a
   later pass, at :648, any user does. SETALL has the same gap: semconv at :282, copyin at :458.
   So two more properties fail in the code when copyin sleeps across IPC_RMID.
   *`FreeSemsClean`*: semget, SETALL sleeps in copyin, IPC_RMID, SETALL stores its values
   into semaphores that are free by now; semget hands them out as they are. *`UndoEntriesLive`*: semget,
   semop with SEM_UNDO sleeps in copyin, IPC_RMID (semunrm finds nothing yet), semop makes its entry for
   the removed set. `sem_sets` and `sem_liveness` therefore run without page faults, and
   the theorems leave out just these steps (`NoneStraddles`, section 5).

Seen and not counted as findings: a job-control stop of a sleeper leaves semncnt one too large
(`CountBound` bounds this by the number of stops); a waiter for a record lock that has been woken
and has not run may give others an EDEADLK without a deadlock; a sender that sleeps for room is not woken when
IPC_SET makes room; a sender that sleeps for a header or for map space of a queue that is removed
learns of it only when what it waits for comes free; a refused kseg can lose part of the
map when the array is full (`KsegRefused`; `LostOnlyByOverflow` allows it).

### The buffer cache

The properties hold with exceptions that are written into them; each exception is something the code
does, and TLC finds it when the exception is left out.

* *A buffer that comes free too early* (`os/bio.c:331`; `raced`). getfreeblk finds the list empty, lowers the
  level, then marks B_WANTED and sleeps. brelse from an interrupt in between wakes nobody. The ASSERT at
  the line claims that the list is empty.
* *Two buffers of one block* (`os/bio.c:350`, `:289`; `twice`). A process that slept for memory in kmem_zalloc
  or for a broken-up write goes on without a new look at the hash list; the comment at `:325` names
  the danger for the other sleep.
* *Headers* (`os/bio.c:342`). A process that waits for a header is woken by a getfreeblk that gives
  one back, not by brelse. TLC reaches a state in which both processes are asleep and two buffers are free.
* *Asynchronous writes are counted late* (`os/bio.c:157`). basyncnt can be -1, and bdwait can return before
  a broken-up write is done (`BdwaitWaits` leaves those out).
* *Failed writes, last close* (`os/bio.c:209`, `fs/specfs/specsubr.c:454`; `lost`). brelse forgets the delayed write
  after an error; the last close makes stale what is still being written. getblk tests B_STALE at a low
  level and takes the buffer at a high one (`os/bio.c:379`).

### Streams

* *The window of poll* (`fs/vncalls.c:2189`; `missed`). An event between strpoll and polladd is not
  noticed: nothing is on the list yet that could clear SINPOLL. The comment at `:2165` says it is.
* *STRPRI* (`os/streamio.c:716`, `:3802`, `:1102`; `spoilt`). A reader that has consumed any message clears it,
  though a high priority one may have arrived meanwhile: then a second one is let in, against the comment
  at `:845`. A flush of band 0 frees the high priority message and leaves STRPRI set: the next ones
  are dropped, and strpoll's ASSERT at `:4068` fails.
* *Who is at the front* (`missed`). getmsg tells pollers when its message was not of the same band as the
  one that is now first; read and the flushes tell nobody, a reader that puts a part back wakes no other
  reader, and getmsg decides by STRPRI after runqueues (`:3704`), which may be another message's. While STRPRI
  is wrong, a getmsg may also take a high priority message for a normal one and tell nobody of the band behind it.
* *Water marks* (`os/streamio.c:1385`). M_SETOPTS that raises the marks of a full band enables the driver
  and leaves QFULL (or QB_FULL) set. The driver is refused again with less than the low water mark on the
  queue, and no getq ever passes that mark downwards: it stalls. With two pairs of marks TLC finds it as a
  violation of `NoStalledDriver`.
* *getq* (`io/stream.c:1025`). qbp is declared again in the inner block, so QB_WANTW is cleared through the
  outer one, which nothing has set: in the model the mark stays or goes. On an empty queue with QWANTW (after
  M_SETOPTS) setqback gets the band of a null message (`:1063`).
* Read in the code and outside the model: a flush of a band keeps its last message when it has several
  (`io/stream.c:1311`; this one is in the model) and strrput's copy reads through a null pointer when it has none
  (`os/streamio.c:1146`); RDPROTDAT walks b_next where it means b_cont (`:763`); timod swaps flushband's last two
  arguments (`io/timod.c:273`).

## 5. Theorems

TLAPS proves these for every value of the constants, assuming only the named assumptions of the
modules (`SizesAssumption`, `ProcAssumption`, `InputAssumption`, `MapAssumption`, `LockAssumption`,
`MsgSpaceAssumption`, `MsgAssumption`, `BioAssumption`, `StreamAssumption`)
and, for `Sem`, `Premises` and `NoneStraddles`.

* **`SemTypeCorrect`, `SemNoLostWakeup`, `SemCountBound`** (from `SemInvariant`). `Premises`
  exclude lists that wait for zero on a semaphore they changed before (finding 2), and more processes
  and stops than a ushort counts. Page faults in copyin are included; the theorems are about
  `Spec /\ [][NoneStraddles]_vars`, the runs in which nobody comes back from copyin and goes on with a set
  that was removed meanwhile. That is a gap of the code (finding 3), not something it rules out:
  the condition leaves out those steps, and no others. It is needed even for `TypeOK`, because
  the number of an operation checked for the removed set may lie outside the set that has its slot now.
  `SemWithoutFaults` proves that with `PageFaults = FALSE` the condition always holds, so that the theorems are then
  about `Spec` alone, as in `sem_sets`.
  *Why an inductive invariant is needed:* a list stores values that are not final, and semundo
  takes them back without waking anybody. It would be wrong to say of a sleeper only that the value now
  makes it wait: semundo could undo that. `IInv` says it of every value the running list went
  through (`Sleepers` over `trail`), that the trail follows the operations (`TrailOK`), and that a
  process which decided to sleep will find the value it decided on (`AboutToSleep`). `CountsOK`
  counts only the processes whose sleep has still to be counted: a signalled sleeper whose count
  was zeroed by a wakeup takes one off a count of others.
* **`SemSetsDisjoint`**, of `Sem`, with page faults and any lists: only semget and IPC_RMID touch the
  headers and the map, so that it needs none of `Premises` (`SetsStep`).
* **`SemSemundoExact`, `SemNoOrphanSleeper`, `SemFreeSemsClean`, `SemUndoEntriesLive`** (from `SemClean`), under
  `Premises` and `NoneStraddles`. *Why a second invariant is needed:* `IInv` says nothing of undo structures, sets
  or free semaphores. `Clean` adds the four, which rest on each other - an exit stores only into semaphores
  that its entries name, so free ones stay clean because entries name only sets that exist, and
  those are apart from the free map - and what makes them inductive: a process that is about to sleep will do so
  on its own set (`SleepsHere`), every structure stays within semume entries and semaem (`Bounded`), and
  the trail holds the structures before and after each operation done (`Trailed`, `Took`). semundo ignores
  what semaoe returns; `AdjustedBack` shows that it can: the opposite of an adjustment that was made is
  in range, and needs no entry more than there were before. Without `NoneStraddles` all but
  `SemundoExact` are false (finding 3; `sem_orphan` is the run for one of them).
* **`SemUndoExclusive`**, under `Premises`, `NoneStraddles` and `SlotReuse = FALSE`; with `SlotReuse` it is
  false (finding 1). `Owned` follows each structure: the free ones differ (`FreeOnce`), a structure that is in use
  is neither free nor anybody else's (`OwnOne`), and entries belong to somebody who lives (`EntriesOwned`).
* **`FreeMapTypeCorrect`, `FreeMapBlocksDisjoint`, `FreeMapNoSleeperWithFit`**. The three are
  inductive together. A step that wakes nobody adds no free unit (`CarveTakes`, `FitsMonotone`),
  and one that adds free units wakes everybody.
* **`RmapMapWellFormed`, `RmapNoSleeperWithFit`, `RmapLostOnlyByOverflow`, `RmapImplements`**, of the array itself, for
  any space, boundary, number of slots and sizes. `MapWellFormed` is not inductive: rmfree
  of units that are free, or that overlap a slot, breaks the order. `IInv` of `RmapProof` adds
  that the blocks that are out lie apart from each other and from the free units, and says of sleepers
  what they wait for. The lemmas give, for each operation of malloc.c, the slots' order
  and count and the set of their units afterwards (`ShortenIs`, `RmfreeIs`, `PtmallocIs`); kseg's
  refusal gives its block back to where it was, and loses it only when the array is full
  (`KsegRefusedStep`). `RmapImplements` carries the steps over to `FreeMap`, which knows no slots: the first slot that is
  long enough begins at the lowest fit (`RmallocFirst`, and `PtmallocFirst` for a fit on a boundary), since a
  run of free units lies in one slot; and `FreeMap` counts runs of free units where the code counts slots, which comes
  to the same because slots do not touch (`StartsAre`), so that a release overflows in the one when it
  does in the other (`OverflowRuns`, `MapRuns`).
* **`LockTableNoClash`, `LockTableSleepersBlocked`, `LockTableTypeCorrect`**. A call changes the
  bytes of its owner only: to a type that clashes with nobody's (`OverlayNoClash`), or to none
  (`LosesNoClash`); whoever is no longer blocked is woken (`WakesBlockedSound`).
* **`RecLockTypeCorrect`, `RecLockOrdered`, `RecLockNoClash`, `RecLockFoundStands`, `RecLockWaitersEnd`,
  `RecLockImplements`** (from `RecLockInvariant`), of the lists themselves, for any finite set of owners, any files,
  requests and file size, and with allocations that fail. *Why an inductive invariant is needed:* `NoClash` speaks of bytes,
  and a list could say what is right of its bytes and be one that blocked, which stops at the first lock behind the request,
  misreads. `IInv` says that each list is in order, with the locks of an owner apart and one key each (`Good`), and
  that locks of different owners that share a byte are read locks (`Beside`); of a sleeper that the lock it found is
  in its list, marked and in its way (`Stands`), and of the sleepers together that no set of them waits only for
  itself (`Ends`). The last is stronger than `WaitersEnd`, which follows because a chain that stayed among n sleepers for
  n + 1 places would meet one twice (`ChainLeaves`). *How the proof goes:* the heart is flckadj. `WalkInv` follows
  its walk: the list stays in order, the (un)lock that grows covers what was deleted for it (`Grown`), the list says less
  than before only where the new lock is to be (`Less`), what the walk has passed ends before that (`Reach`), and the
  place to insert is right (`Insrtp`). One lemma for each case of the switch shows that it is kept
  (`PassStep`, `CoveredStep`, `CoalesceStep`, `OverlayStep`, ...), `WalkEnds` that
  the whole walk keeps it, `FlckadjIs` what that means: the bytes of the caller are those of before with the request over them, or
  some are lost where an allocation failed; other owners' locks are as they were; and a lock that is gone had its
  sleepers woken. `AdjustedTable` and `AdjustedBeside` say the same of `LockTable`'s table. deadflck is asked only when a
  process goes to sleep; `EndsSleeps` shows that this is enough, since a lock changes hands only by waking who sleeps on it.
* **`TypeCorrect`, `CountsAlwaysAgree`, `ResourcesAlwaysKept`, `LockAlwaysExclusive`, `NoWakeupLost`,
  `RemovalAlwaysReleases`, `Implements`**, of `Msg` itself, for any number of processes, queues, headers
  and segments and any set of calls. `NoWakeupLost` has the one premise `~Superuser`, without which it is
  false (`os/msg.c:243`). *Why an inductive invariant is needed:* none of the six is inductive. That the
  counts agree after a removal needs that a queue that does not exist has no message, since msgget leaves
  msg_cbytes as it was. That no segment is lost needs to know who holds one: `Shared` says of each queue and of each
  sender in copyin (`Held`) that its segments are its own. What a process does after its page has
  come is right only because nobody could touch the queue meanwhile: `Copies` says that the queue of its
  id is still there, that the room found is still room, that the message found is still the one to take;
  `Locks` is why. `Sleeps` says of each sleeper what it waits for and by which mark it is
  found. *How the proof goes:* a run of a process changes one queue, the pool and the
  process, and wakes some channels. `SettledInvariant` says what it must see to for the invariant to be kept
  towards everybody else (`QueSteady`, `PoolSteady`, `Moved`); each action is then shown to see to it.
  Before that come the lemmas on the operators: that the bytes of a list grow and shrink by one size
  (`BytesAppend`, `BytesLess`, by way of a least counterexample, since the
  theorem on induction takes an operator), that Findmsg finds the first of the lowest type
  (`FindmsgIs`), that msgfree gives back one header and one text (`MsgfreeIs`) and a removal all of them
  (`EmptiedIs`). `Implements` rests on the same invariant: a message that was looked up before copyout is
  still the wanted one when it is taken, and a text that was let in before copyin still fits.
* **`TypeCorrect`, `OwnershipAlways`, `OneBufferAlways`, `SleepersAlwaysWait`** (from `Invariant`),
  **`BdwaitAlwaysWaits`, `BuffersAlwaysAccounted`**, of `Bio`, for any number of processes, buffers and blocks, any sizes, and any calls of the eight kinds. The only
  assumptions are that there are finitely many headers and that a call names the blocks it is about. *Why an inductive invariant is needed:* a buffer is
  looked up in one action, marked busy in the next and given to the driver in a third, and getfreeblk
  writes other people's delayed buffers on its way. `Local` says which of bp, breada's first buffer
  and getfreeblk's savebp a process has at each point, and where bwrite will return to; `BufOK` gives each
  header one place and says, of a header that a process has, which flags it can have there (`MineOK`): only
  so is it known that the driver never gets a buffer twice, that a sleeper in biowait has a
  buffer without ASYNC, which biodone will not release, and that what brelse frees nobody else has. `RunOK` is what
  makes OneBufferPerBlock inductive: a getblk that found nothing in core still finds nothing when it assigns the
  block, or has slept, and then the block goes into `twice`. `Counted` is how basyncnt stays right
  although the interrupt may count a write down before bwrite counts it up. *How the proof goes:* a step handles at most
  one buffer and wakes some channels. `StepKeeps` (`DiskStep` for the interrupt) says what must be shown
  of that buffer and of the process, for everybody else to keep the invariant; `TakeKeeps`, `BwriteKeeps`
  and `BrelseKeeps` apply it to a buffer that is taken, written and released; then there is one lemma for each
  action. `BdwaitAlwaysWaits` rests on `Counted`: when bdwait finds basyncnt zero and nobody else is in the middle of a run, every
  asynchronous write is one whose bwrite has not returned, and that is in buf_breakup (`Larges`). `BuffersAlwaysAccounted`
  adds to `Ownership` the bounds and the sum of memory: `Accounts` says that what the buffers have and what is left add up, that
  a savebp has the size its getfreeblk asks for (so that nothing is taken from bfreelist for it), and that the
  room falls below zero by at most one block for each sleep in kmem_zalloc that is over. The sum over the headers is
  defined with the library's fold; `MemoryIs` finds a function on the sets of headers that adds up one size after the other, and
  `MemoryMoves`, that a change of one size changes the sum by as much, goes by a smallest set
  for which it would be wrong (`SmallestSet`), since the theorem on induction takes an operator.
* **`QueueIsSound`, `PriFlagStands`, `SleepersStand`** (from `Invariant`) and **`DriverNotStalled`**, of `Stream`, for any
  processes and message blocks, any messages of two bands, any calls and any water marks with 1 <= low <= high. `DriverNotStalled` has
  the premise that there is one pair of marks: with two the stall of section 4 is in the model. *Why an inductive
  invariant is needed:* what putq and putbq do to a list is right only if the list is in order before, and where they
  look for the place depends on the pointers of the band. `Shape` says of a list that its first h messages
  are of high priority, the next b of the band and the rest normal, and `Ptrs` that the pointers enclose the b; both are kept by
  every insertion at a place that `Fits`, and the lemmas show that each arm of the search ends at one (`PutPlaceIs`,
  `PutbqPlaceIs`). `Owned` gives each message in use one place, the queue or one reader, which is what makes a message that goes
  back weigh what it weighed. `SleepersWait` is not inductive since a getmsg that takes the first message leaves pollers
  asleep whom it will wake only when it returns: `Excused` says whom, by what `WillWake` knows of the getmsg at
  each of its points, and nobody but that getmsg could forget them. This needs that STRPRI is right (`FrontStays`: behind a
  normal message there is only another one), hence `PriFlag` is part of the invariant. For the driver, `DriverInv` says that
  a band that is full holds its high water mark, so that a driver that is refused leaves a mark that a reader must meet (`Kept`: no
  queue procedure takes the mark away without enabling the queue). *How the proof goes:* each queue procedure has a lemma
  that gives its list, its counts, its pointers and its marks; the flushes, which repeat one of them, go by a least counterexample
  (`StepsExist`, `StepsKeep`). An action is a step of one reader with one message (`Turn`), or comes from below
  and leaves the readers' messages alone (`Below`); `TurnCore` and `BelowCore`, `TurnWait` and `BelowWait` say once what such a
  step keeps, and each action is shown to be one.

Only model-checked: liveness and fairness (out of reach of the prover); the refinement of `BandQueue` by `Stream`; `SleeperBlocked` of
`Sem` (a sum over the list); of `Sem` with page faults, what happens to calls that go on with a removed set (`sem_wakeups`
checks `TypeOK` and `NoLostWakeup` of one semaphore with them); of `Bio`, `Coherent` and `NoGridlock`.

## 6. Not modelled

What the components table of `PROJECT.json` calls "not_modelled", with the reason there. Of the
modelled parts these details are abstracted: permissions and error numbers, times of last
operation, the layout of user buffers; the semaphore list is copied in one piece; the text of
warnings; the offsets of record locks before they are converted; what is mapped at the addresses
that sptmap hands out; real-time and memory policies. Of the buffer cache: pageio_setup and
pageio_done, clrbuf, physical I/O, `fbio.c`, several devices. Of STREAMS: the write side, ioctl, open,
close, push, pop and link, M_PROTO messages (all are M_DATA or M_PCPROTO), messages of length zero, M_ERROR, M_SIG and M_EVENT, marks and delimiters, RMSGD, RMSGN and RPROTDIS, polls
with a timeout or of several files.

## 7. Plan

In this order; each with an MC module, a type invariant, properties for its hazards, mutants.

1. `Sem`, `FreeMap` and `Rmap`, `LockTable` and `RecLock`: done, as above.
2. `MsgQueue` and `Msg`: done.
3. `Bio`: done.
4. `BandQueue` and `Stream`, the read side: done but for the refinement's proof. The write side (strwrite, strwsrv and
   canput from above, with the marks of the queue below) is next, as a module of its own.
5. Smaller: `Callout` (timeout, untimeout), `Shm`, sleep and signals on their own (`os/slp.c`), with `Sem`
   and `RecLock` resting on its promises.

Theorems to come: `Coherent`
of `Bio`, for which `BufOK` and `OneBuffer` are a beginning; that `Stream` implements `BandQueue`, for which `Shape` is.
