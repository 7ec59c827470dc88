# A verification development for the UNIX System V Release 4 kernel (i386)

This directory holds TLA+ models of parts of the kernel under
`src/usr/src/uts/i386`, the TLC configurations that check them on small
instances, and theorems about them whose proofs TLAPS checks. Paths such as
`os/sem.c` are relative to `src/usr/src/uts/i386`; line numbers are those of
the files in this repository. `lp.c` is `src/usr/src/arch/at/uts/i386/io/lp.c`.

The kernel runs on one processor and is not preemptive: a process in the kernel
keeps the processor until it calls `sleep()` or `swtch()` (or a preemption
point), and interrupts are kept out with `spl`. Its hard behaviour is therefore
not in data races between processors but in

* what may change *while a process sleeps*: state read before `sleep()` and used
  after it, including the sleeps hidden in `kmem_alloc(KM_SLEEP)` and `copyin()`;
* what an *interrupt* may change between two instructions that are not at a
  raised priority level: signals posted, sleepers woken, transfers completed;
* who wakes whom: counts, flags and channels that must not go wrong by one;
* several ways at once of stopping, starting and killing a process;
* timeouts that race with the answer, and devices that lose an interrupt;
* resources that outlive their owner: semaphore adjustments, delayed writes.

## 1. Inventory

| Part | State | Operations | Talks to |
|---|---|---|---|
| sleep, wakeup (`os/slp.c`) | `sleepq` hash of processes, `p_stat`, `p_flag`, `p_wchan` | `sleep`, `wakeprocs`, `unsleep`, `setrun` | every part that waits; dispatcher |
| signals, job control (`os/sig.c`) | `p_sig`, `p_sigqueue`, `p_cursig`, `p_hold`, `p_ignore`, `p_siginfo` | `sigtoproc`, `sigaddq`, `issig`, `isjobstop`, `stop`, `psig`, `setsigact`, `sigcld` | sleep, exit, /proc, memory |
| exit and wait (`os/exit.c`) | `p_wcode`, `p_wdata`, the family links, SZOMB | `exit`, `waitid`, `freeproc` | signals, semaphores, sleep |
| /proc (`fs/proc`) | `p_sigmask`, `p_entrymask`, SPRSTOP, SXSTART, SPSTART, `p_trace` | `PIOC*`, `prclose` | signals, sleep |
| dispatcher, classes (`disp`) | dispatcher queues, `curproc` | `pswtch`, `preempt`, `setbackdq`, `dispdeq`; `ts_tick` ... | sleep |
| trap and system call ends (`os/trap.c`) | -- | `trap`, `systrap` | signals, /proc, dispatcher |
| System V semaphores (`os/sem.c`) | `sema`, the pool `sem`, `semmap`, undo structures, one static holding area | `semget`, `semctl`, `semop`, `semexit` | sleep, exit, `copyin` |
| message queues (`os/msg.c`) | `msgque`, `msglock`, the list `msgfp` of headers, the map `msgmap` of text | `msgget`, `msgctl`, `msgsnd`, `msgrcv` | sleep, `copyin`, `copyout`, maps |
| shared memory (`os/shm.c`) | segments, attach counts | `shmget`, `shmat`, `shmdt`, `shmctl` | address spaces |
| record locks (`os/flock.c`) | `v_filocks` of each file, the chain `sleeplcks`, `flckinfo` | `reclock`, `chklock`, `cleanlocks`; `flckadj`, `deadflck` | sleep, file systems, lock manager |
| buffer cache (`os/bio.c`) | buffers, hash chains, `bfreelist`, `basyncnt` | `bread`, `breada`, `getblk`, `brelse`, `bwrite`, `bflush`, `blkflush`, `binval`, `biodone` | file systems, disk drivers and their interrupts |
| kernel memory (`os/kma.c`, `os/malloc.c`) | pools, maps | `kmem_alloc`, `rmalloc` | sleep |
| fork, exec, pids, groups, sessions (`os/fork.c`, `exec.c`, `pid.c`, `pgrp.c`, `session.c`) | process table, id hash, credentials | `newproc`, `gexec`, `pid_assign`, `pgjoin`, ... | signals, memory |
| clock, callouts (`os/clock.c`) | `lbolt`, callout table | `clock`, `timeout`, `untimeout` | sleep, signals |
| swapping and paging (`os/sched.c`, `os/vm_pageout.c`, `fs/fsflush.c`, `vm`) | address spaces, pages, anon slots | `sched`, `pageout`, `fsflush`, faults | everything |
| STREAMS (`os/streamio.c`, `os/strsubr.c`, `io/stream.c`) | queues, messages, QFULL, QWANTW, QENAB; the flags of a stream head, `sd_iocwait`, `sd_iocid`, `sd_iocblk` | `stropen`, `strwrite`, `strread`, `strdoioctl`, `strclose`; `putq`, `getq`, `canput`, `queuerun` | sleep, timeouts, drivers, network |
| line printer (`lp.c`) | `t_state`, `t_out.bu_bp`, `last_time`, `lptmrun` | `lpopen`, `lpclose`, `lpoput`, `lpintr`, `lptmout` | STREAMS, the printer |
| file systems, vnodes (`fs`) | vnodes, inodes, name cache | `vop_*`, `dnlc_*` | buffer cache, pages |
| network, RPC, NFS, RFS, lock manager (`net`, `netinet`, `rpc`, `nfs`, `klm`) | connections, request caches | -- | STREAMS, file systems |
| drivers (`io`), `boot`, `kdb`, `fp`, `ml` | devices | -- | all |
| commands and libraries (`src/usr/src/cmd`, `lib`, ...) | -- | -- | system calls |

`PROJECT.json` lists every part with its status, and every hazard at its line.
For a part that is a whole directory it names a few of the largest files.

What makes the core parts correct:

* **sleep, signals, /proc**: a signal posted at any moment is not slept through;
  a process in state SRUN is on the dispatcher queue exactly once and nobody
  else is; SIGKILL defeats every stop; a stop holds until what made it undoes
  it; nobody sleeps in `waitid()` or `PIOCWSTOP` for something that has
  happened; a killed process dies.
* **semaphores**: `semop()` is all or nothing, values and adjustments alike; a
  sleeper is counted and is woken when it can proceed; adjustments die with
  their set.
* **record locks**: a request that is granted changes its bytes and no others,
  and only if nobody else is in the way, however regions overlap, adjoin and
  split; records are counted; a sleeper waits for a lock that is in its way
  and will wake it; no processes wait for each other.
* **message queues**: messages are received once, in the order of their type;
  what a lock holder has looked up stays while it copies; each header and each
  segment of text is in one place; a sleeper waits for something that is not
  there, and is known to whoever will bring it.
* **streams and the printer**: what is accepted is printed once and in order; a
  drain is answered when all before it is printed, and a reply reaches the
  process that asked; a writer held up by flow control is let go; output does
  not stop while there is any, although interrupts are lost; close returns.
* **buffer cache**: a block has one buffer and one user, who finds what was
  last written; no lost wakeup, no deadlock; memory and asynchronous writes are
  counted exactly.

## 2. Modules

| Module | Contents |
|---|---|
| `ProcTable` | the tables that sleep, signals and the dispatcher share, and the functions on them as operators from tables to tables: `sleep` queues, `wakeprocs`, `unsleep`, `setrun`, `sigtoproc`, `sigaddq`, `sigcld`, `stop`, `fsig`, the dispatcher queue |
| `SleepSig` | processes as threads of control over `ProcTable`; safety and liveness |
| `MCSleepSig` | instances |
| `SleepProofs` | `SleepInvariant`, and what follows: `QueuesAgree`, `SignalsAreSeen`, `StopsAreSeen`, `ChildrenAreSeen`, `KillIsNotStopped`, `CurrentSignals`, `EntriesArePending`, `StopsHold` |
| `SemSpec` | what `semop()` promises: lists done in one step |
| `Sem` | `os/sem.c`, one operation of a list at a time |
| `SemRefinement` | the mapping from `Sem` to `SemSpec`; `NoLostWakeup`, which needs it |
| `MCSem` | instances |
| `SemProofs` | `TypeCorrect`, `HoldingAreaOwn`, `SleepersCounted`, `AdjustmentsLive`, and what they rest on |
| `SemRefProofs` | `SemaphoresAlwaysOK`, `NobodySleepsOn`, `SemImplements` |
| `BioSpec` | what the buffer cache promises: one user per block, who sees the last write |
| `Bio` | `os/bio.c` and the disk |
| `BioRefinement` | the mapping from `Bio` to `BioSpec`; `FlushedOnReturn` |
| `MCBio` | instances |
| `BioProofs` | the inductive invariant of `Bio`, and what follows: `BuffersAlwaysOK`, `OneBufferEver`, `MemoryAlwaysAccounted`, `TransfersOnce`, `AsyncWritesAlwaysCounted`, `NobodyForgotten`; that it implements `BioSpec` (`BioImplements`), and `FlushedWhenDone` |
| `FlockSpec` | what record locks promise: what each owner holds on each byte |
| `Flock` | `os/flock.c` |
| `FlockRefinement`, `MCFlock` | the mapping from `Flock` to `FlockSpec`; instances |
| `Rmap` | resource maps, `rmalloc()` and `rmfree()` of `os/malloc.c`, as operators |
| `RmapProofs` | what these operators take, give back and preserve |
| `MsgSpec` | what message queues promise: queues of messages that are sent and received in one step |
| `Msg` | `os/msg.c`, over `Rmap` |
| `MsgRefinement`, `MCMsg` | the mapping from `Msg` to `MsgSpec`; instances |
| `MsgProofs` | `TypeCorrect`, `HeldQueue`, `Accounted`, and what they rest on; `NoWakeupLost`, `MsgImplements` |
| `LpSpec` | what a stream to a printer promises: a spool |
| `Strq` | a STREAMS queue, `putq()`, `putbq()` and `getq()` of `io/stream.c`, as operators |
| `Lp` | the write side of a stream head, the scheduling of its service procedure, and `lp.c`; safety and liveness |
| `LpRefinement`, `MCLp` | the mapping from `Lp` to `LpSpec`; the instance |
| `LpProofs` | `StreamAlwaysOK`, `NobodySleepsOn`, `OutputAlwaysMoves`, `LpImplements` |
| `NatProofs` | facts about numbers, recursive functions and counting that the proofs share |

Some definitions are followed or preceded by a *mutated form*, which no
next-state relation uses: a plausible mistake in that definition, with which
the property named in `PROJECT.json` fails.

### 2.1 `ProcTable` and `SleepSig`

`k` is a record of the tables: `proc` (one record for each process, its fields
named after those of `struct proc`: `stat`, `flag`, `wchan`, `whystop`, `wcode`,
`parent`, `sig`, `sigq`, `cursig`, `hold`, `ignore`, `caught`, `sigmask`, ...),
`sleepq` (one sequence for each hash bucket), `dispq` and `cur` (`curproc`). `thr[p].pc`
says where the process is in the kernel, `hi` whether the running process is at
`splhi`. A step of a process is what it does between two points at which it can
lose the processor or take an interrupt. `sleep()` therefore is: queue and raise
the level (`Sleep`), the look at signals as in `issig()` (`IssigRequested`,
`IssigCurrent`, `IssigPending`, with the stops and the SIGCLD of `isjobstop()`
between), then the wait, `Resume`, and the look again. `exit()` is three steps,
`ExitSignals`, `ExitRelease` (which may sleep, being able to be woken only by
what it waits for) and `ExitZombie`. `kmem_alloc(KM_SLEEP)` in `sigaddq()` and in
PIOCSSIG may find no memory when `KmemSleeps` is true: the process sleeps where it
is (`KmemSleep`), in `stop()` with one `p_stat` for two waits, and goes on in
`ResumeKmem`. PIOCSSIG has then set the current signal, but not yet started the
process (`PIOCSSIGStart`, `fs/proc/prioctl.c:325-359`), and has it locked.

`prlock()` is taken and given up within one step but for that sleep. While
PIOCSSIG sleeps the process it acts upon has SPROCIO: `Dispatch` passes over
it (`disp/disp.c:272`), and an operation that needs the lock is not enabled (`IoctlLocked`), which
stands for the sleep on `prpidlock`. PIOCSTOP and PIOCWSTOP do not take the lock
(`fs/proc/prioctl.c:80`), nor does `kill(2)`, which `Kill` stands for as well as for PIOCKILL.
Whether a process has a `p_curinfo` is left open: PIOCSSIG may ask for memory or not.

Abstractions: one dispatcher priority (any queued process may be dispatched);
every process is loaded; no `ptrace(2)`, `vfork` or event traps; only
signals from processes of no orphaned group, so that SIGTSTP stops; a parent
that catches SIGCLD gets stop notices too; the contents of `siginfo` are dropped;
`waitid(P_ALL)` only; `init` is the null process; handlers are set without
SA_RESETHAND and SA_NODEFER, and their masks hold only the signal itself.

### 2.2 `SemSpec`, `Sem`, `SemRefinement`

`sema[s]` is the set descriptor (allocated or not, sequence number, `base` and
`nsems` in the pool), `sem[x]` a semaphore of the pool with `semval`, `semncnt`
and `semzcnt`, `undo[p]` the undo structure as a function from semaphores to
non-zero adjustments, `holds` the processes that have a structure, `semtmp` the
static holding area, `pr[p]` the process. `SemopDo` does one operation with its
`semaoe()`; `SemopError` and `SemopWait` end a pass, and `semundo` takes it back
one operation at a time; `SemopLeave` then returns or sleeps. `Interrupted` is
what follows a `sleep()` that returns 1, with the count taken down; `Continued` a process that
was stopped while it slept and continued by SIGCONT: `sleep()` returns 0 although nobody
has woken it (`os/slp.c:153-196`), so that `semop()` looks again and may count itself once more. `CountMax` bounds
the count up to which that happens; the wrap of the 16 bits of `semncnt` is not modelled.
(In `Msg`, `Lp` and `Flock`, which keep no such counts, this early return is left out.)

`semtmp` is a union: `semctl()` copies the values of SETALL and the `semid_ds` of IPC_SET into the
same memory (`os/sem.c:41-48`, `:324`, `:341`, `:469`). `Overlaid` is what the values of SETALL make of the
operations, `semctlSET` the rest, with what a `semid_ds` looks like as operations in
`Junk`.
`semexit` applies adjustments one at a time.

The copy of the operations may have to wait for a page of the user after each of
them: `PageWait` adds these waits (`SemopWaits`, `ResumeWaits`, `Copyin`) to `Next`,
and `PagedSpec` is `Spec` with them, the subject of the run `sem_holding`. Everything else, the theorems included, is
about `Spec`, whose behaviours are the ones in which the pages are resident. That the
copies of `semctl()` may wait for a page too is not modelled.

An id is the pair of a slot and a sequence number that wraps at `SeqMax`, as
the 15 bits of `sem.c:311` do; with `SeqMax = 0` ids are used again at once.
`rmalloc()` returns any free run. Permissions, `sempid`, times and the commands
of `semctl()` that only read are left out; `semctl()` is one step.

In the refinement mapping the values and adjustments of `SemSpec` are those of
`Sem` less what the pass under way has done so far: `semop()` takes effect when
its last operation is done.

### 2.3 `BioSpec`, `Bio`, `BioRefinement`

`c` is the cache: a record for each buffer (`flags`, `blkno`, `bufsize`, `data`),
the free list as a sequence, `bufsize` (`bfreelist.b_bufsize`, the memory not
used) and `wanted` (its B_WANTED). `io` has the buffers that a driver has, `disk` what
is on it. `pr[p]` is where a process is in `getblk()` and its callers; a step is
what is done at `spl6` or between two points at which an interrupt may come.
`GetblkSearch` is the search of the hash chain, `GetblkCheck` the second look at
`spl6`, `Reclaim` one turn of the loop of `getfreeblk()`, `Allocate` its end,
`Got` what `bread()` and `breada()` do with the buffer, `Readahead` the second half of
`breada()`, `Brelse`, `Bdwrite` and `Bwrite` how the caller gives it up, before which it may
sleep (`Elsewhere`: `ufs_bmap()` with a buffer in hand calls `alloc()`); `IoDone` is the
interrupt with `biodone()`.

Abstractions: one device, whose transfers of one block end in the order in which
they were asked for (a driver may reorder those of different blocks); a hash
chain is the set of buffers that name the block; headers do not run out
(`getfreeblk()` allocates them); contents are values; a caller holds one
buffer at a time outside `breada()` (`ufs_bmap()` may have two, and two callers that wait for each
other's are outside the model); the last close (`bflush()`, then `binval()`)
is made while nobody else uses the device; `manyfree` stands for the 4 of `bawrite()`.

In the refinement mapping the contents of a block are those of its buffer if
that is valid, else of the last write under way, else of the disk.

### 2.4 `FlockSpec`, `Flock`, `FlockRefinement`

`filock[a]` is the record at an address, `v_filocks[f]` the list of a file as a
sequence of addresses, `sleeplcks` the chain of waiting requests, newest first,
`reccnt` the count that is compared with `t_flckrec`, `pr[p]` where a process is.
`reclock()` keeps the processor from one sleep to the next (its memory comes from
`kmem_zalloc(KM_NOSLEEP)`), so `Attempt` is a whole turn of its loop: `BlockingLock` and
`InsertionPoint` are what `blocked()` finds, `flckadj` goes over the locks of the
owner (`Coalesce` for one of the same type, `Release` for one of another), `deadflck`
follows the chain. `LockRequest` and `Resume` are the turn of a process that calls and
of one that has been woken, `Signal` the interrupted sleep, `Unlock` `F_UNLCK`,
`RemoteRequest` the commands of the lock manager, which does not sleep,
`cleanlocks` what `close()` does. An allocation may fail at any point of `flckadj()`,
which then leaves behind what it has done so far.

Abstractions: `convoff()` has been done, regions are given by first and last
byte; a record that is freed may be used again at once, with sleepers on its
address; a variable `circling` says that `deadflck()` has gone round without
coming by the process it looks for.

In `FlockSpec` an owner may be `waiting` with a request, and `answer` is the last request that was
answered, and how. A request that is granted (`Grant`) is the one its owner waits with, if it
waits; it changes the bytes it asks for, all of them and no others, to the type it asks
for. In the refinement mapping an owner holds on a byte what its lock that covers
the byte says, and waits with the request that its process in `reclock()` has not
returned from; `answer` is a variable of `Flock` which no code reads and the `VIEW` of
the run leaves out.

### 2.5 `Rmap`, `MsgSpec`, `Msg`, `MsgRefinement`

A map is a sequence of entries (address and size) and the number of slots left;
`rmalloc` takes from the first entry that is large enough, `rmfree` joins with the
entry before, behind or both, or inserts, and `Overflows` is its complaint that
there is no slot for that.

`que[s]` is a queue with its messages as a sequence, its sequence number and
its flags, `msglock[s]` its lock, `pool` the headers that are free, the map of text,
`mapwant(msgmap)` and what has been lost to an overflow of the map (a history
variable: no code reads it). `msgconv` is `msgconv()` and what follows in the same step:
the lock is taken only across a copy, at whose end `CopiedIn`, `CopiedText`,
`CopiedOut` or `CopyFails` goes on. `Getres` is the part of `msgsnd()` that collects room,
header and text and sleeps for each, without the lock; `Findmsg` the search of `msgrcv()`;
`Remove1` is IPC_RMID; `Interrupted` what follows a `sleep()` that returns 1.
Headers are counted, not named. Keys, permissions, IPC_STAT, times and pids are left out;
`ipcget()` is the choice of the first free slot.

In the refinement mapping the queue of `MsgSpec` is the one of `Msg` without the
bytes, flags and locks: a message is sent when its text is copied and
received when the copy out is done.

### 2.6 `Strq`, `LpSpec`, `Lp`, `LpRefinement`

`q` is the write queue of the driver (messages, `q_count`, QFULL, QWANTW), `qenab` says that
the write queue of the stream head is on the run list, `serving` that `queuerun()` has taken it
off, `sd` is the stream head, `tp` the driver's `t_state` and `t_out`, `dev` the printer
(`irqs`, the interrupts it owes; `armed`, that `last_time` is not in the far future; `lptmrun`), `timers`
the callouts of `str2time()` and `str3time()`, `users` who has the stream open, `pr[p]` where a
process is, `cur` the one that is in the middle of a call, `looping` that somebody is in the loop
of `lpgetoblk()`, which runs at `spltty` from a process, an interrupt or the watchdog.

`strwrite` asks `canput()` and sleeps in `strwaitq()` (`Canput`); `PutData` is the end of
`strmakemsg()`, which may have slept, with the `putq()` of `lpoput()`; `Lpoput` goes on to
`lpgetoblk()`, with room for interrupts between; `WriteOn` follows `runqueues()`. `strdoioctl` waits
for the mechanism and takes it (`IocWait`), `Lpputioc` answers or decides to queue, at spl0, `QueueIoctl`
queues, `ReplyWait` is the wait, `IocEnd` the end with or without a reply, `IocLeave` that of a process that
did not get the mechanism. `strclose` is the wait for the queue, up to `strtime()`, then `qdetach()`
and the drain of `lpclose()`, and `Detach` the rest. `lpxintr` sends the next character or,
after the last, enters the loop; it is called by `lpintr`, which uses up an interrupt, and by `lptmout`, which
does not: an interrupt that is only late still comes, and pushes another character out.
`LoseInterrupt` is the fault: an interrupt that does not come.

Abstractions: one printer, no modules pushed, one stream; no flushes, hangups, bands,
held writes, M_START, M_STOP, M_DELAY or poll(2); message blocks are to be had; a message is who
wrote it and its length; an open and the forks that share the file are one step; as many
values of `ioc_id` as it takes that none is used again while a message with it is queued (`ioc_id` counts
in 32 bits); no clock, so that a timeout comes at any time.

In the refinement mapping the spool is what is left of the message at the printer, followed by
the queue. A request is live while the stream head waits for a reply with its id.

## 3. Runs

| Run | Instance | Shows |
|---|---|---|
| `sleepsig_proc` | a debugger on a process that sleeps and exits; SIGKILL, SIGTSTP and SIGCONT from elsewhere, SIGKILL and SIGTSTP by PIOCSSIG, for which memory may be short | `QueuesOK` `NoLostSignal` `KillOverridesStop` `NoMissedStop` `StopHolds` |
| `sleepsig_kmem` | a child and a parent that signals it, waits, catches SIGCLD and exits; memory may be short | `ThreadsOK` (the type and `CurrentSignalOK`) `NoLostSignal` `NoMissedChild` |
| `sleepsig_jobs` | a child, its parent in `waitid()`, terminal stops; under fairness | `QueuedIsPending` `KillIsFatal` `ZombieIsReaped` |
| `sem_ops` | 2 processes, 2 sets over a pool of 2 semaphores, 1 undo structure, 5 lists of up to 2 operations, ids reused at once, `semvmx` 2, `semaem` 1; `semctl()` writes the holding area | `TypeOK` `SemaphoresOK` `SleeperIsCounted` `AdjustmentsAreLive` `NoLostWakeup` `ImplementsSemSpec` |
| `bio_cache` | 2 processes, 3 blocks of two sizes and 2 values, memory for one large or two small, every call but `breada` | `BuffersOK` (the type and `BusyOrFree`) `MemoryAccounted` `TransferOnce` `FlushedOnReturn` `ImplementsBioSpec` |
| `bio_ahead` | 2 processes in `breada()`, 3 blocks, memory for 3 buffers, transfers of one block may fail, `kmem_zalloc()` may sleep | `OneBufferPerBlock` `NobodyStuck` (`NoLostWakeup` and `NoDeadlock`) `AsyncWritesCounted` |
| `flock_locks` | 2 processes and a remote owner, a file of 3 bytes, 4 records, memory may be short | `RecordsOK` (the type and `RecordsCounted`) `ListsInOrder` `NoLostWakeup` `DeadlockRefused` `ImplementsFlockSpec` |
| `msg_queue` | 3 processes, 1 slot whose id is reused at once, 2 headers, 3 segments of 2 bytes, a map with no slot to spare, a limit of 5 bytes that may be lowered to 3, copies may fail | `TypeOK` `LockedQueueStays` `ResourcesAccounted` `NoLostWakeup` `ImplementsMsgSpec` |
| `lp_printer` | 2 processes, one of which gets signals; writes of two messages of 2 and 1 characters or of none, drains without a timeout of the one, changes of modes with a timeout of the other; a queue that one character fills; 2 values of `ioc_id`; the printer owes up to 2 interrupts and may lose them; under fairness | `StreamOK` `NoLostWakeup` `OutputMoves` `ImplementsLpSpec` `CallReturns` |

Why the bounds are enough to be of interest: two processes are what each of the
protocols has as parties (sender and receiver, parent and child, debugger and
target, two rivals for a block), interrupts being a party of their own. All wait
channels hash to one bucket, so that a wakeup passes over sleepers of other channels. The
values of semaphores reach `semvmx` and adjustments pass `semaem`; the undo pool is
exhausted; the memory for buffers is less than the blocks in use, so every
path of `getfreeblk()` is taken; there are as many headers as the memory has room for buffers, so
none is ever wanting (in `bio_cache` two, the smaller blocks being of size 1). `IoErrors` is
the set of the blocks whose transfers may fail, one of three in `bio_ahead`. A region of three bytes can be split in
three, be joined on both sides and lie between two others; four records are
exhausted by splitting with sleepers in the chain. Two headers and three segments
make senders wait for header, text and room in turn, and a map with no slot to spare
overflows when the middle segment is freed between two that are in use. A queue that one
character fills makes every second message of a write wait, and is overfull when both
processes pass `canput()` before either has copied; an ioctl can be put back before what is
queued, given up and answered late while another one waits. Signals are the ones that the code treats
differently: SIGKILL, SIGCONT, a stop signal, one that kills, SIGCLD.

`MaxIrqs` bounds the interrupts that the printer owes: `lptmout()` may come again and again without
one being taken, and two are enough for an interrupt that is late after the watchdog has made up
for it. `IocIds` is the range of `ioc_id`: one value may still be on the queue, given up, when the next is
taken. No other counter of these models needs a bound: `basyncnt` is bounded by the buffers,
the counts of sleepers by the processes, messages by the headers, and sequence
numbers wrap. But for one: a process that is stopped and continued while it sleeps in `semop()` is
counted again each time, and `CountMax` = 1 is enough for a count that is higher than
the number of sleepers and one that a wakeup has reset.

The views (`VIEW`) leave out of a state what no later step depends on: in `sem_ops` the part of the
holding area that is not read before it is filled again, in `flock_locks` the last answer.

Deadlock is not checked for `SleepSig` (every process may have exited); it is for
`Sem`, `Bio`, `Flock`, `Msg` and `Lp`, whose processes can always call again or be
interrupted.

Process symmetry is used where processes have the same calls (`Sem`, `Bio`, `Msg`), in `Bio` also
that of buffers and of the blocks that are alike: the two smaller ones in `bio_cache`, those
whose transfers cannot fail in `bio_ahead`; not in runs that check liveness.

### Fairness (`sleepsig_jobs`)

`Fairness` assumes that what a process in the kernel must do next it does (weak:
nothing else can disable it for good), that devices wake their sleepers, that
`Dispatch`, `Preempt` and `SysReturn` happen if possible again and again (strong).
The clock interrupt sets `runrun` when a time slice is over (`disp/ts.c`,
`ts_tick`) and the time-sharing class raises the priority of whoever has waited
for `ts_maxwait` seconds (`ts_update`), which is why a queued process is
chosen in the end although others are queued with it; a system call that sleeps for ever in a loop of its own is
not in the model. Nothing is assumed of signals or of what processes choose to do.
`ZombieIsReaped` allows the parent to be stopped; `KillIsFatal` does not need to.

### Fairness (`lp_printer`)

`FairSpec` assumes that the kernel goes on with what it is in the middle of and runs what is on the
run list of queues (weak, `Driver`), that while the printer owes an interrupt it comes, or the
watchdog does (weak, `Device`), that a timeout comes (weak, `Timers`), and that a process that can run in
the kernel again and again does (strong, as above: others may take the processor meanwhile).
Nothing is assumed of what processes call, of signals, or of which interrupts are lost. With
`Unattended = FALSE` an interrupt is lost only while the watchdog is set; the other case is below.
`CallReturns` does not say that a write returns: another process may fill the queue each time.

### Runs that find a violation

Each states what a comment, an assertion or a manual page says, with the quote
under "findings" in `PROJECT.json`.

| Run | What happens |
|---|---|
| `sleepsig_stop_kmem` | the SIGCLD of a stop waits for memory: two waits share one `p_stat`, the process ends SRUN and unqueued, `setrun()` ignores it from then on |
| `sem_holding` | one static holding area: while a caller waits for a page in `copyin()`, the `semop()` or `semctl()` of another refills it |
| `bio_errors` | a read-ahead fails between two looks at the buffer: `bread()` returns it as read |

### Seen with other instances

Invariants of the passing runs fail in these instances, which are not kept as
runs of their own:

* `CurrentSignalOK` in `sleepsig_proc`: PIOCSSIG at a system call entry stop
  leaves a current signal with which the process enters `exit()`, which asserts
  that there is none (`os/exit.c:152`).
* `QueuesOK` with a process that waits for its child, a debugger that
  sets SIGTSTP by PIOCSSIG and sends SIGKILL: `isjobstop()` announces the
  continuation also when `stop()` refused (`os/sig.c:193-197`) and wakes the
  channel on which the running process itself is about to sleep.
* The SIGCLD of `exit()` waits for memory after the status is set (`os/exit.c:325-332`): the process is
  SSLEEP with CLD_EXITED, and `waitid()` may find it so, although the comment at `os/exit.c:421-424` says
  that the status is set only in the zombie state. No property is about it: where the
  memory is there the two are set in one step, and nothing could come between.
* `QueuedIsPending` with memory short and a receiver that comes to ignore the
  signal: `sigaddq()` sleeps between its look at `p_ignore` and the insertion
  (`os/sig.c:1018-1036`).
* `NoLostWakeup` of `SemRefinement` with the list `<<-1 on s, 0 on s>>` and `s` at 2:
  the process sleeps for zero although another process has brought `s` to 1,
  from where the list could proceed (`os/sem.c:727`).
* GETNCNT is not always the number of sleepers: a process that was woken and then
  interrupted takes itself off a count that no longer includes it
  (`os/sem.c:711-718`); `SleeperIsCounted` is what remains true.
* `AdjustmentsAreLive` and `FreeIsClear` in `sem_ops` under `PagedSpec`: while `copyin()` sleeps the set
  may be removed and its semaphores given to another set; the operations are
  then done on what was looked up before (`os/sem.c:658`).
* `SearchEnds` of `Flock` when a remote owner asks for several regions at once:
  `deadflck()` follows its first entry only, and a cycle of owners that does not
  lead through the asker makes it go round for ever (`os/flock.c:675`). Entries of
  requests that the lock manager has given up stay in the chain: its
  `local_cancel()` (`src/usr/src/cmd/fs.d/nfs/lockd/prot_proc.c`) does not tell the kernel.
* An entry of a process that has been woken and has not run yet still names the
  owner it waited for, so that another process may be refused with EDEADLK
  although nobody would have waited for ever
  (`src/doc/MANPAGES/2/gen/fcntl:262-268` speaks of a lock that would cause a deadlock).
* An unlock in the middle of a lock that finds no record returns ENOLCK and has
  by then released locks before it (`os/flock.c:197`); `FlockSpec` allows for that
  in `NoRecords`.
* `NoLostWakeup` of `Msg` when IPC_SET raises `msg_qbytes`: senders that wait for room
  are not woken (`os/msg.c`, `msgctl`), although `src/doc/MANPAGES/2/gen/msgop` says that
  they wait until the condition no longer exists. A sender that waits for a
  header or for text sleeps on when its queue is removed and nothing is freed
  by that. `rmfree()` that overflows the map returns before it wakes those who wait for it.
* `FlushedOnReturn` without its exception: `binval()` marks buffers stale that a
  driver still writes (`os/bio.c:626-627`), and `blkflush()` does not find them.

* `OutputMoves` and `CallReturns` of `Lp` with `Unattended = TRUE`: `lpclose()` stops the watchdog
  while a message is still being printed; an interrupt lost then leaves BUSY set, and the next
  open, which starts the watchdog anew, resets `last_time` (`lp.c:138-141`), so that it never acts: the
  driver hangs, although lost interrupts are not to "hang the driver" (`lp.c:686-690`).
* A reply that has arrived is thrown away when the timeout or a signal comes before the process runs
  (`os/streamio.c:4168-4199`), although the comment before says that the call fails only if
  it has not arrived by then (`os/streamio.c:4151-4153`). `LpSpec` allows it (`End`). And
  `str2time()` and `str3time()` each wake the one channel (`os/strsubr.c:528`, `:547`), where their
  comments speak of both.
* `NoDeadlock` of `Bio` with blocks of different sizes and two processes in `breada()`: each holds its own
  block and waits for memory for the next, which only the other has. `breada()` looks
  whether more than one buffer is free (`os/bio.c:137`), not how large they are. (Memory for 4 units, one
  block of 3, the others of 1.)
* One flag STR2TIME serves all who wait for the mechanism: the timeout of the first
  one makes the others give up too. `LpSpec` makes no promise there.

## 4. Proofs

All theorems are for every number of processes, sets, semaphores, queues, headers,
segments and limits, and for every set of calls that the assumption on the
constants of the module allows.

### Sleep, signals, exit and /proc (`SleepProofs`)

One inductive invariant, `SInv`, for every finite set of processes, all devices, signals and calls, and
whatever the clock, devices and other processes post in between. Its parts:

* `Consistent`: sleep queues and dispatcher queue agree with `p_wchan` and `p_stat` (`QueuesOK`).
* `Fine`, of every process: where it is in the kernel fits the calls it makes; SIGKILL is
  neither held, caught nor traced, nor pending in a stopped process, nor current in one unless PIOCSSIG has it locked
  (SPROCIO); an entry is that of a pending signal; a status of exit is a zombie's; a current signal that no debugger has set is there only between its promotion and `psig()`
  (`Asked`), or in one that has exited.
* `Rests`, of every process without the processor: it is at a place where that can be, and if it sleeps at
  interruptible priority nothing is pending that is not held, no stop is requested and, unless it is
  locked, no signal is current.
* `Hears`: who waits in `waitid()` or `PIOCWSTOP` has not been told yet of what has not happened yet.
* `On`, of the process that has the processor: it is SONPROC or, at `splhi`, on a sleep queue while it
  looks at its signals, and then cannot find a stop signal and SIGKILL together.

`Off` is `Fine`, `Rests` and `Hears`, `Settled` all of it but for the process that has the processor.

None of the properties is inductive alone. `NoLostSignal` needs `On` (nothing can be posted between the look and the wait, which is at
`splhi`) and `Hears` needs `QueuesOK` (the wakeup finds who is on the channel). The routines of `ProcTable` are
first shown to be of a few kinds, by what they do to the record of any process: it is
`Woken`, started or left (`Moved`, `Run`), gets a signal (`Posted`, `Added`), stops (`Halted`). Then each action
has a lemma, which says what it does to its own record and that it does one of these things to the others.

Every theorem is in the `Setting`:

* no process is its own parent;
* if `kmem_alloc()` may sleep in `sigaddq()`, SIGCLD is neither caught nor traced, so that `sigcld()` needs no entry.
  Otherwise `QueuesOK` is false of the code (`sleepsig_stop_kmem`). PIOCSSIG and `kill(2)` may wait for memory in any case;
* no debugger makes a stop signal the current signal of a process that may wait for its children, for
  which `QueuesOK` is false too (above, `os/sig.c:193-197`).

The instances of `sleepsig_jobs` and `sleepsig_proc` satisfy it. In `sleepsig_kmem` SIGCLD is caught while memory
may be short: there the theorems do not apply and the run checks what they leave open, for two processes.

* `QueuesAgree`, `SignalsAreSeen`, `StopsAreSeen`, `ChildrenAreSeen`: `Setting => (Spec => []QueuesOK)`,
  and `NoLostSignal`, `NoMissedStop`, `NoMissedChild` likewise. `NoLostSignal` leaves the current signal of a process
  out that PIOCSSIG has locked while it waits for memory: it starts the process when it has it.
* `KillIsNotStopped`: `KillOverridesStop`, of a SIGKILL that is pending, without exception; of one that
  PIOCSSIG has made current, but for the time that it waits for memory, and in a sleep with SNOSTOP, from which `PIOCSSIG` starts
  nobody (`fs/proc/prioctl.c:349-351`).
* `CurrentSignals`: `ThreadsOK`, if besides no debugger sets a current signal (above, `os/exit.c:152`).
* `EntriesArePending`: `QueuedIsPending`, if besides memory is always there (above, `os/sig.c:1018-1036`).
* `StopsHold`: `StopHolds`, the action property. `Holds` relates the record of a process before and after a step, and
  every action keeps it for every process but the one that a debugger runs or lets go (`PIOCRUNStep`, `prcloseStep`).
  Actions that change the record of the running process only are done at once (`Framed`: it is not stopped);
  `sigtoproc()`, `setrun()` and `wakeprocs()` keep it because `setrun()` looks at SXSTART and SPSTART (`HoldsFacts`).

`SInv` was checked by TLC before it was proved, on the instances of `sleepsig_jobs`, `sleepsig_proc` (where PIOCSSIG waits for memory) and
that of `sleepsig_kmem` with nothing caught.

### Semaphores (`SemProofs`, `SemRefProofs`)

* `TypeCorrect`: `Spec => []TypeOK`. `TypeOK` is not inductive: that a pass
  reads an operation of its list, and that the counts and adjustments it writes
  have their types, needs that its index is within the list and the list one
  that a caller may give (`Indices`). `TypeInv` is both. It also needs that the operation read
  is one of the caller's, which the area alone does not say, for `semctl()` writes it too:
* `HoldingAreaOwn`: `Spec => []HoldingAreaIsOwn`. Nothing locks the holding area; only because
  every pass begins with a copy of the whole list, and nobody else is in `semop()` or `semctl()` before the pass ends, it has
  the caller's own operations whenever they are read (`AreaInv`).
* `SleepersCounted`: `ListsFit /\ Spec => []SleeperIsCounted`. A process that is
  woken and then signalled takes the count down although the wakeup has reset
  it, possibly under the feet of one that has gone to sleep since; the argument
  is that whoever takes a count to zero wakes everybody on that channel. It
  needs that every access is to a semaphore of the set meant: sets lie within
  the pool (`SetsFit`), the operations in the holding area are the caller's
  (`AreaInv`), which fit every set, the set of a process in the kernel has semaphores
  (`InSet`), and channels are semaphores (`Channels`). These make `FitInv`.
* `AdjustmentsLive`: `ListsFit /\ Spec => []AdjustmentsAreLive`.
  An adjustment is made only by a pass, on the set that was looked up in the
  same pass (`Serial`: only the current process is in a pass, and its set is
  there), and `semunrm()` clears all entries of a set when it goes.

None of them is claimed of `PagedSpec`, where a `copyin()` that sleeps lets others put operations into the
holding area that nobody has verified.

`ListsFit` says that operations name semaphores of every set the id may denote:
operations are not verified again after a sleep (`sem.c:655-664`), so that a set
that was removed and made anew, smaller, under the same id would be indexed out
of its range. It is assumed by name where it is needed.

* `SemaphoresAlwaysOK`: `ListsFit => (Spec => []SemaphoresOK)`. While a pass is under
  way the semaphores hold what its first operations have made of them, and
  `semundo()` takes the changes back one at a time. That every value on the way
  back is in range needs the values on the way there: `PassInv` says that there are
  states `h[0] .. h[n]`, and adjustments `g[0] .. g[n]`, each of which comes from the one before by
  one operation of the holding area, all of them in range, the last of which is what is there. No
  variable has them; they are bound by `\E`, and a step of the pass adds or drops the last.
* `NobodySleepsOn`: `ListsFit /\ ZerosFirst => (Spec => []NoLostWakeup)`. Every sleeper is
  `Blocked` by an operation of its list on the semaphore whose channel it is on, with the values of
  *every* state of the pass under way (`WakePassInv`): a wakeup is for good although the pass that
  made it is taken back. `ZerosFirst` says that no list waits for zero on a semaphore which it has changed
  by an earlier operation. Without it the theorem is false of the code, see above: the semaphore must
  then reach another value than zero, and no one announces that.
* `SemImplements`: `ListsFit => (Spec => ImplementsSemSpec)`. In addition to `PassInv` this needs
  that the adjustments of a process are for live sets, that sets do not share semaphores (`SetsApart`)
  and that only the process in a pass owns the holding area (`AreaOwn`); then the
  first state of the pass, which the mapping shows, is left alone until its last operation is done.

### Resource maps (`RmapProofs`)

For every map in order (entries that neither overlap nor touch):

* `RmallocTakes`: `rmalloc()` returns 0 and leaves the map, or returns the address
  of a run of units that were free, takes exactly these and leaves the map in order.
* `RmfreeReturns`: `rmfree()` of units that are not free, if it does not overflow,
  frees exactly these and leaves the map in order, joined on both sides.

### Message queues (`MsgProofs`)

* `TypeCorrect`, `HeldQueue`, `Accounted`: `Spec => []TypeOK`, `[]LockedQueueStays`,
  `[]ResourcesAccounted`. The inductive invariant `IInv` is the conjunction of
  `Types`; `Locks` (the holders of a lock are the processes that copy, and what
  they have looked up is so); `FreeSlotIsEmpty` (a queue that is removed has
  neither messages nor bytes, which `msgget()` relies on); `TextAccounted` (map,
  queues and senders partition the segments), `HeadersCounted` and
  `BytesCounted`. `Locks` is needed for the others: `CopiedOut` frees the message
  at an index that was found before the copy. `TextAccounted` is needed for
  `MapOK`: `rmfree()` keeps a map in order only if what it is given is not free.
* `NoWakeupLost`: `OneLimit /\ Spec => []NoLostWakeup`, where `OneLimit` says that IPC_SET
  gives one value only; otherwise a sender sleeps on with room there (see
  above). Each waker is met in turn: who takes the last header, allocates text,
  appends, receives, lowers a limit.
* `MsgImplements`: `Spec => ImplementsMsgSpec`: every step of `Msg` is a step of
  `MsgSpec` or leaves its variables alone. It rests on `IInv`: the message that
  is removed after the copy is still the one that the type selects.

### The stream and the printer (`LpProofs`)

Four theorems over one inductive invariant, `LpInv`, for every finite set of processes, all
water marks and sizes, and whether interrupts are lost unattended or not. Its parts: `ProcOK` (only `cur` is in the middle
of a call, what a process is doing fits its call, and the one that closes is the last user); `IoctlOK` (one process at
most has the ioctl mechanism, and either its reply is there or its message, once, is
queued or to be queued); `QueueOK` with `RoomOK` (the count, QFULL, and how much the queue can hold);
`PrinterOK` (BUSY means that a block is being printed, the loop of `lpgetoblk()` is entered only without);
`SleepOK` (for each channel, what must be set while somebody sleeps there).

* `StreamAlwaysOK`: `Spec => []StreamOK`. `RoomOK` counts the writers that have passed `canput()`
  and not yet copied, each of which may add one message above the mark.
* `NobodySleepsOn`: `Spec => []NoLostWakeup`. The one flag WSLEEP serves all who
  sleep on the write queue, and any of them clears it; it holds because whoever clears it wakes them all.
* `OutputAlwaysMoves`: `~Unattended => (Spec => []OutputMoves)`. With `Unattended` it is false, see above.
* `LpImplements`: `Spec => ImplementsLpSpec`. The spool is the message at the printer followed by the image of
  the queue. Every action is first shown to be of one of a few kinds by what it does to queue, printer and
  requests (`Kinds`: the queue gets a message at its end or front, the printer takes
  the first, prints a character, a process waits, ends, leaves, ...), and each kind is one
  step of `LpSpec` or a stutter.

### The buffer cache (`BioProofs`)

One inductive invariant, `BioInv`, for every finite set of processes and of buffers, blocks of any
sizes that fit, all calls, and whether or not transfers fail and `kmem_zalloc()` sleeps. Its parts:

* `ProcOK`: where a process is tells its call and which of `bp` (the buffer it has, or waits for), `nbp` (the one it has
  allocated and may not need) and `b` (the one it looks at) it has; only `cur` is at a
  place where it does not wait (`Sole`); who closes the device is alone.
* `BufsOK`: nothing is on the free list or with a driver twice, no two processes own a buffer, and
  `PointOK` of each buffer: one without memory is as `binit()` leaves it, one with memory is free, owned, or with a driver
  for an asynchronous transfer; a free one is not busy; a driver's is busy and not done; a delayed
  write is done and has contents.
* `HeldOK` and `WokenOK`: what a process has is busy, names its block, and is done or on its way; what it
  sleeps on is busy and wanted, or is the free list while that is empty.
* `MemoryAccounted`, `OneBufferPerBlock` and `AsyncWritesCounted`.

None of the properties is inductive without the others. `OneBufferPerBlock` needs that from the search in
`getfreeblk()` to its end only `cur` moves (`Sole`), and that after `kmem_zalloc()` the chain is searched again; that
`biodone()` releases no buffer somebody has needs `ASYNC => ~owned`; that `Bflush` takes
buffers that a driver does not have needs that delayed writes are done.

The steps of processes are taken one action at a time. `BioStep` cuts them down to what the action says of the buffers
and of the process itself: everybody else is as before but for those who are woken (`ProcFrame`,
`OtherFrame`), a buffer nobody touches is as before (`BufFrame`). `InterruptStep` is the same for interrupts. The
sum of the memory is taken over a set by choosing its members one after another; `SubsetInduction` is the
induction over that, from `NatProofs`.

* `BuffersAlwaysOK`, `OneBufferEver`, `MemoryAlwaysAccounted`, `TransfersOnce`, `AsyncWritesAlwaysCounted`:
  `Spec => []BuffersOK`, and so on.
* `NobodyForgotten`: `Spec => []NoLostWakeup`, one half of `NobodyStuck`. The other half, `NoDeadlock`, is false
  for blocks of different sizes (see above) and is model-checked.
* `BioImplements`: `IoErrors = {} => (Spec => ImplementsBioSpec)`. The contents of a block are those of the
  delayed write of it, or else of the last write of it that the driver has, or else of the disk (`ContentsIn`). What
  has to be kept, besides `BioInv`, is `RefInv` (checked by TLC on the instance of `bio_cache`):
  a buffer that is done and not to be written has these contents; a stale one is not to be written; of the writes of one block that
  the driver has, all but the last are of stale buffers (`SentInOrder`); and whatever a process
  has or looks at is not stale (`FreshOK`). Then a new owner finds the contents (`GetblkCheck`,
  `Got`, `IoReturn`), giving up a buffer changes them to what its owner has put there, and every other step, `Reclaim`
  and `WriteBehind` of somebody else's delayed write included, is one of a few kinds (`Steady` and `Blank` buffers,
  a transfer that starts or ends) that leave the contents of all blocks alone (`Unseen`).
* `FlushedWhenDone`: `IoErrors = {} => (Spec => []FlushedOnReturn)`, by the same invariant: no
  write of the block is left, so its contents are those of the disk.

`IoErrors = {}` is needed: when an asynchronous or delayed write fails `brelse()` drops the
contents (`os/bio.c:226`), and a read-ahead that fails between two looks at a buffer makes `bread()` return it as read, as the run
`bio_errors` shows.

### How they are laid out

Sums over sequences and the freeing of one message after another are recursive
functions; the facts about them that the proofs need are proved in set form, by
the least number for which they fail (`LeastNat` in `NatProofs`).

Every proof has one lemma for each action and, below it, one step for each
conjunct that the action can disturb. The last step is by temporal reasoning.

Model-checked only: everything about `Flock` (its lists are made with `SelectSeq` and folds, of which
the provers know only what induction over the list would show); `SleepSig` outside the `Setting`; of
`Bio`, `NoDeadlock`; liveness, which the prover cannot do.

## 5. Not modelled, and the plan

Order of work, most important first:

1. done: `ProcTable`, `SleepSig` -- sleep, signals, job control, /proc, exit and wait.
2. done: `SemSpec`, `Sem`, `SemRefinement`, the semaphore proofs.
3. done: `BioSpec`, `Bio`, `BioRefinement`.
4. done: `FlockSpec`, `Flock`, `FlockRefinement`.
5. done: `Rmap` and its proofs; `MsgSpec`, `Msg`, `MsgRefinement` and their proofs.
6. done: `Strq`, `LpSpec`, `Lp`, `LpRefinement` -- the way down a stream to a printer. Left there:
   reads and poll(2), modules with service procedures, bands, flushes and hangups.
7. Proofs: `RecordsCounted` and `ListsInOrder` of `Flock`; `NoDeadlock` of `Bio` (blocks
   of one size).
8. `Callout` (`timeout`, `untimeout` and `clock`).
9. `Pgrp`: process groups, sessions, orphaned groups, and with them exec and fork.
10. Candidates: name cache and vnode counts, page locks, anon slots, the
   request cache of kernel RPC.

Out of reach or of little use here: machine-dependent start-up, most drivers,
floating point, executable formats (sequential parsing), commands and libraries. The status and
the reason for each part are in `PROJECT.json`.
