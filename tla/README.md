# A TLA+ model of acme-sac's emulator

acme-sac is the editor Acme, written in Limbo, on a hosted Inferno: `emu`, an
operating system kernel that runs as one process of the host, with threads for
its kernel processes (kprocs), the Dis virtual machine, 9P file service in both
directions, and the applications that run on them. This directory holds TLA+
modules for the concurrent core of that system and for Acme's texts and undo, TLC
configurations that check them, and TLAPS proofs. All modules are translated from
the source, C or Limbo; each
definition's lines are in `PROJECT.json` under `map`.

## Inventory

| part | source | state | operations | interacts with |
|---|---|---|---|---|
| locks, Sleep and Wakeup | `emu/port/lock.c`, `proc.c`, `kproc-pthreads.c`, `emu/Linux/os.c` | a QLock's `locked` and queue; a Rendez's `p`; per Proc a semaphore and `killed`, `swipend`, `syscall`, `intwait` | `qlock`, `qunlock`, `Sleep`, `Wakeup`, `swiproc`, `notkilled`, `osenter`, `osleave` | everything below blocks through these |
| readers/writer lock | `lock.c` | two QLocks, a count of readers | `rlock`, `canrlock`, `runlock`, `wlock`, `wunlock` | name space, devices |
| Dis scheduler | `emu/port/dis.c`, `exception.c`, entry of `libinterp/xec.c` | `isched`: run queue, queues of kprocs that want the VM or want work, `idle`, `creating`; Progs and their states | `acquire`, `release`, `iyield`, `startup`, `vmachine`, `addrun`, `delrun`, `killprog`, `delprog`, `progexit` | devices acquire the VM to touch Progs; every system call releases it |
| 9P server | `emu/port/exportfs.c` | the list of requests `exq`, the work list of each Export, flush queues, reference counts | `exportproc`, `exflushed`, `exshutdown`, `exslave`, `exreply` | Sleep/Wakeup, `swiproc` to interrupt an fcall |
| queues | `emu/port/qio.c` | blocks, lengths, state flags, two locks, two Rendez | `qread`, `qbread`, `qwrite`, `qbwrite`, `qclose`, `qhangup`, `qreopen`, ... | pipes, mounts, the network |
| pipes | `emu/port/devpipe.c` | two queues and the number of Chans open on each side | `pipeopen`, `piperead`, `pipewrite`, `pipeclose` | carries 9P between mount driver and server |
| mount driver | `emu/port/devmnt.c` | the list of outstanding RPCs and their tags, who reads (`rip`), the chain of flushes of each RPC | `mountio`, `mntrpcread`, `mountmux`, `mntgate`, `mntflushalloc`, `mntflushfree` | the other end of a 9P server; interrupted by `swiproc` |
| channels and alt | `libinterp/alt.c`, `xec.c`, `emu/port/inferno.c`, `dis.c` | two queues of Progs on each channel, a buffer; per Prog `ptr`, `kill`, `addrun` | `send`, `recv`, `alt`, `csend`, `crecv`, `cblock`, `killcomm`, `killprog`, `exprog` | scheduler, Sleep/Wakeup, garbage collector |
| garbage collector | `libinterp/gc.c`, `heap.c` | reference counts, colours, the sweep pointer | `rungc`, `Setmark`, `destroy` | runs in the VM between Progs |
| Dis file servers | `emu/port/devsrv.c` | pending reads and writes of a `file2chan` | `srvread`, `srvwrite`, `srvcancelreqs` | channels, kprocs outside the VM |
| Acme's files | `appl/acme/file.b`, `buff.b`, `disk.b`, parts of `wind.b`, `text.b`, `exec.b` | the text in blocks on a temporary file with one block cached; `delta` and `epsilon`, the undo and redo logs; `mod`, `dirty`, `putseq` | editing, `undo`, `Put`, `Get`, `commit` of a name | the host's files |
| Acme's file server | `appl/acme/fsys.b`, `xfid.b`, `acme.b` | Xfids, fids, windows | 9P requests of programs, events | windows, Dis channels and locks |

Also in the tree and left aside: compilers and disassemblers of Dis code, host
devices, graphics and numerical libraries, the Limbo compiler, commands and
documents. `PROJECT.json` lists every part with its status.

What is hard in each, and the properties that make it correct:

* **Locks, Sleep, Wakeup.** One semaphore per Proc serves `qlock` and `Sleep`;
  `Wakeup`, `qunlock` and `swiproc` may each post it. Correct: mutual exclusion,
  never a post that nobody is to take, no wakeup lost, a kill not lost on the
  way into `Sleep`, the wait in `osleave` ends.
* **Readers/writer lock.** `rlock` does not look at what `canqlock` returned.
  Correct: a writer is alone, no starvation, no deadlock though a spin lock is
  held while another is waited for.
* **Scheduler.** The VM is handed from thread to thread through two queues, an
  `idle` flag and threads created on demand, and the caller's Prog is found at
  the head of the run queue. Correct: one thread in the VM; the VM never lost;
  every Prog in one place; threads bounded; killed Progs die; ready ones run.
* **9P server.** Flushes race the reply and the completion of what they flush,
  and a hangup races both. Correct: the rules of `flush(5)`; nothing freed is
  reached; an interrupt hits what it is meant for.
* **Queues and pipes.** A reader drops `q->l` between taking a block and putting
  the rest of it back; a writer decides that the queue is full without `q->l`;
  closing and hanging up race both. Correct: bytes in order, none lost; the
  lengths are those of the blocks; nothing follows an end-of-file; whoever sleeps
  goes on when the reason has gone.
* **Mount driver.** Procs read each other's replies, one at a time, and pass the
  turn on; an interrupt turns an RPC into a flush that races the reply, and can
  come again. Correct: one reads; a tag is not used again while an answer to it
  may come; a reply that came before the Rflush is honoured; whoever is answered
  or interrupted returns, though the server never answers anybody else.
* **Channels and alt.** A Prog in an `alt` is on many queues; a kproc waits
  outside the VM; a partner, a kill, an exception or a hangup ends the wait.
  Correct: the queues agree with the Progs; nobody waits while a partner does;
  a communication is one sender's with one receiver, those that waited longest.
* **Acme's files.** The cache stands in for one block; blocks split, empty, move
  and are used again; one command is many entries of a log, and undoing writes
  the other log. Correct: the blocks hold the text; no two overlap; undo and redo
  restore the very documents; a window that is not dirty has been saved.
* **Collector, Dis file servers, Acme's file server**: see the plan.

## Modules

| module | models | checked by | proofs |
|---|---|---|---|
| `KProc` | QLock, Sleep, Wakeup, swiproc, osenter/osleave | `MCKProc` | `LockProofs` |
| `RWlock` | readers/writer lock over QLocks | `MCRWlock` | `LockProofs` |
| `Processes` | the Procs that `KProc` and `RWlock` have in common | through both | |
| `DisSched` | the scheduler of Dis | `MCDisSched` | `DisSchedProofs` |
| `Exportfs` | the 9P server | `MCExportfs` | `ExportfsProofs` |
| `Qio` | a queue in stream mode | through `Pipe` | `PipeProofs` |
| `Pipe` | one direction of a pipe, over `Qio` | `MCPipe` | `PipeProofs` |
| `DisChan` | channels, `alt`, `cblock`, kills and hangups | `MCDisChan` | `DisChanProofs` |
| `Rendezvous` | what channels promise, without queues: a line of offers | `DisChanPromise` | `DisChanProofs` |
| `DisChanPromise` | `DisChan` with the order of waiting, and the `Rendezvous` that it is | `MCDisChan` | `DisChanProofs` |
| `Devmnt` | the mount driver, with a server as flush(5) has it | `MCDevmnt` | `DevmntProofs` |
| `AcmeBuffer` | `Buffer` and `Disk` as operators on one record | through `AcmeFile` | `AcmeFileProofs` |
| `AcmeFile` | a `File`, its window and the commands on them, over `AcmeBuffer` | `MCAcmeFile` | `AcmeFileProofs` |
| `History` | what undo promises: documents before and after the present one | `AcmeFile` implements it (`MCAcmeFile`) | `AcmeFileProofs` |
| `Queues` | taking elements off a queue (`cqdelp`, `mntqrm`, the loops of `exportfs.c`) | through those that use it | `QueueLemmas` |
| `QueueLemmas` | facts about `Append`, `Tail`, `\o`, `Without` and the order of queues without repetition | | itself |

State and actions correspond to the code in the same way everywhere. A variable
is a field, or a local that outlives a step, under its source's name; program
counters `pc`, `spc`, `epc` say where a thread is. What is done under a spin
lock is one action, because nothing else reads or writes what the lock
protects; where one spin lock is waited for with another held (`RWlock`,
`link` in `Exportfs`), the outer one is a variable and the section is split.
`osblock` and `osready` are `sem_wait` and `sem_post`. Each module's later
layers rely on what an earlier one establishes: `RWlock` uses QLocks that hand
over in order, `DisSched` and `Exportfs` a `Sleep` that loses no wakeup, and
`Qio` both, as `KProc` shows.

**KProc.** Procs use one QLock and one Rendez with the discipline of `qread`:
lock, sleep until the event, consume it, unlock; others signal, withdraw the
event, interrupt with `swiproc` (for `interp` true and false), or make host
system calls in which a signal handler may run at any point. `swiproc` is split
at its unlocks: the sleeping target (`swiprocSleep`), the mark (`swiprocMark`),
the host call (`swiprocHost`) and the signal (`oshostintr`).

**RWlock.** Names that `KProc` has too begin with `RW`. `rlockCount` is `readers++; canqlock(&l->k)`: it takes `k` unless
`k.use` is taken at the time, and goes on whatever happened.

**DisSched.** *Interps* are the threads that run `vmachine`; one that makes a
system call takes its Prog along in `iprog`, releases the VM and acquires it
again. *Clients* are kprocs of devices. `killprog` of another Prog and
`progexit` end in `delprog`, which releases the VM half way, so `doing[p]` says
which Prog `p` is deleting. The garbage collector runs in the VM and puts the
queues back as they were. An error in a Prog, that of an interrupted system call
too, goes to `vmachine`'s `waserror` loop: with no handler for it the Prog exits
(`progexit`); else `handler` takes `p->kill` away and `restart` begins `vmachine`'s
loop anew, `cycles` 0 and the same Prog at the head of the run queue. Any
instruction may raise an error, so the exceptions that `exprog` and `pipewrite`
leave in `p->kill` add nothing to what a Prog does.

**Exportfs.** A message that has been read is its Exq; the fields `busy`,
`finished`, `shut`, `flush` and `slave` are the code's. A freed Exq keeps its
identity, so that reaching one can be seen. The fcall itself is a step that
returns, with an error or not, Eintr for one, and may take the marks that `swiproc`
left. `swiproc(S)` sets `up->killed` of the slaves, and perhaps `up->swipend` of those
that may be in a Sleep or a host call; one that is on its way to either, or waits
for a QLock, is not interrupted. `notkilled` clears the first only, and the second
may meet the slave in its next Sleep (`SleepRwait`).
The client is external: it keeps to the rules of `flush(5)` about tags, and may
hang up whenever it has not just sent a message.

**Qio, Pipe.** A block is its bytes and the size it was allocated with; the
bytes are numbered as they are queued, so that order can be stated. `qread` is
two steps, `qremove` and `copy`, with `q->l` dropped between; `qbread` is one.
At the end of `qbwrite`, the test of `qnotfull`, the setting of `Qflow` and the
`Sleep` are three steps (`qbwriteFull`, `setflow`, `SleepWriter`). A `Wakeup`
comes after the unlock, as in the code. Eintr may be raised at any `Sleep`; the
block stays queued, as a comment at qio.c:1260 says. In `Pipe` a Proc in a read
or write holds its Chan, so that only the last unused Chan of a side ends the
stream: `EofFinal` rests on that, since a `qread` that is still
copying would put back its rest into a closed queue (qio.c:1161). The numbers of
the bytes start again when the pipe is reopened.

**DisChan.** Everything runs with the VM acquired, so an instruction is one
action: `Immediate`, `Block` and `ccom` for `isend`, `irecv`, `csend` and `crecv`,
`altcomm` and `altBlock` for `xecalt`. Only a kproc in `cblock` has let the VM go;
its steps `Sleep`, `Back`, `acquire` and `acquireError` come between those of
others, and `exprog` of such a kproc is two steps, `swiprog` and the setting of
`p->kill`. What a Prog does is a list of cases in the order of its Alt; `altrdy`'s
marking is `Marked`, and the cases it counts are `ReadyCases` before the marking,
among which `altcomm` chooses after it, as in the code. `freechan` happens when
the last reference goes, which an `alt` holds unless its channels are in an array.

**Devmnt.** What `m->l` protects is one action. `chain[p]` is `r` and its
`r->flushed`, the newest first, so `Request(p)` is the last; the labels are the
places of `mountio`: `gate` and `sleep` are before and after `m->l` is let go in the
wait for the turn, `wake` is between `mountmux`'s unlock and its `Wakeup`, `flush`
is in the handler of Eintr, `free` in `mntflushfree`. An error ends a write with or
without the message sent. The server is external: it answers requests in any
order, or never, and a flush at once (flush(5)), dropping the request if it has
not answered it.

**AcmeBuffer, AcmeFile.** The Buffer is a record with the fields of `buff.b` and
`disk.b`; each of its functions is an operator from record to record. One turn of a `while` is an
operator (`insertTurn`, `deleteTurn`, `readTurn`, the body of `Reversed`) and the loop
is a function of the number of turns; there are as many as there are runes at the
most, and a turn with nothing left to do changes nothing. An assertion or the bound of
an array is the domain of a function, so that leaving it stops TLC. The contents of a freed block are overwritten in the
model, so that a read of it shows. Commands run one after another, as the row's or
the window's lock makes them: `Execute` marks the file, `Insert` and `Delete` are
the edits of one command, `Undo` and `Redo` each undo a whole command. What is typed
(`typex`) goes to the Text's cache, `cache` at `cq0`, where `erase` may take it off
again; `Textcommit` is the edit of the File. `shown` is what the frame shows but for
the cache's runes: every other command finds the cache empty, since `Window.commit`
comes before it. `Put` of the window's own file has three outcomes, `putRefused`,
`putWrites` and `putFails`, the last of which leaves the file truncated; with the name
of another file it is `putOther`, of which the window is not told. `Get` reads the
window's own file, `getFails` none of it, or a part, and `getOther` another, after
which the window is dirty. `astray` is no state of the program: it has the
names that these last four have made different from what the window may show.

## Runs

| run | instance | what it shows |
|---|---|---|
| `kproc` | 2 Procs | `QLockExcludes`, `NoStrayToken`, `NoLostWakeup`, `SleeperWakes`, `OsleaveReturns` |
| `rwlock` | 4 Procs | `WriterAlone`, `Served`, no deadlock |
| `dissched` | 4 Interps, 1 Client, 2 Progs | `VMExclusive`, `ProgInOnePlace`, `InterpBound`, no deadlock |
| `dissched_live` | 2 Interps, 2 Clients, 2 Progs | `AcquireReturns`, `KilledDies`, `ReadyRuns` |
| `exportfs` | 1 connection, 3 messages, 3 slaves, 3 tags | `AnsweredOnce`, `FlushesInOrder`, `CompletedAnswered`, `FreedUnreached`, `RefsCounted`, `KillsHit`, `ShutDown` |
| `exportfs_live` | 2 requests and a flush, 2 slaves | `FlushAnsweredUnlocked`, `RequestTaken`, `ExportFreed` |
| `exportfs_flush` | a request, 2 flushes, 1 slave | violates `FlushAnswered` |
| `exportfs_find` | 4 messages, 3 slaves | violates `Findable` |
| `pipe` | 2 readers, 2 writers, limit 4, blocks of 2, writes of 1 and 3 | `InOrder`, `Counted`, `EofFinal`, `HangupReturns`, `WriterResumes`, no deadlock |
| `dischan` | 2 Progs and a kproc, an unbuffered channel and one of 1 value, 3 alts | `Queued`, `NoneInVain`, `NotLeftAsleep`, `KeepsPromise`, no deadlock |
| `devmnt` | 2 Procs, 4 tags | `TagsKept`, `OneReader`, `Honoured`, `Returns`, no deadlock |
| `acmefile` | 2 files, texts up to 4 runes, blocks of 2, 3 commands, 2 edits | `ShownIsHeld`, `BlocksApart`, `CleanIsSaved`, `KeepsPromise`, no deadlock |

The type invariants of `Exportfs`, `Pipe`, `DisChan`, `Devmnt` and `AcmeFile` are
conjuncts of `RefsCounted`, `Counted`, `Queued`, `TagsKept` and `ShownIsHeld`; those
of `KProc`, `RWlock` and `DisSched` are proved (`TypeOK`, and `RWTypeOK`). For every property there is an
operator in its module, named in a comment as a mutant of a definition, that
changes the definition as a plausible bug would; TLC finds the property violated
with it.

**Refinements.** `DisChanPromise` adds one history variable, the order in which Progs
have come to wait, and reads off it a state of `Rendezvous`: the offer of a waiting
Prog is the set of its cases and its value. Every step of `DisChan` is then a step
of `Rendezvous` or none, which says at once that an alt commits to one case, that
its other offers are gone, that the longest waiting is served, and that a value
goes to one receiver. `AcmeFile` is mapped to `History` by unrolling the two logs
into the documents they lead back to, so that Undo is shown to restore the very
text and name a command started from.

**Bounds.** Two Procs of `KProc` are a sleeper and one that queues, signals or
interrupts; the safety properties are proved for any number. Four Procs of `RWlock` are two readers, a writer waiting for
them and one behind it. Two Progs of `DisSched` can both be out in system calls
while a Client competes, and the fourth Interp is one more than `InterpBound`
allows. The liveness run has `Competes`: the second Prog makes no system calls,
so that two Interps suffice and none is wanted that does not exist; it has two Clients,
which can take turns. Three
messages of `Exportfs` are a request with two flushes, or a request reusing the
tag of one that was flushed; a slave for each, because `spawn` needs one to
make; `MCExportfs`'s `Late` leaves out the early taking of `killed` and `swipend`, which
nobody looks at before `notkilled` or the next `Sleep`. The limit of `Pipe` is two full blocks: with four bytes queued a writer
sleeps, and a fifth of `MaxBytes` overruns it; a write of 3 is split, and a read
of 1 leaves part of a block. `MaxBytes` is counted from the last reopening, so
the pipe is used again and again. `EofMax` is where `qwait` begins to raise
errors; `MaxRef` lets one side have a Chan closed while another stays. In
`DisChan` a kproc and two Progs on two channels are enough for an alt that waits on
both, with a partner on each; `MCDisChan`'s `Eager` lets a Prog that has only its
own affairs to end do so first, which no other Prog can tell. Four tags of `Devmnt`
are a request with two flushes and another request; `Spare` stops new RPCs and
interrupts before the tags run out, and `LowestTag` is the code's choice of a tag.
`acmefile` has two slices by what its file first holds: with "a" or nothing the text
fits in one block and is typed, put, got and renamed, with three commands, or two once
runes have been typed or a name is astray (typing, and Put and Get with an argument
or that fail, then meet an edit, a renaming and their undoing); with "bcd" it
outgrows its block, with two commands. `MaxLog` of 2 lets a command make
two edits; `Maxblock` of 2 makes every edge of a block a case.
In the
other modules no counter needs a bound: `sem`, `cycles`, `ref` and `answered`
stay finite, as the runs show.

`CHECK_DEADLOCK FALSE` in `KProc` and `Exportfs`: Procs may all wait for an
event that nobody signals, and a server whose messages have all been read and
answered stops.

**Fairness.** Weak fairness of the steps that finish what a thread has begun:
threads of the host keep running and spin locks are held for a few instructions.
Beginning an operation is never fair, nor is the return of a host system call
(`KProc`), of a system call (`DisSched`) or of an fcall (`Exportfs`), killed or
not. `DisSched` has strong fairness for `EndRun`: an instruction of
Dis ends, however often it releases the VM on the way. In `Pipe` only the steps
of a read, write or close that has begun are fair: nothing makes a Proc begin
one, and nothing need interrupt it. In `Devmnt` each Proc's own steps are fair and
so is the server's answer to that Proc's flushes, but an answer to a request is
not, nor an interrupt.

What the code does not guarantee is not assumed, but is a premise of the property:

* `InterruptsReturn`, of `KilledDies`: a kproc that is out with a killed Prog, or
  to close the files of one in `delprog`, comes back. `swiprog` is meant for
  that, but `swiproc` with `interp` set leaves no mark on a thread that is neither in
  `Sleep` nor in a host call yet (proc.c:89-117).
* `HandlersEnd`, of all three liveness properties of `DisSched`: Progs stop catching
  exceptions. And `KilledDies` says that a killed Prog dies *or* a handler of its
  own catches the error of the system call it was killed in, and with it the kill.
* `ClientsRest`, of `KilledDies` and `ReadyRuns`: time and again no Client has or wants
  the VM. `release` prefers `vmq` to `idlevmq` (dis.c:858), so that two Clients
  taking turns keep an Interp out that has yielded. `AcquireReturns` does not need it.
* `KilledReturn`, of `FlushAnsweredUnlocked` and `FlushAnswered`: an fcall that is
  killed returns. The same `swiproc` does not see to it for a slave on its way to
  a Sleep or a host call, or at a QLock.
* that fcalls return, of `RequestTaken` and `ExportFreed`.

## Findings

* `exportfs_flush`: `exflushed` returns with `fs->l` locked when it finds the
  request finished. The slave cannot take the request off the work list and the
  next flush is not answered; as `link` waits for `fs->l` with `exq.l` held,
  other Exports stop too.
* `exportfs_find`: `exflushed` and `exshutdown` unlink a request without looking
  at `exq.tail`. If it was the last of several, the next request is linked to
  freed memory and is lost.
`FlushAnsweredUnlocked`, `RequestTaken` and `ExportFreed` are stated up to
these two: they hold unless `fs->l` has been left locked or a request has been lost.

Other behaviour that the models have, or that was met while writing them, and that
no property excludes:

* `swiproc` looks at `p->syscall` and sets `swipend` under `p->sysio`; `osleave`
  takes `swipend` under `up->rlock` before it takes `sysio`. An interrupt between
  the two leaves `swipend` set after the system call, and the next `Sleep` raises
  Eintr though its event has happened (sleep(10.2): "returns immediately").
* `qwrite` splits a write at `Maxatomic` bytes and `qbwrite` takes and drops
  `q->wlock` for each block, so that another writer's block may come between,
  where qio(10) says it will not.
* `TurnLost` in `Devmnt`: a Proc that `mntgate` has woken to read is interrupted on a
  connection that then breaks, and leaves without passing the turn on; the others
  sleep until they are interrupted. `Returns` holds but for that.
* A Prog that catches an exception in every quantum keeps the VM to itself: the
  `waserror` loop of `vmachine` starts anew with `cycles` 0 and the same Prog at the
  head of the run queue (dis.c:1028-1040), where the Limbo documents say "Threads
  are preemptively scheduled" (doc/limbo/limbo.ms:3740).
* A handler takes `p->kill` away (exception.c:210): a Prog that is killed in a system
  call and catches "interrupted" lives on.
* `swiproc`, called by a flush or a hangup as its slave leaves the fcall, may leave
  `swipend` behind, which `notkilled` does not clear; `KillsHit` is about `killed`.
* After a Get of another file (acme(1):306-307) an Undo of nothing marks the window as
  clean, `f.seq` and `w.putseq` both being 0 (wind.b:336): it can be closed, or read
  again, without a word. After a Get that fails the window is empty, or
  has a part of the text, and is marked clean (text.b:349-357, exec.b:502-504). A Put to
  another file, to which Undo then brings the window back, leaves it as clean as it
  was for the old contents. `CleanIsSaved` holds but for the names of these (`astray`).
* `killcomm` and `exprog` do not reach a kproc in `cblock` that has let the VM go and
  is not yet in `Sleep`: it sleeps on, until killed.
* Undo restores `f.mod` from the log entry, so that after a Put and an Undo it is
  FALSE while the window is dirty; `Putall`, which looks at it, passes the window
  over, where acme(1) says "Write all dirty windows".

## Proofs

All proofs are for any number of processes, Progs, messages, tags, channels and
blocks. What they take from the constants is in the ASSUMEs: that names are distinct
(`ProcsAssumption`, `DisSchedAssumption`, `DevmntAssumption`,
`ExportfsAssumption`, `PipeAssumption`), that there are finitely many Procs of an
`RWlock` (`RWlockAssumption`) and Progs of `DisSched` (`DisSchedFinite`), where they are counted, that the
cases of an alt are without repetition (`DisChanAssumption`, see "Not modelled"), that
`None`, for no result, is not the number of a case (`NoneNoCase`), that `interp` is true or false (`KProcAssumption`), and that limits
and sizes are naturals (`QioAssumption`; for `AcmeFile` see below). `MaxBytes`, a bound of the
Pipe run, may be any number in the proofs.

* `LockProofs`, of `KProc`. `LockInvariant` says where every semaphore count belongs: a
  Proc with a count has been taken off `lockq` and still waits, or has been
  taken off the Rendez and still sleeps; the Procs in the section, those granted
  it and `locked` agree; `lockq` has no repetition. Mutual exclusion is not
  inductive without it, since a stray count would let a queued Proc through.
  From it follow `Exclusion`, `Tokens`, `SingleSleeper`, `KilledWoken` and, with
  the pending Wakeup, `WakeupKept`. `SignalInvariant` matches `intwait` with the
  one signal on its way (`Signalled`).
* `LockProofs`, of `RWlock`. `QueueInvariant` (who has x, who waits), `SpinInvariant` (l
  and k.use), `CountInvariant` (`readers` is the number of Procs counted in),
  then `KInvariant`: when a reader tries k, it holds x, so no writer is between
  x and k and `k.use` can only be held by a reader that is opening k with l held.
  That is why ignoring `canqlock`'s result is safe (`Closed`, `WriterExclusion`).
* `DisSchedProofs`. `VMInvariant` relates `idle`, the two queues, the semaphores
  and the program counters: the number of holders and grants is one, or none
  when `idle`. `RunInvariant` adds the run queue: whose Prog is at its head.
  `Exclusion`, `Kept`, `HeadKept`, `WakeupKept` and `TypeCorrect` follow.
  `PlacesInvariant` adds the Progs that nobody has: `InPlace` says that the state of
  a Prog names its place, which a Prog on the run queue twice, or with two Interps,
  would contradict later; `Deleting` says how far a kproc is in `delprog` of which
  Prog, since the VM changes hands in the middle of it. From both follows `OnePlace`.
  For `BoundKept`, when `release` makes an Interp nobody rests or waits for the VM, so
  that every Interp there is has gone out with a Prog of its own (`AllOut`); and one
  is made at a time (`MadeInv`).
* `DevmntProofs`. `Place` says what each action does to its own Proc's place and to
  `m->rip`, and `Moves` that the others at most wake from their sleep (`mntgate`,
  `mountmux`). With the types of both, `OneReader` is then inductive
  (`OneReaderKept`). `Owned`, that chains of headers have no repetition and nothing
  in common and are empty only between RPCs, is inductive because `mntralloc` hands
  out what is in no chain; from it no two Procs sleep on one Rendez
  (`HeadersOwned`), on which `Sleep` would panic.
  `TagsKept` is not inductive: that the server has one message with a tag at most
  rests on what the Proc that has the tag is doing. `Live` says it of a connection
  that is up: every message sent or answered is that of a header in the queue and in
  its sender's chain; what is not the request flushes it (`Olds`); the newest message of a Proc is its
  last on the way there and back (`Latest`), so that nothing is on its way when that
  is answered (`Over`); a header whose message has not been written yet is not with
  the server (`Unsent`). `NoStaleReply` follows. `ServedInv` adds what the server has
  carried out: `Known`, that the reply to a request that has been served is in its
  header or on its way, and `Coming`, that on a connection that has hung up, where
  what the server had answered is still read, nothing else comes for a Proc; from them
  `ReplyHonoured`.
* `DisChanProofs`. `NotLeftAsleep` is inductive with the types of `pc`, `addrunset` and
  `kill`: a step either puts nobody to sleep and leaves the sleepers' marks alone
  (`Harmless`), or wakes whom it marks, or is `Sleep` itself, which looks at both.
  `ChanQueued`: `WaitInv` is `Queued` and that a Prog in `send`, `recv` or `cblock`
  has one case. Steps are of three kinds: those that end the wait of some Progs and
  take them off all their queues, those that begin the wait of one, and those that
  leave the waiters alone. `ChanNoneInVain` is inductive with it: a Prog that begins to
  wait has seen that none of its cases is possible, and `altcomm` and the rest, which
  make room or bring a value, serve the queue they do it for.
  `ChanKeepsPromise` is the refinement of `Rendezvous`, of every step of
  `DisChanPromise`. `LineInv` adds to the two invariants that the order lists the
  waiting Progs (`InOrder`), that every queue has them in that order (`Agreed`), so that
  the first of a queue made the first offer of its case, that who has a result waits no
  more (`Results`), and that buffers keep to their length (`Fits`). Then each action is
  one of `Rendezvous`: communication is `Meet`, `Put` or `Get`, where `NoneInVain`
  says that a receiver that waits means an empty buffer and a sender a full one; the
  start of a wait is `Wait`; kills and exceptions are `Withdraw` or `Forget`,
  `freechan` is `Hangup`, and the steps of kprocs in `cblock` are none.
* `ExportfsProofs`. `Inv` says where an Exq can be. `Placed` has a part for each place:
  the list of `exq`, the work list, the hand of `exportproc` or of a slave, the flush
  queue of another, and for each who has the locks that lead there. It says that each
  Exq that lives is in one of these places, and from it no list leads to one that has been
  freed (`ExqFreedUnreached`), and a shut Export's requests are all accounted for
  (`ExportShutDown`). On top of it: `Kills` (`ExKillsHit`), that `swiproc` runs under
  `fs->l` with the slave still at the request; `Completed` (`ExCompletedAnswered`);
  `Counted` (`ExRefsCounted`), that each step that frees an Exq drops one reference
  and the last one ends the Export; and `Once` (`ExAnsweredOnce`). This last is where
  the rules of `flush(5)` come in: `Tagged` is what the client keeps to, `Passed` what
  `exflushed` has established when it goes from the list of `exq` to the work list
  and to its own reply, `Alone` that a flush which waits for a slave's request keeps
  any other request with the tag away. `Ordered` (`ExFlushesInOrder`) follows the
  flushes in the order they were read: by `Heard` each that is not answered is with
  `exportproc` or waits for a request, by `Foremost` that request is the first on
  the work list with its tag, so that `exflushed` queues the next flush of the tag
  behind it, and by `Emptied` it never finds it finished; `Ranked` is then kept by
  every step, `exslave` taking the flushes from the front. The flaws that the runs
  expose (`exq.tail` left at an Exq that is freed, `fs->l` left locked) do not break it.
* `PipeProofs`. `PipeInv` has five parts. `Holds` is about `q->rlock` and `q->wlock`:
  in the same way on both sides (`Side`), one Proc is past the lock, it is the head of
  the lock's queue, and it is the only one that may be at the Rendez; hence only it
  has a block in hand. `Data` says that the blocks are `Counted`, and that the hand
  and the queue together hold the bytes `got + 1 .. sent` (`Streamed`): only the holder
  of `rlock` takes from the front, or puts back there, and only the holder of `wlock`
  adds at the end. `Referred`, that a Proc in a read or write keeps its side of the
  pipe open, and `Ended`, what a queue that has ended is, give `PipeEofFinal`.
  `PipeCounted` and `PipeInOrder` read off `Data`.

* `AcmeFileProofs`, from the bottom up. *The disk*: `Disk` says that the addresses of
  the blocks tile the temporary file (`Tiled`) and that each free list has those of its
  size, once each; `Chain` that the blocks in use are the Buffer's, in the room their
  lengths need. `Disk.new`, `release` and `write` keep both, whichever of the
  places a block is given. *The text*: `Text` says that there are places `st` in the
  text, in order, such that block i holds what is between `st[i]` and the next, but for
  the cached block, whose part is in the cache, and that a cache that is not dirty is
  what the disk has. `flush`, `seek` and each turn of `insert`, `delete` and
  `read` are shown to go from a Buffer that `Holds` one text to one that holds that
  text, or the text spliced, with every case of a split, an edge, a new and an emptied
  block; `Iterates`, for functions such as the loops are, makes the whole
  operation of that. `Holds` gives `ShownIsHeld` and `BlocksApart` (`ShownHeld`,
  `Apartness`).
  *The logs*: neither `CleanIsSaved` nor the promise of undo is inductive, since what
  Undo will find is nowhere in the state but in the entries. `Remembers` says what the
  entries mean: there is a line of documents `docs[0] .. docs[N]`, with the number of
  the command that led to each, in order, such that each entry of `delta` leads back
  from one to the one before and each of `epsilon` forward (`Line`), and `f.seq` is the
  number of the document that the file is at, or of a later command that has not changed it;
  and of every document at which Undo or Redo can stop with the number of
  `w.putseq`, that its text is in the file of its name (`Safe`), but for the names that are astray. Undo and Redo move
  along that line and keep it, a command cuts it off behind the file, and a Put makes
  `Safe` true at one place, where `Marked`, that a command which is still editing is
  later than the last Put, keeps it. The inductive invariant is
  `FileInv == FileOK /\ Remembers /\ Marked /\ Clean`, with `Typing` beside it: the runes in
  the cache are part of a command, and find their place in the text. `Clean` is what
  of `CleanIsSaved` is inductive; it gives that (`CleanSaved`).
  *The refinement*, `Promised`: for a line of documents, `Documents` of a log is the
  list of those before the first entry of each command (`DocumentsFacts`). An edit
  makes it one longer when the command has not logged anything before, and else
  leaves it (`Adds`); what Undo takes off one log and writes on the other moves
  one document from the end of `past` to the front of `future` (`Moved`), and Redo
  moves one back. Each action of `AcmeFile` is then one of `History`, or `Rest`. Texts, names,
  blocks and bounds are any that `BufferAssumption` and `FileAssumption` allow: that
  `Maxblock` is a multiple of `Blockincr`, as in `disk.b`, that no string inserted is
  longer than `MaxText`, and that `None`, for no file, is no text.

Induction over data is out of the prover's reach as the library has it, as theorems
with an operator for a parameter. `Without`, the `Whole` of a queue's blocks and the
loops of `AcmeBuffer` and `AcmeFile` are recursive functions all the same, and what the
proofs need to know of them is proved by the least length, or the first turn, for
which it would be false (`Least` in `QueueLemmas`, from `NatLessThanWellFounded`; `Steps`
and `Iterates` in `AcmeFileProofs`).

Every safety property of a passing run, and both refinements, are theorems. Proved
nowhere and only model-checked is liveness, which needs ENABLED and fairness and is out
of the prover's reach: `SleeperWakes`, `OsleaveReturns`, `Served`, `AcquireReturns`,
`KilledDies`, `ReadyRuns`, `FlushAnsweredUnlocked`, `RequestTaken`, `ExportFreed`,
`HangupReturns`, `WriterResumes` and `Returns`; and so is the absence of deadlocks.

## Not modelled

Timers (`tsleep`), `kproc` and `pexit`; exceptions propagated between
Progs (`propex`), process groups, broken and debugged Progs; the kills that
`pipewrite` sets on the Prog of a failed write, without the VM (devpipe.c:341-349),
and the raising of a kill as a built-in function returns (`rmcall`, xec.c:794), where the
model raises it when the Prog next runs; the fcalls of the 9P server
and its fid table; message mode, coalescing, `Qnoblock` and kicks of queues, and
the calls that do not block (`qproduce`, `qconsume`, `qget`, `qpass`); attach,
walk and stat of pipes; an alt with a channel twice in one direction, one that
meets itself, and an array of channels changed while an alt waits on it; the
mount driver's version and authentication, and its running out of tags; Acme's
edit log, directories, a Put of a part of the text, a File in several windows, Files
undone together, edits that do not mark the file, and commands through a window's ctl
and event files (xfid.b:650-770), which do not commit the typing cache: "get" then
stops with `error("text.load")` (text.b:345) and "put" leaves the runes out; weak memory order (flags read without their lock, such as
`up->intwait` and `exq.qwait.head`, are read atomically at one point). Parts
with status `not_modelled` in `PROJECT.json` give their reason there.

## Plan

Done, in this order: `KProc`, `RWlock`, `DisSched` with proofs, `Exportfs`,
`Qio` and `Pipe`; then `DisChan` with `Rendezvous`, `Devmnt`, `AcmeBuffer` and
`AcmeFile` with `History`, and the proofs: every safety property of a run
and both refinements are theorems. Next, the most used first:

1. `Exportfs`: the fcalls and the fid table; `exportproc`'s return from a
   synchronous export.
2. `Devsrv` and Acme's Xfid flush: requests of kprocs served by Progs that may go.
3. `Vcgc`: the collector against mutators: nothing reachable is freed, garbage
   is in the end.
4. `Qio`: message mode and the calls that do not block; an abstract bounded FIFO
   that can be closed, which it refines.
5. `Devmnt` over `Pipe` to `Exportfs`: client and server of this tree together, in
   place of the external server.
