------------------------------ MODULE DisSched ------------------------------
(***************************************************************************)
(* The scheduler of the Dis virtual machine, emu/port/dis.c: one virtual   *)
(* machine, any number of host threads that want it.  Interps are the      *)
(* kprocs that run vmachine; a Prog that makes a system call takes its     *)
(* Interp along and lets the VM go meanwhile (release, then acquire), and  *)
(* release makes another Interp when none is at hand.  Clients are kprocs  *)
(* of the devices, which acquire the VM for a while to touch Progs.        *)
(*                                                                         *)
(* A critical section of isched.l is one action, as is what the holder of  *)
(* the VM does alone with the run queue.  Sleep and Wakeup on isched.irend *)
(* and the semaphores behave as KProc establishes; up->prog of a Client is *)
(* identified with the Client.  Garbage collection runs inside the VM and  *)
(* leaves the queues as they were; it is left out.                         *)
(***************************************************************************)
EXTENDS Naturals, Sequences, FiniteSets, SequencesExt

CONSTANTS Interps,   \* the kprocs that run, or may come to run, vmachine
          Clients,   \* the other kprocs that acquire the VM
          Progs,     \* the Dis threads
          None

Procs == Interps \cup Clients

ASSUME DisSchedAssumption == /\ Interps \cap Clients = {}
                             /\ Progs \cap Procs = {}
                             /\ None \notin Procs \cup Progs

\* Progs are held in memory; the bound on the Interps counts them.
ASSUME DisSchedFinite == IsFiniteSet(Progs)

VARIABLES pc,        \* pc[p]: what kproc p is doing
          sem,       \* sem[p]: the count of p->os->sem
          idle,      \* isched.idle: nobody has the VM
          creating,  \* isched.creating
          vmq,       \* isched.vmq .. isched.vmqt: procs wanting the VM
          idlevmq,   \* isched.idlevmq: procs wanting work, last in first out
          irend,     \* isched.irend.p
          runq,      \* isched.runhd .. isched.runtl
          state,     \* state[q]: p->state of the Prog q ("dead": freed)
          kill,      \* the Progs with p->kill set
          iprog,     \* iprog[i]: up->iprog of the Interp i
          r,         \* r[i]: vmachine's local r while it runs r->xec
          cycles,    \* cycles[i]: vmachine's local
          doing      \* doing[p]: the Prog that p is deleting (delprog)

sched == <<idle, creating, vmq, idlevmq>>
progs == <<runq, state, kill>>
locals == <<iprog, r, cycles, doing>>
vars == <<pc, sem, irend, sched, progs, locals>>

Labels == {"none", "startup", "parked", "loop", "asleep", "dispatch", "yielded", "run",
           "raise", "handled", "out", "rel", "wakeup", "vmwait", "in", "halt"}

\* An Interp that has just been made by disinit has the VM and the first Prog.
Init == \E i \in Interps, q \in Progs :
    /\ pc = [p \in Procs |-> IF p = i THEN "loop" ELSE IF p \in Clients THEN "out" ELSE "none"]
    /\ sem = [p \in Procs |-> 0]
    /\ idle = FALSE /\ creating = FALSE
    /\ vmq = << >> /\ idlevmq = << >>
    /\ irend = None
    /\ runq = <<q>>
    /\ state = [x \in Progs |-> IF x = q THEN "ready" ELSE "dead"]
    /\ kill = {}
    /\ iprog = [j \in Interps |-> None]
    /\ r = [j \in Interps |-> None]
    /\ cycles = [j \in Interps |-> 0]
    /\ doing = [p \in Procs |-> None]

Goto(p, from, to) == /\ pc[p] = from
                     /\ pc' = [pc EXCEPT ![p] = to]

osready(p) == sem' = [sem EXCEPT ![p] = @ + 1]

osblock(p) == /\ sem[p] > 0
              /\ sem' = [sem EXCEPT ![p] = @ - 1]

\* The Prog that a kproc runs in the VM: its current Dis Prog, or its own.
Mine(p) == IF p \in Interps THEN iprog[p] ELSE p

\* Where a kproc goes on when it has acquired the VM.
Inside(p) == IF p \in Interps THEN "run" ELSE "in"

-----------------------------------------------------------------------------
(* acquire.                                                                *)

\* Mutant of Resume: up->iprog is kept.
ResumeTwice(p) == /\ runq' = <<Mine(p)>> \o runq
                  /\ state' = [q \in Progs |-> IF q = Mine(p) THEN "ready" ELSE state[q]]
                  /\ UNCHANGED iprog

\* The end of acquire, with the VM: up's Prog goes to the head of the run queue.
Resume(p) == /\ runq' = <<Mine(p)>> \o runq
             /\ state' = [q \in Progs |-> IF q = Mine(p) THEN "ready" ELSE state[q]]
             /\ iprog' = [i \in Interps |-> IF i = p THEN None ELSE iprog[i]]

acquireIdle(p) == /\ idle
                  /\ idle' = FALSE
                  /\ Goto(p, "out", Inside(p))
                  /\ Resume(p)
                  /\ UNCHANGED <<sem, irend, creating, vmq, idlevmq, kill, r, cycles, doing>>

\* Mutant of acquireQueue: nobody wakes the holder.
acquireQueueQuiet(p) == /\ ~idle
                        /\ vmq' = Append(vmq, p)
                        /\ Goto(p, "out", "vmwait")
                        /\ UNCHANGED <<sem, irend, idle, creating, idlevmq, progs, locals>>

\* Only the first in the queue goes on to wake the holder of the VM.
acquireQueue(p) == /\ ~idle
                   /\ vmq' = Append(vmq, p)
                   /\ Goto(p, "out", IF vmq = << >> THEN "wakeup" ELSE "vmwait")
                   /\ UNCHANGED <<sem, irend, idle, creating, idlevmq, progs, locals>>

acquireWakeup(p) == /\ Goto(p, "wakeup", "vmwait")
                    /\ irend' = None
                    /\ IF irend # None THEN osready(irend) ELSE UNCHANGED sem
                    /\ UNCHANGED <<sched, progs, locals>>

acquireGranted(p) == /\ osblock(p)
                     /\ Goto(p, "vmwait", Inside(p))
                     /\ Resume(p)
                     /\ UNCHANGED <<irend, sched, kill, r, cycles, doing>>

-----------------------------------------------------------------------------
(* release.                                                                *)

\* isave() or delrun(Prelease), by the holder of the VM: the head of the run
\* queue leaves it, whosever it is.
Save(p) == /\ pc' = [pc EXCEPT ![p] = "rel"]
           /\ runq' = Tail(runq)
           /\ state' = [q \in Progs |-> IF q = Head(runq) THEN "release" ELSE state[q]]
           /\ iprog' = [i \in Interps |-> IF i = p THEN Head(runq) ELSE iprog[i]]

releaseSave(p) == /\ pc[p] = Inside(p)
                  /\ doing[p] = None
                  /\ Save(p)
                  /\ UNCHANGED <<sem, irend, sched, kill, r, cycles, doing>>

\* Hand the VM to a proc that wants it, else to one that wants work, else
\* leave it idle and see that a new Interp is on its way.
releaseHand(p) ==
    /\ pc[p] = "rel"
    /\ \/ /\ vmq # << >>
          /\ osready(Head(vmq))
          /\ vmq' = Tail(vmq)
          /\ pc' = [pc EXCEPT ![p] = "out"]
          /\ UNCHANGED <<idle, creating, idlevmq>>
       \/ /\ vmq = << >> /\ idlevmq # << >>
          /\ osready(Head(idlevmq))
          /\ idlevmq' = Tail(idlevmq)
          /\ pc' = [pc EXCEPT ![p] = "out"]
          /\ UNCHANGED <<idle, creating, vmq>>
       \/ /\ vmq = << >> /\ idlevmq = << >>
          /\ idle' = TRUE /\ creating' = TRUE
          /\ IF creating
             THEN pc' = [pc EXCEPT ![p] = "out"]
             ELSE \E i \in Interps : /\ pc[i] = "none"
                                     /\ pc' = [pc EXCEPT ![p] = "out", ![i] = "startup"]
          /\ UNCHANGED <<sem, vmq, idlevmq>>
    /\ UNCHANGED <<irend, progs, locals>>

-----------------------------------------------------------------------------
(* vmachine.                                                               *)

\* Mutant of startup: it does not say that the VM is taken.
startupSilent(i) == /\ creating' = FALSE
                    /\ idle
                    /\ Goto(i, "startup", "loop")
                    /\ UNCHANGED <<sem, irend, idle, vmq, idlevmq, progs, locals>>

startup(i) == /\ creating' = FALSE
              /\ IF idle
                 THEN /\ idle' = FALSE
                      /\ Goto(i, "startup", "loop")
                      /\ UNCHANGED idlevmq
                 ELSE /\ idlevmq' = <<i>> \o idlevmq
                      /\ Goto(i, "startup", "parked")
                      /\ UNCHANGED idle
              /\ UNCHANGED <<sem, irend, vmq, progs, locals>>

startupGranted(i) == /\ osblock(i)
                     /\ Goto(i, "parked", "loop")
                     /\ UNCHANGED <<irend, sched, progs, locals>>

tready == runq # << >> \/ vmq # << >>

\* The top of the loop: Sleep on irend while there is nothing to do.
SleepPass(i) == /\ tready
                /\ Goto(i, "loop", "dispatch")
                /\ UNCHANGED <<sem, irend, sched, progs, locals>>

SleepBlock(i) == /\ ~tready
                 /\ irend' = i
                 /\ Goto(i, "loop", "asleep")
                 /\ UNCHANGED <<sem, sched, progs, locals>>

SleepWoken(i) == /\ osblock(i)
                 /\ Goto(i, "asleep", "dispatch")
                 /\ UNCHANGED <<irend, sched, progs, locals>>

\* isched.vmq != nil && (isched.runhd == nil || ++cycles > 2)
MustYield(i) == vmq # << >> /\ (runq = << >> \/ cycles[i] + 1 > 2)

\* Mutant of iyield: the Interp does not queue for work.
iyieldForgotten(i) == /\ MustYield(i)
                      /\ osready(Head(vmq))
                      /\ vmq' = Tail(vmq)
                      /\ Goto(i, "dispatch", "yielded")
                      /\ UNCHANGED <<irend, idle, creating, idlevmq, progs, locals>>

iyield(i) == /\ MustYield(i)
             /\ osready(Head(vmq))
             /\ vmq' = Tail(vmq)
             /\ idlevmq' = <<i>> \o idlevmq
             /\ Goto(i, "dispatch", "yielded")
             /\ UNCHANGED <<irend, idle, creating, progs, locals>>

\* Mutant of RunHead: xec clears the kill of a Prog and goes on with it.
RunHeadDeaf(i, from) ==
    /\ IF runq # << >>
       THEN /\ r' = [r EXCEPT ![i] = Head(runq)]
            /\ kill' = kill \ {Head(runq)}
            /\ Goto(i, from, "run")
       ELSE /\ Goto(i, from, "loop")
            /\ UNCHANGED <<r, kill>>
    /\ UNCHANGED <<irend, runq, state, iprog, doing>>

\* r = isched.runhd: run it, or go round again.  xec begins by raising, and
\* clearing, the kill of a Prog that has been killed.
RunHead(i, from) ==
    /\ IF runq # << >>
       THEN /\ r' = [r EXCEPT ![i] = Head(runq)]
            /\ kill' = kill \ {Head(runq)}
            /\ Goto(i, from, IF Head(runq) \in kill THEN "raise" ELSE "run")
       ELSE /\ Goto(i, from, "loop")
            /\ UNCHANGED <<r, kill>>
    /\ UNCHANGED <<irend, runq, state, iprog, doing>>

iyieldGranted(i) == /\ osblock(i)
                    /\ RunHead(i, "yielded")
                    /\ cycles' = [cycles EXCEPT ![i] = 0]
                    /\ UNCHANGED sched

Dispatch(i) == /\ ~MustYield(i)
               /\ RunHead(i, "dispatch")
               /\ cycles' = [cycles EXCEPT ![i] = IF vmq # << >> /\ runq # << >> THEN @ + 1 ELSE @]
               /\ UNCHANGED <<sem, sched>>

\* Mutant of Quantum: r stays at the head.
QuantumStays(i) == /\ Goto(i, "run", "loop")
                   /\ doing[i] = None
                   /\ r' = [r EXCEPT ![i] = None]
                   /\ UNCHANGED <<sem, irend, sched, progs, iprog, cycles, doing>>

\* xec returns with r still at the head: r goes to the tail.
Quantum(i) == /\ Goto(i, "run", "loop")
              /\ doing[i] = None
              /\ runq' = IF Head(runq) = r[i] THEN Append(Tail(runq), r[i]) ELSE runq
              /\ r' = [r EXCEPT ![i] = None]
              /\ UNCHANGED <<sem, irend, sched, state, kill, iprog, cycles, doing>>

\* r blocks on a channel: delrun.  A Prog is killed only in the middle of a
\* system call, an instruction that does not.
Block(i) == /\ Goto(i, "run", "loop")
            /\ doing[i] = None
            /\ Head(runq) \notin kill
            /\ state' = [state EXCEPT ![Head(runq)] = "blocked"]
            /\ runq' = Tail(runq)
            /\ r' = [r EXCEPT ![i] = None]
            /\ UNCHANGED <<sem, irend, sched, kill, iprog, cycles, doing>>

\* An error is raised in r, that of an interrupted system call too, and a handler
\* of r's catches it: a kill that has not been raised yet is lost with it.
handler(i) == /\ Goto(i, "run", "handled")
              /\ doing[i] = None
              /\ kill' = kill \ {Head(runq)}
              /\ r' = [r EXCEPT ![i] = None]
              /\ cycles' = [cycles EXCEPT ![i] = 0]
              /\ UNCHANGED <<sem, irend, sched, runq, state, iprog, doing>>

\* vmachine starts anew, with the Prog still at the head of the run queue.
restart(i) == /\ Goto(i, "handled", "loop")
              /\ UNCHANGED <<sem, irend, sched, progs, locals>>

-----------------------------------------------------------------------------
(* What the holder of the VM, Interp or Client, does to the Progs.         *)

InVM(p) == pc[p] = Inside(p) /\ doing[p] = None

\* addrun of a blocked Prog; or newprog, which only a Prog calls.
addrun(p, q) == /\ InVM(p)
                /\ state[q] = "blocked" \/ (state[q] = "dead" /\ p \in Interps)
                /\ runq' = Append(runq, q)
                /\ state' = [state EXCEPT ![q] = "ready"]
                /\ UNCHANGED <<pc, sem, irend, sched, kill, locals>>

\* killprog of a Prog in a system call: mark it, and interrupt its Interp.
killReleased(p, q) == /\ InVM(p)
                      /\ state[q] = "release"
                      /\ state' = [state EXCEPT ![q] = "exiting"]
                      /\ kill' = kill \cup {q}
                      /\ UNCHANGED <<pc, sem, irend, sched, runq, locals>>

\* killprog of the caller itself: the kill is raised when it next runs.
killSelf(i) == /\ pc[i] = "run" /\ doing[i] = None
               /\ state' = [state EXCEPT ![Head(runq)] = "exiting"]
               /\ kill' = kill \cup {Head(runq)}
               /\ UNCHANGED <<pc, sem, irend, sched, runq, locals>>

\* killprog of any other: take it off the queues and delete it.  delprog
\* releases the VM half way, and with it the killer's own Prog.
killprog(p, q) == /\ InVM(p)
                  /\ q # Head(runq)
                  /\ \/ /\ state[q] = "blocked"
                        /\ runq' = Tail(runq)
                     \/ /\ state[q] = "ready"
                        /\ \E n \in 1 .. Len(runq) - 1 :
                              Tail(runq)[n] = q /\ runq' = RemoveAt(Tail(runq), n)
                  /\ pc' = [pc EXCEPT ![p] = "rel"]
                  /\ doing' = [doing EXCEPT ![p] = q]
                  /\ state' = [x \in Progs |-> CASE x = q          -> "exiting"
                                                 [] x = Head(runq) -> "release"
                                                 [] OTHER          -> state[x]]
                  /\ iprog' = [i \in Interps |-> IF i = p THEN Head(runq) ELSE iprog[i]]
                  /\ UNCHANGED <<sem, irend, sched, kill, r, cycles>>

\* progexit of the running Prog: delprog, which releases the VM half way.
progexit(i) == /\ pc[i] \in {"run", "raise"}
               /\ doing[i] = None
               /\ Save(i)
               /\ doing' = [doing EXCEPT ![i] = Head(runq)]
               /\ UNCHANGED <<sem, irend, sched, kill, r, cycles>>

\* The rest of delprog, with the VM again.  After progexit vmachine starts anew,
\* but for the last Prog's, which ends the program.
Halt == [p \in Procs |-> "halt"]

delprog(p) == /\ pc[p] = Inside(p)
              /\ doing[p] # None
              /\ state' = [state EXCEPT ![doing[p]] = "dead"]
              /\ kill' = kill \ {doing[p]}
              /\ doing' = [doing EXCEPT ![p] = None]
              /\ IF doing[p] = Head(runq)
                 THEN /\ runq' = Tail(runq)
                      /\ pc' = IF \A q \in Progs \ {doing[p]} : state[q] = "dead"
                               THEN Halt
                               ELSE [pc EXCEPT ![p] = "loop"]
                      /\ r' = [r EXCEPT ![p] = None]
                      /\ cycles' = [cycles EXCEPT ![p] = 0]
                 ELSE UNCHANGED <<runq, pc, r, cycles>>
              /\ UNCHANGED <<sem, irend, sched, iprog>>

-----------------------------------------------------------------------------
\* The kproc that is out in a system call comes back, or a Client comes along.
acquire(p) == acquireIdle(p) \/ acquireQueue(p)

\* What a kproc does without being asked.
Progress(p) == \/ acquireWakeup(p) \/ acquireGranted(p)
               \/ releaseHand(p) \/ delprog(p)

Advance(i) == \/ startup(i) \/ startupGranted(i)
              \/ SleepPass(i) \/ SleepBlock(i) \/ SleepWoken(i)
              \/ iyield(i) \/ iyieldGranted(i) \/ Dispatch(i) \/ restart(i)

\* The Prog's instruction ends.
EndRun(i) == Quantum(i) \/ Block(i) \/ handler(i) \/ progexit(i)

Next == \/ \E p \in Procs : \/ acquire(p) \/ Progress(p) \/ releaseSave(p)
                            \/ \E q \in Progs : \/ addrun(p, q)
                                                \/ killReleased(p, q) \/ killprog(p, q)
        \/ \E i \in Interps : Advance(i) \/ EndRun(i) \/ killSelf(i)
        \/ pc = Halt /\ UNCHANGED vars

Spec == Init /\ [][Next]_vars

\* Host threads keep running, a Client lets the VM go in the end, and an
\* instruction ends, however often it releases the VM before.  Nothing says that
\* a system call returns, killed Prog or not.
Fairness == /\ \A p \in Procs : WF_vars(Progress(p))
            /\ \A c \in Clients : WF_vars(releaseSave(c))
            /\ \A i \in Interps : /\ WF_vars(Advance(i))
                                  /\ SF_vars(EndRun(i))

FairSpec == Spec /\ Fairness

-----------------------------------------------------------------------------
TypeOK == /\ pc \in [Procs -> Labels]
          /\ sem \in [Procs -> Nat]
          /\ idle \in BOOLEAN /\ creating \in BOOLEAN
          /\ vmq \in Seq(Procs) /\ idlevmq \in Seq(Interps)
          /\ irend \in Interps \cup {None}
          /\ runq \in Seq(Progs \cup Clients)
          /\ state \in [Progs -> {"ready", "blocked", "release", "exiting", "dead"}]
          /\ kill \subseteq Progs
          /\ iprog \in [Interps -> Progs \cup {None}]
          /\ r \in [Interps -> Progs \cup {None}]
          /\ cycles \in [Interps -> 0 .. 2]
          /\ doing \in [Procs -> Progs \cup {None}]

\* p runs in the VM, or in the part of vmachine and release that needs it.
Holder(p) == pc[p] \in {"loop", "asleep", "dispatch", "run", "raise", "handled", "in", "rel"}

\* The VM has been handed to p, which has yet to notice.
Granted(p) == pc[p] \in {"parked", "yielded", "wakeup", "vmwait"} /\ sem[p] > 0

\* One kproc at a time is in the virtual machine.  All of Dis's state, the
\* registers R included, has no other lock.
VMExclusive == \A p, q \in Procs : Holder(p) /\ Holder(q) => p = q

\* The VM is never lost: it is idle, or one kproc has it or is to have it; and
\* when it is idle an Interp that will take it is starting.
VMNotLost == pc # Halt => /\ idle <=> ~\E p \in Procs : Holder(p) \/ Granted(p)
                          /\ idle => \E i \in Interps : pc[i] = "startup"

\* A kproc in the VM has its own Prog at the head of the run queue, which is
\* what release takes off it and what xec's caller compares r with.
HeadIsMine == /\ \A i \in Interps : pc[i] \in {"run", "raise"} =>
                                       runq # << >> /\ Head(runq) = r[i]
              /\ \A c \in Clients : pc[c] = "in" => runq # << >> /\ Head(runq) = c

\* A Prog is on the run queue once if ready; with one Interp, out in a system
\* call or on the way back from one, if released; and deleted by one kproc at
\* most, never while it is elsewhere.
Places(q) == {<<"runq", n>> : n \in {n \in 1 .. Len(runq) : runq[n] = q}}
                \cup {<<"iprog", i>> : i \in {i \in Interps : iprog[i] = q}}
ProgInOnePlace ==
    \A q \in Progs :
        /\ Cardinality(Places(q)) <= 1
        /\ state[q] = "ready" => \E n \in 1 .. Len(runq) : runq[n] = q
        /\ state[q] \in {"blocked", "dead"} => Places(q) = {}
        /\ state[q] = "release" => \E i \in Interps : iprog[i] = q
        /\ \A p1, p2 \in Procs : doing[p1] = q /\ doing[p2] = q => p1 = p2

\* A holder of the VM asleep for want of work is woken when some comes: no
\* Wakeup is lost between the check of the queue and the sleep.
NoLostWakeup == \A i \in Interps :
    pc[i] = "asleep" /\ sem[i] = 0 /\ tready => \E p \in Procs : pc[p] = "wakeup"

\* Interps are made on demand and never go away; there is never more than one
\* for each Prog, out in a system call, and one to run the rest.
InterpBound ==
    pc # Halt => Cardinality({i \in Interps : pc[i] # "none"}) <= Cardinality(Progs) + 1

\* Progs stop catching exceptions.  vmachine starts anew after each, with the
\* same Prog at the head of the run queue and cycles 0: one Prog that catches an
\* exception in every quantum keeps the VM to itself.
HandlersEnd == <>[](\A i \in Interps : pc[i] # "handled")

\* acquire returns: if Progs stop catching exceptions, whoever queues for the VM
\* gets it.
AcquireReturns ==
    HandlersEnd => \A p \in Procs :
        pc[p] \in {"wakeup", "vmwait"} ~> pc[p] = Inside(p) \/ pc = Halt

\* A kproc that is out with a killed Prog, or to close the files of one, comes
\* back.  swiproc does not see to it: it leaves no mark on a kproc that is
\* neither asleep nor in the host's system call yet.
InterruptsReturn ==
    \A p \in Procs :
        []<>~(pc[p] = "out" /\ (doing[p] # None \/ (p \in Interps /\ iprog[p] \in kill)))

\* Time and again no Client has or wants the VM.  release prefers those to the
\* Interps that want work: two Clients that take turns keep every Prog out.
ClientsRest == []<>(\A c \in Clients : pc[c] = "out")

\* If system calls return when their Prog is killed, Clients let the Progs run and
\* these stop catching exceptions, a killed Prog dies, or a handler of its own
\* caught the error that the kill raised in its system call.
KilledDies ==
    InterruptsReturn /\ ClientsRest /\ HandlersEnd => \A q \in Progs :
        q \in kill ~> \/ state[q] = "dead"
                      \/ \E i \in Interps : pc[i] = "handled" /\ Head(runq) = q

\* A ready Prog is run, or killed, if Clients let the Progs run and these stop
\* catching exceptions.
ReadyRuns ==
    ClientsRest /\ HandlersEnd => \A q \in Progs :
        state[q] = "ready" ~> \/ state[q] # "ready"
                              \/ \E i \in Interps : pc[i] = "run" /\ r[i] = q
=============================================================================
