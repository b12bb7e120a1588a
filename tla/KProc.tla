------------------------------- MODULE KProc -------------------------------
(***************************************************************************)
(* The synchronisation primitives every kernel process (Proc) of emu uses: *)
(* the queueing lock of emu/port/lock.c, and Sleep, Wakeup and swiproc of  *)
(* emu/port/proc.c, all of which block and unblock a Proc through the one  *)
(* semaphore of its Osdep (emu/port/kproc-pthreads.c).                     *)
(*                                                                         *)
(* The clients are those of a one-reader-at-a-time event, the discipline   *)
(* of qread (emu/port/qio.c): take the QLock, Sleep on the Rendez until    *)
(* the event has happened, consume it, release the QLock.  Any Proc may    *)
(* also signal the event, withdraw it, make an interruptible host system   *)
(* call (osenter/osleave), or interrupt another Proc.                      *)
(*                                                                         *)
(* A critical section of a spin lock (q->use, r->l, p->rlock, p->sysio) is *)
(* one action: all it reads and writes is protected by that lock or is     *)
(* private to the Proc.  Sleep's first half holds up->rlock throughout and *)
(* r->l around the test; the code between the two unlocks touches only     *)
(* fields that Wakeup neither reads nor writes.                            *)
(***************************************************************************)
EXTENDS Processes, Naturals, Sequences

CONSTANT Interps      \* the values of swiproc's argument interp its callers pass

ASSUME KProcAssumption == Interps \subseteq BOOLEAN

VARIABLES pc,         \* pc[p]: what Proc p is doing
          sem,        \* sem[p]: the count of p->os->sem
          locked,     \* QLock.locked
          lockq,      \* QLock.head .. QLock.tail, linked by Proc.qnext
          rp,         \* Rendez.p
          cond,       \* the event that f(arg) tests
          pr,         \* pr[p]: p->r # nil
          killed,     \* p->killed
          swipend,    \* p->swipend
          syscall,    \* p->syscall
          intwait,    \* p->intwait
          sig,        \* sig[p]: SIGUSR1 is pending for p's thread
          target,     \* target[s]: the Proc that s is interrupting
          intr        \* intr[p]: osleave's local r

sync == <<sem, locked, lockq, rp>>
flags == <<pr, killed, swipend, syscall, intwait, sig>>
vars == <<pc, sync, cond, flags, target, intr>>

Labels == {"idle", "qwait", "held", "asleep", "woken", "slept", "eintr", "wake",
           "swi2", "swi3", "sys", "leave1", "leave2", "leave3"}

Init == /\ pc = [p \in Procs |-> "idle"]
        /\ sem = [p \in Procs |-> 0]
        /\ locked = FALSE
        /\ lockq = << >>
        /\ rp = None
        /\ cond = FALSE
        /\ pr = [p \in Procs |-> FALSE]
        /\ killed = [p \in Procs |-> FALSE]
        /\ swipend = [p \in Procs |-> FALSE]
        /\ syscall = [p \in Procs |-> FALSE]
        /\ intwait = [p \in Procs |-> FALSE]
        /\ sig = [p \in Procs |-> FALSE]
        /\ target = [p \in Procs |-> None]
        /\ intr = [p \in Procs |-> FALSE]

Goto(p, from, to) == /\ pc[p] = from
                     /\ pc' = [pc EXCEPT ![p] = to]

\* osready: post the semaphore of p, whether or not p has reached osblock.
osready(p) == sem' = [sem EXCEPT ![p] = @ + 1]

\* Mutant of osblock: sem_wait is not retried when a signal interrupts it.
osblockNoRetry(p) == sem' = [sem EXCEPT ![p] = @ - 1]

\* osblock: a Proc waiting on its semaphore goes on when the count is positive.
osblock(p) == /\ sem[p] > 0
              /\ sem' = [sem EXCEPT ![p] = @ - 1]

-----------------------------------------------------------------------------
(* QLock.                                                                  *)

qlockFree(p) == /\ ~locked
                /\ locked' = TRUE
                /\ Goto(p, "idle", "held")
                /\ UNCHANGED <<sem, lockq, rp, cond, flags, target, intr>>

qlockQueue(p) == /\ locked
                 /\ lockq' = Append(lockq, p)
                 /\ Goto(p, "idle", "qwait")
                 /\ UNCHANGED <<sem, locked, rp, cond, flags, target, intr>>

qlockGranted(p) == /\ osblock(p)
                   /\ Goto(p, "qwait", "held")
                   /\ UNCHANGED <<locked, lockq, rp, cond, flags, target, intr>>

\* qunlock: hand the lock to the first Proc queued for it, or free it.
qunlock == \/ /\ lockq # << >>
              /\ lockq' = Tail(lockq)
              /\ osready(Head(lockq))
              /\ UNCHANGED <<locked, rp>>
           \/ /\ lockq = << >>
              /\ locked' = FALSE
              /\ UNCHANGED <<lockq, sem, rp>>

-----------------------------------------------------------------------------
(* Sleep.  The caller holds the QLock that serialises use of the Rendez.   *)

\* The end of Sleep, with up->rlock held: a pending interrupt is consumed
\* and raised as error(Eintr), whether or not the event has happened.
SleepReturn(p) ==
    IF killed[p] \/ swipend[p]
    THEN /\ pc' = [pc EXCEPT ![p] = "eintr"]
         /\ killed' = [killed EXCEPT ![p] = FALSE]
         /\ swipend' = [swipend EXCEPT ![p] = FALSE]
    ELSE /\ pc' = [pc EXCEPT ![p] = "slept"]
         /\ UNCHANGED <<killed, swipend>>

\* The event has happened, or the caller was killed: do not block.
SleepPass(p) == /\ pc[p] = "held"
                /\ killed[p] \/ cond
                /\ SleepReturn(p)
                /\ UNCHANGED <<sync, cond, pr, syscall, intwait, sig, target, intr>>

\* Mutant of SleepBlock: up->killed and f(arg) are tested before r->l is locked,
\* and not again.
SleepBlockUntested(p) ==
    /\ rp = None
    /\ rp' = p
    /\ swipend' = [swipend EXCEPT ![p] = FALSE]
    /\ pr' = [pr EXCEPT ![p] = TRUE]
    /\ Goto(p, "held", "asleep")
    /\ UNCHANGED <<sem, locked, lockq, cond, killed, syscall, intwait, sig, target, intr>>

\* Register at the Rendez.  The code panics ("double sleep") when r->p # nil.
SleepBlock(p) == /\ ~killed[p] /\ ~cond
                 /\ rp = None
                 /\ rp' = p
                 /\ swipend' = [swipend EXCEPT ![p] = FALSE]
                 /\ pr' = [pr EXCEPT ![p] = TRUE]
                 /\ Goto(p, "held", "asleep")
                 /\ UNCHANGED <<sem, locked, lockq, cond, killed, syscall, intwait,
                                sig, target, intr>>

SleepWoken(p) == /\ osblock(p)
                 /\ Goto(p, "asleep", "woken")
                 /\ UNCHANGED <<locked, lockq, rp, cond, flags, target, intr>>

SleepFinish(p) == /\ pc[p] = "woken"
                  /\ pr' = [pr EXCEPT ![p] = FALSE]
                  /\ SleepReturn(p)
                  /\ UNCHANGED <<sync, cond, syscall, intwait, sig, target, intr>>

\* The client's loop: the event is consumed and the lock released, or it was
\* withdrawn meanwhile and the client sleeps again.
Consume(p) == /\ cond
              /\ cond' = FALSE
              /\ Goto(p, "slept", "idle")
              /\ qunlock
              /\ UNCHANGED <<flags, target, intr>>

SleepAgain(p) == /\ ~cond
                 /\ Goto(p, "slept", "held")
                 /\ UNCHANGED <<sync, cond, flags, target, intr>>

\* The error handler of the client: waserror() { qunlock; nexterror; }.
GiveUp(p) == /\ Goto(p, "eintr", "idle")
             /\ qunlock
             /\ UNCHANGED <<cond, flags, target, intr>>

-----------------------------------------------------------------------------
(* The event and Wakeup.                                                   *)

Signal(p) == /\ cond' = TRUE
             /\ Goto(p, "idle", "wake")
             /\ UNCHANGED <<sync, flags, target, intr>>

Withdraw(p) == /\ pc[p] = "idle"
               /\ cond
               /\ cond' = FALSE
               /\ UNCHANGED <<pc, sync, flags, target, intr>>

Wakeup(p) == /\ Goto(p, "wake", "idle")
             /\ rp' = None
             /\ IF rp # None THEN osready(rp) ELSE UNCHANGED sem
             /\ UNCHANGED <<locked, lockq, cond, flags, target, intr>>

-----------------------------------------------------------------------------
(* swiproc(p, interp), called by s.                                        *)

\* Mutant of swiprocSleep: it does not look whether a Wakeup came first.
swiprocSleepTwice(s, p, interp) ==
    /\ pr[p]
    /\ pc[s] = "idle"
    /\ killed' = [killed EXCEPT ![p] = @ \/ ~interp]
    /\ swipend' = [swipend EXCEPT ![p] = TRUE]
    /\ rp' = None
    /\ osready(p)
    /\ UNCHANGED <<pc, locked, lockq, cond, pr, syscall, intwait, sig, target, intr>>

\* Under p->rlock: mark p killed; if p is in Sleep, pull it off its Rendez,
\* unless a Wakeup has done so already, and return.
swiprocSleep(s, p, interp) ==
    /\ pr[p]
    /\ pc[s] = "idle"
    /\ killed' = [killed EXCEPT ![p] = @ \/ ~interp]
    /\ IF rp = p
       THEN /\ swipend' = [swipend EXCEPT ![p] = TRUE]
            /\ rp' = None
            /\ osready(p)
       ELSE UNCHANGED <<swipend, rp, sem>>
    /\ UNCHANGED <<pc, locked, lockq, cond, pr, syscall, intwait, sig, target, intr>>

\* p is not in Sleep: go on to look for a host system call.
swiprocMark(s, p, interp) ==
    /\ ~pr[p]
    /\ Goto(s, "idle", "swi2")
    /\ killed' = [killed EXCEPT ![p] = @ \/ ~interp]
    /\ target' = [target EXCEPT ![s] = p]
    /\ UNCHANGED <<sync, cond, pr, swipend, syscall, intwait, sig, intr>>

\* Under p->sysio.
swiprocHost(s) ==
    /\ pc[s] = "swi2"
    /\ LET p == target[s]
       IN \/ /\ syscall[p] /\ ~intwait[p]
             /\ Goto(s, "swi2", "swi3")
             /\ swipend' = [swipend EXCEPT ![p] = TRUE]
             /\ intwait' = [intwait EXCEPT ![p] = TRUE]
             /\ UNCHANGED <<sync, cond, pr, killed, syscall, sig, target, intr>>
          \/ /\ ~syscall[p] \/ intwait[p]
             /\ Goto(s, "swi2", "idle")
             /\ target' = [target EXCEPT ![s] = None]
             /\ UNCHANGED <<sync, cond, flags, intr>>

\* Mutant of oshostintr: the signal goes to another thread.
oshostintrLost(s) == /\ Goto(s, "swi3", "idle")
                     /\ target' = [target EXCEPT ![s] = None]
                     /\ UNCHANGED <<sync, cond, flags, intr>>

oshostintr(s) == /\ Goto(s, "swi3", "idle")
                 /\ sig' = [sig EXCEPT ![target[s]] = TRUE]
                 /\ target' = [target EXCEPT ![s] = None]
                 /\ UNCHANGED <<sync, cond, pr, killed, swipend, syscall, intwait, intr>>

notkilled(p) == /\ pc[p] = "idle"
                /\ killed[p]
                /\ killed' = [killed EXCEPT ![p] = FALSE]
                /\ UNCHANGED <<pc, sync, cond, pr, swipend, syscall, intwait, sig,
                               target, intr>>

-----------------------------------------------------------------------------
(* A host system call, between osenter and osleave.                        *)

osenter(p) == /\ Goto(p, "idle", "sys")
              /\ syscall' = [syscall EXCEPT ![p] = TRUE]
              /\ UNCHANGED <<sync, cond, pr, killed, swipend, intwait, sig, target, intr>>

HostReturn(p) == /\ Goto(p, "sys", "leave1")
                 /\ UNCHANGED <<sync, cond, flags, target, intr>>

\* trapUSR1 runs on p's thread at any point.
trapUSR1(p) == /\ sig[p]
               /\ sig' = [sig EXCEPT ![p] = FALSE]
               /\ intwait' = [intwait EXCEPT ![p] = FALSE]
               /\ UNCHANGED <<pc, sync, cond, pr, killed, swipend, syscall, target, intr>>

\* osleave, under up->rlock.
osleaveTake(p) == /\ Goto(p, "leave1", "leave2")
                  /\ intr' = [intr EXCEPT ![p] = swipend[p]]
                  /\ swipend' = [swipend EXCEPT ![p] = FALSE]
                  /\ UNCHANGED <<sync, cond, pr, killed, syscall, intwait, sig, target>>

\* osleave, under up->sysio.
osleaveEnd(p) == /\ Goto(p, "leave2", "leave3")
                 /\ syscall' = [syscall EXCEPT ![p] = FALSE]
                 /\ UNCHANGED <<sync, cond, pr, killed, swipend, intwait, sig, target, intr>>

\* osleave: while(up->intwait) osyield(); then error(Eintr) if r # 0.
osleaveReturn(p) == /\ ~intwait[p]
                    /\ Goto(p, "leave3", "idle")
                    /\ intr' = [intr EXCEPT ![p] = FALSE]
                    /\ UNCHANGED <<sync, cond, flags, target>>

-----------------------------------------------------------------------------
\* Steps that finish what a Proc has begun.
Progress(p) == \/ qlockGranted(p)
               \/ SleepPass(p) \/ SleepBlock(p) \/ SleepWoken(p) \/ SleepFinish(p)
               \/ Consume(p) \/ SleepAgain(p) \/ GiveUp(p)
               \/ Wakeup(p)
               \/ swiprocHost(p) \/ oshostintr(p)
               \/ osleaveTake(p) \/ osleaveEnd(p) \/ osleaveReturn(p)

Begin(p) == \/ qlockFree(p) \/ qlockQueue(p)
            \/ Signal(p) \/ Withdraw(p)
            \/ \E t \in Procs \ {p}, i \in Interps : swiprocSleep(p, t, i)
            \/ \E t \in Procs \ {p}, i \in Interps : swiprocMark(p, t, i)
            \/ notkilled(p)
            \/ osenter(p) \/ HostReturn(p)

Next == \E p \in Procs : Begin(p) \/ Progress(p) \/ trapUSR1(p)

Spec == Init /\ [][Next]_vars

\* Every Proc is a host thread that keeps running, and the host delivers
\* signals; whether a Proc begins an operation is its own affair, and whether
\* a host system call returns is the host's.
Fairness == \A p \in Procs : WF_vars(Progress(p)) /\ WF_vars(trapUSR1(p))

FairSpec == Spec /\ Fairness

-----------------------------------------------------------------------------
TypeOK == /\ pc \in [Procs -> Labels]
          /\ sem \in [Procs -> Nat]
          /\ locked \in BOOLEAN
          /\ lockq \in Seq(Procs)
          /\ rp \in Procs \cup {None}
          /\ cond \in BOOLEAN
          /\ pr \in [Procs -> BOOLEAN]
          /\ killed \in [Procs -> BOOLEAN]
          /\ swipend \in [Procs -> BOOLEAN]
          /\ syscall \in [Procs -> BOOLEAN]
          /\ intwait \in [Procs -> BOOLEAN]
          /\ sig \in [Procs -> BOOLEAN]
          /\ target \in [Procs -> Procs \cup {None}]
          /\ intr \in [Procs -> BOOLEAN]

\* p is between qlock and qunlock.
InSection(p) == pc[p] \in {"held", "asleep", "woken", "slept", "eintr"}

\* qlock excludes: two Procs are never both between qlock and qunlock.  A
\* semaphore count left over from a Sleep would let a queued Proc through.
QLockExcludes == \A p, q \in Procs : InSection(p) /\ InSection(q) => p = q

\* Every osready is for a Proc that is at, or on its way to, the osblock it is
\* meant for, and there is at most one: qunlock, Wakeup and swiproc between
\* them never post twice for one block, nor for a Proc that will not block.
NoStrayToken == \A p \in Procs : sem[p] > 0 => sem[p] = 1 /\ pc[p] \in {"qwait", "asleep"}

\* Sleep never panics with "double sleep".
NoDoubleSleep == \A p \in Procs : pc[p] = "held" => rp = None

\* No lost wakeup: if the event has happened while a Proc is registered at the
\* Rendez, some Proc is still to call Wakeup.
NoLostWakeup == cond /\ rp # None => \E w \in Procs : pc[w] = "wake"

\* A Proc marked killed is never left asleep: it has its token already.
KilledSleeperReady == \A p \in Procs : pc[p] = "asleep" /\ killed[p] => sem[p] = 1

\* trapUSR1's "should never happen": a signal is handled only while intwait is
\* set, and while osleave waits for intwait to clear a signal is on its way.
SignalPosted == \A p \in Procs :
                   intwait[p] <=> sig[p] \/ \E s \in Procs : pc[s] = "swi3" /\ target[s] = p

\* A sleeping Proc whose event has happened, or that has been killed, gets out
\* of Sleep unless the event is withdrawn first.
SleeperWakes == \A p \in Procs :
    (pc[p] = "asleep" /\ (cond \/ killed[p])) ~> (pc[p] # "asleep" \/ ~(cond \/ killed[p]))

\* osleave returns: the wait for the signal handler ends.
OsleaveReturns == \A p \in Procs : pc[p] = "leave2" ~> pc[p] = "idle"
=============================================================================
