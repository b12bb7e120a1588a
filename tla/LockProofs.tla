----------------------------- MODULE LockProofs -----------------------------
(* Proofs, for any number of Procs, of the safety properties of the locks:   *)
(* first those of KProc, then those of RWlock.                               *)
EXTENDS KProc, RWlock, QueueLemmas, FiniteSetTheorems


-----------------------------------------------------------------------------
(* Type correctness.                                                       *)

THEOREM TypeCorrect == Spec => []TypeOK
<1>1. Init => TypeOK
  <2> SUFFICES ASSUME Init PROVE TypeOK
    OBVIOUS
  <2>1. /\ pc \in [Procs -> Labels]
        /\ sem \in [Procs -> Nat]
        /\ lockq \in Seq(Procs)
        /\ target \in [Procs -> Procs \cup {None}]
    BY DEF Init, Labels
  <2>2. /\ locked \in BOOLEAN
        /\ rp \in Procs \cup {None}
        /\ cond \in BOOLEAN
        /\ pr \in [Procs -> BOOLEAN]
        /\ killed \in [Procs -> BOOLEAN]
        /\ swipend \in [Procs -> BOOLEAN]
        /\ syscall \in [Procs -> BOOLEAN]
    BY DEF Init
  <2>3. /\ intwait \in [Procs -> BOOLEAN]
        /\ sig \in [Procs -> BOOLEAN]
        /\ intr \in [Procs -> BOOLEAN]
    BY DEF Init
  <2> QED
    BY <2>1, <2>2, <2>3 DEF TypeOK
<1>2. TypeOK /\ [Next]_vars => TypeOK'
  <2> SUFFICES ASSUME TypeOK, [Next]_vars PROVE TypeOK'
    OBVIOUS
  <2> USE KProcAssumption, ProcsAssumption DEF TypeOK, Labels, Goto, flags, sync
  <2>1. ASSUME NEW p \in Procs, Begin(p) PROVE TypeOK'
    <3>1. CASE qlockFree(p)
      BY <3>1 DEF qlockFree
    <3>2. CASE qlockQueue(p)
      <4>1. Append(lockq, p) \in Seq(Procs)
        BY AppendFacts
      <4> QED
        BY <3>2, <4>1 DEF qlockQueue
    <3>3. CASE Signal(p) \/ Withdraw(p)
      BY <3>3 DEF Signal, Withdraw
    <3>4. ASSUME NEW t \in Procs \ {p}, NEW i \in Interps, swiprocSleep(p, t, i)
          PROVE  TypeOK'
      <4>1. killed' \in [Procs -> BOOLEAN] /\ swipend' \in [Procs -> BOOLEAN]
        BY <3>4 DEF swiprocSleep
      <4>2. \/ sem' = [sem EXCEPT ![t] = @ + 1] /\ rp' = None
            \/ sem' = sem /\ rp' = rp
        BY <3>4 DEF swiprocSleep, osready
      <4> QED
        BY <3>4, <4>1, <4>2 DEF swiprocSleep
    <3>5. ASSUME NEW t \in Procs \ {p}, NEW i \in Interps, swiprocMark(p, t, i)
          PROVE  TypeOK'
      BY <3>5 DEF swiprocMark
    <3>6. CASE notkilled(p)
      BY <3>6 DEF notkilled
    <3>7. CASE osenter(p) \/ HostReturn(p)
      BY <3>7 DEF osenter, HostReturn
    <3> QED
      BY <2>1, <3>1, <3>2, <3>3, <3>4, <3>5, <3>6, <3>7 DEF Begin
  <2>2. ASSUME NEW p \in Procs, Progress(p) PROVE TypeOK'
    <3>1. CASE qlockGranted(p)
      BY <3>1 DEF qlockGranted, osblock
    <3>2. CASE SleepPass(p)
      BY <3>2 DEF SleepPass, SleepReturn
    <3>3. CASE SleepBlock(p)
      BY <3>3 DEF SleepBlock
    <3>4. CASE SleepWoken(p)
      BY <3>4 DEF SleepWoken, osblock
    <3>5. CASE SleepFinish(p)
      BY <3>5 DEF SleepFinish, SleepReturn
    <3>6. CASE Consume(p) \/ GiveUp(p)
      <4>1. lockq # << >> => Head(lockq) \in Procs /\ Tail(lockq) \in Seq(Procs)
        BY TailFacts
      <4>2. qunlock
        BY <3>6 DEF Consume, GiveUp
      <4>3. sem' \in [Procs -> Nat]
        BY <4>1, <4>2 DEF qunlock, osready
      <4>4. locked' \in BOOLEAN /\ lockq' \in Seq(Procs) /\ rp' = rp
        BY <4>1, <4>2 DEF qunlock
      <4> QED
        BY <3>6, <4>3, <4>4 DEF Consume, GiveUp
    <3>7. CASE SleepAgain(p)
      BY <3>7 DEF SleepAgain
    <3>8. CASE Wakeup(p)
      <4>1. sem' \in [Procs -> Nat]
        BY <3>8 DEF Wakeup, osready
      <4> QED
        BY <3>8, <4>1 DEF Wakeup
    <3>9. CASE swiprocHost(p)
      <4>1. pc' \in [Procs -> Labels] /\ target' \in [Procs -> Procs \cup {None}]
        BY <3>9 DEF swiprocHost
      <4>2. \/ /\ swipend' = [swipend EXCEPT ![target[p]] = TRUE]
               /\ intwait' = [intwait EXCEPT ![target[p]] = TRUE]
            \/ swipend' = swipend /\ intwait' = intwait
        BY <3>9 DEF swiprocHost
      <4>3. swipend' \in [Procs -> BOOLEAN] /\ intwait' \in [Procs -> BOOLEAN]
        BY <4>2
      <4> QED
        BY <3>9, <4>1, <4>3 DEF swiprocHost
    <3>10. CASE oshostintr(p)
      BY <3>10 DEF oshostintr
    <3>11. CASE osleaveTake(p) \/ osleaveEnd(p) \/ osleaveReturn(p)
      BY <3>11 DEF osleaveTake, osleaveEnd, osleaveReturn
    <3> QED
      BY <2>2, <3>1, <3>2, <3>3, <3>4, <3>5, <3>6, <3>7, <3>8, <3>9, <3>10, <3>11
         DEF Progress
  <2>3. ASSUME NEW p \in Procs, trapUSR1(p) PROVE TypeOK'
    BY <2>3 DEF trapUSR1
  <2>4. CASE UNCHANGED vars
    BY <2>4 DEF vars
  <2> QED
    BY <2>1, <2>2, <2>3, <2>4 DEF Next
<1> QED
  BY <1>1, <1>2, PTL DEF Spec

-----------------------------------------------------------------------------
(* The lock, the Rendez and the semaphores.                                *)

\* p has the QLock: it is past qlock, or the lock was handed to it.
Owner(p) == InSection(p) \/ (pc[p] = "qwait" /\ sem[p] = 1)

Queued(p) == In(p, lockq)

\* The inductive invariant.  The semaphore is shared by qlock and Sleep, so the
\* exclusion of the lock rests on where each count can have come from.
OneOwner == \A p, q \in Procs : Owner(p) /\ Owner(q) => p = q
OwnerLocks == \A p \in Procs : Owner(p) => locked
QueueDistinct == Distinct(lockq)
QueueWaits == \A p \in Procs : Queued(p) <=> pc[p] = "qwait" /\ sem[p] = 0
RendezSleeps == \A p \in Procs : rp = p <=> pc[p] = "asleep" /\ sem[p] = 0
RegisteredSleeps == \A p \in Procs : pr[p] <=> pc[p] \in {"asleep", "woken"}

LockInv == /\ OneOwner
           /\ OwnerLocks
           /\ QueueDistinct
           /\ QueueWaits
           /\ NoStrayToken
           /\ RendezSleeps
           /\ RegisteredSleeps
           /\ KilledSleeperReady

LEMMA NoToken ==
    ASSUME NoStrayToken, sem \in [Procs -> Nat], NEW p \in Procs,
           pc[p] \notin {"qwait", "asleep"}
    PROVE  sem[p] = 0
BY DEF NoStrayToken

\* A step that moves p between labels outside the section, and disturbs neither
\* a semaphore nor the Rendez, keeps the invariant.
LEMMA OutsideStep ==
    ASSUME TypeOK, LockInv, NEW p \in Procs, NEW to \in Labels,
           pc[p] \notin {"qwait", "held", "asleep", "woken", "slept", "eintr"},
           to \notin {"qwait", "held", "asleep", "woken", "slept", "eintr"},
           pc' = [pc EXCEPT ![p] = to],
           UNCHANGED <<sync, pr>>,
           \A q \in Procs : killed'[q] /\ ~killed[q] => pc[q] # "asleep"
    PROVE  LockInv'
<1> USE DEF TypeOK, sync
<1>1. \A q \in Procs : /\ InSection(q)' <=> InSection(q)
                       /\ Owner(q)' <=> Owner(q)
                       /\ Queued(q)' <=> Queued(q)
                       /\ pc'[q] = "qwait" <=> pc[q] = "qwait"
                       /\ pc'[q] = "asleep" <=> pc[q] = "asleep"
                       /\ pc'[q] = "woken" <=> pc[q] = "woken"
  BY DEF InSection, Owner, Queued
<1>2. OneOwner' /\ OwnerLocks' /\ QueueDistinct' /\ QueueWaits'
  BY <1>1 DEF LockInv, OneOwner, OwnerLocks, QueueDistinct, QueueWaits
<1>3. NoStrayToken' /\ RendezSleeps' /\ RegisteredSleeps' /\ KilledSleeperReady'
  BY <1>1 DEF LockInv, NoStrayToken, RendezSleeps, RegisteredSleeps, KilledSleeperReady
<1> QED
  BY <1>2, <1>3 DEF LockInv

THEOREM LockInvariant == Spec => []LockInv
<1>1. ASSUME Init PROVE LockInv
  <2>1. \A p \in Procs : ~Owner(p)
    BY <1>1 DEF Init, Owner, InSection
  <2>2. Distinct(lockq) /\ \A p \in Procs : ~Queued(p)
    BY <1>1 DEF Init, Queued, In, Distinct
  <2>3. OneOwner /\ OwnerLocks /\ QueueDistinct
    BY <2>1, <2>2 DEF OneOwner, OwnerLocks, QueueDistinct
  <2>4. QueueWaits
    BY <1>1, <2>2 DEF Init, QueueWaits
  <2>5. NoStrayToken /\ RendezSleeps /\ RegisteredSleeps /\ KilledSleeperReady
    BY <1>1, KProcAssumption, ProcsAssumption
       DEF Init, NoStrayToken, RendezSleeps, RegisteredSleeps, KilledSleeperReady
  <2> QED
    BY <2>3, <2>4, <2>5 DEF LockInv
<1>2. TypeOK /\ LockInv /\ [Next]_vars => LockInv'
  <2> SUFFICES ASSUME TypeOK, LockInv, [Next]_vars PROVE LockInv'
    OBVIOUS
  <2> USE KProcAssumption, ProcsAssumption DEF TypeOK, Goto
  <2>1. ASSUME NEW p \in Procs, qlockFree(p) PROVE LockInv'
    <3>1. OneOwner' /\ OwnerLocks'
      BY <2>1 DEF qlockFree, LockInv, OneOwner, OwnerLocks, Owner, InSection
    <3>2. QueueDistinct' /\ QueueWaits' /\ NoStrayToken'
      BY <2>1 DEF qlockFree, LockInv, QueueDistinct, QueueWaits, Queued, NoStrayToken
    <3>3. RendezSleeps' /\ RegisteredSleeps' /\ KilledSleeperReady'
      BY <2>1 DEF qlockFree, LockInv, RendezSleeps, RegisteredSleeps,
                  KilledSleeperReady, flags
    <3> QED
      BY <3>1, <3>2, <3>3 DEF LockInv
  <2>2. ASSUME NEW p \in Procs, qlockQueue(p) PROVE LockInv'
    <3>1. ~Owner(p) /\ sem[p] = 0 /\ ~Queued(p)
      <4>1. pc[p] = "idle"
        BY <2>2 DEF qlockQueue
      <4>2. ~Queued(p)
        BY <4>1 DEF LockInv, QueueWaits
      <4>3. sem[p] = 0
        BY <4>1, NoToken DEF LockInv
      <4> QED
        BY <4>1, <4>2, <4>3 DEF Owner, InSection
    <3>2. OneOwner' /\ OwnerLocks'
      BY <2>2, <3>1 DEF qlockQueue, LockInv, OneOwner, OwnerLocks, Owner, InSection
    <3>3. QueueDistinct' /\ (\A q \in Procs : Queued(q)' <=> Queued(q) \/ q = p)
      BY <2>2, <3>1, JoinQueue DEF qlockQueue, LockInv, QueueDistinct, Queued
    <3>4. QueueWaits' /\ NoStrayToken'
      BY <2>2, <3>1, <3>3 DEF qlockQueue, LockInv, QueueWaits, NoStrayToken
    <3>5. RendezSleeps' /\ RegisteredSleeps' /\ KilledSleeperReady'
      BY <2>2 DEF qlockQueue, LockInv, RendezSleeps, RegisteredSleeps,
                  KilledSleeperReady, flags
    <3> QED
      BY <3>2, <3>3, <3>4, <3>5 DEF LockInv
  <2>3. ASSUME NEW p \in Procs, qlockGranted(p) PROVE LockInv'
    <3>1. sem[p] = 1 /\ Owner(p)
      BY <2>3 DEF qlockGranted, osblock, LockInv, NoStrayToken, Owner
    <3>2. OneOwner' /\ OwnerLocks'
      BY <2>3, <3>1 DEF qlockGranted, osblock, LockInv, OneOwner, OwnerLocks, Owner, InSection
    <3>3. QueueDistinct' /\ QueueWaits' /\ NoStrayToken'
      BY <2>3, <3>1 DEF qlockGranted, osblock, LockInv, QueueDistinct, QueueWaits, Queued,
                        NoStrayToken
    <3>4. RendezSleeps' /\ RegisteredSleeps' /\ KilledSleeperReady'
      BY <2>3, <3>1 DEF qlockGranted, osblock, LockInv, RendezSleeps, RegisteredSleeps,
                        KilledSleeperReady, flags
    <3> QED
      BY <3>2, <3>3, <3>4 DEF LockInv
  <2>4. ASSUME NEW p \in Procs, Consume(p) \/ GiveUp(p) PROVE LockInv'
    <3>1. /\ pc[p] \in {"slept", "eintr"}
          /\ pc' = [pc EXCEPT ![p] = "idle"]
          /\ qunlock
          /\ UNCHANGED <<pr, killed>>
      BY <2>4 DEF Consume, GiveUp, flags
    <3>2. Owner(p) /\ ~Owner(p)' /\ rp' = rp
      BY <3>1 DEF Owner, InSection, qunlock
    <3>3. CASE lockq # << >>
      <4> DEFINE h == Head(lockq)
      <4>1. /\ sem' = [sem EXCEPT ![h] = @ + 1]
            /\ lockq' = Tail(lockq)
            /\ locked' = locked
        BY <3>1, <3>3 DEF qunlock, osready
      <4>2. h \in Procs /\ Queued(h)
        BY <3>3, TailFacts, LeaveQueue DEF LockInv, QueueDistinct, Queued
      <4>3. pc[h] = "qwait" /\ sem[h] = 0 /\ h # p
        BY <3>1, <4>2 DEF LockInv, QueueWaits
      <4>4. QueueDistinct' /\ (\A q \in Procs : Queued(q)' <=> Queued(q) /\ q # h)
        BY <3>3, <4>1, LeaveQueue DEF LockInv, QueueDistinct, Queued
      <4> HIDE DEF h
      <4>5. \A q \in Procs : Owner(q)' <=> q = h
        BY <3>1, <3>2, <4>1, <4>2, <4>3 DEF LockInv, OneOwner, Owner, InSection
      <4>6. OneOwner' /\ OwnerLocks'
        BY <3>2, <4>1, <4>5 DEF LockInv, OneOwner, OwnerLocks
      <4>7. QueueWaits' /\ NoStrayToken'
        BY <3>1, <4>1, <4>2, <4>3, <4>4 DEF LockInv, QueueWaits, NoStrayToken
      <4>8. RendezSleeps' /\ RegisteredSleeps' /\ KilledSleeperReady'
        BY <3>1, <3>2, <4>1, <4>2, <4>3 DEF LockInv, RendezSleeps, RegisteredSleeps,
                                            KilledSleeperReady
      <4> QED
        BY <4>4, <4>6, <4>7, <4>8 DEF LockInv
    <3>4. CASE lockq = << >>
      <4>1. UNCHANGED <<sem, lockq, rp>>
        BY <3>1, <3>4 DEF qunlock
      <4>2. \A q \in Procs : ~Owner(q)'
        BY <3>1, <3>2, <4>1 DEF LockInv, OneOwner, Owner, InSection
      <4>3. OneOwner' /\ OwnerLocks' /\ QueueDistinct'
        BY <4>1, <4>2 DEF LockInv, OneOwner, OwnerLocks, QueueDistinct
      <4>4. QueueWaits' /\ NoStrayToken'
        BY <3>1, <4>1 DEF LockInv, QueueWaits, Queued, NoStrayToken
      <4>5. RendezSleeps' /\ RegisteredSleeps' /\ KilledSleeperReady'
        BY <3>1, <4>1 DEF LockInv, RendezSleeps, RegisteredSleeps, KilledSleeperReady
      <4> QED
        BY <4>3, <4>4, <4>5 DEF LockInv
    <3> QED
      BY <3>3, <3>4
  <2>5. ASSUME NEW p \in Procs, SleepPass(p) \/ SleepFinish(p) \/ SleepAgain(p)
        PROVE  LockInv'
    <3>1. /\ pc[p] \in {"held", "woken", "slept"}
          /\ \E to \in {"held", "slept", "eintr"} : pc' = [pc EXCEPT ![p] = to]
          /\ UNCHANGED sync
          /\ \A q \in Procs : killed'[q] => killed[q]
      BY <2>5 DEF SleepPass, SleepFinish, SleepAgain, SleepReturn, flags
    <3>2. pr' = [pr EXCEPT ![p] = FALSE]
      <4>1. CASE SleepFinish(p)
        BY <4>1 DEF SleepFinish
      <4>2. CASE SleepPass(p) \/ SleepAgain(p)
        <5>1. ~pr[p] /\ pr' = pr
          BY <4>2 DEF SleepPass, SleepAgain, flags, LockInv, RegisteredSleeps
        <5> QED
          BY <5>1
      <4> QED
        BY <2>5, <4>1, <4>2
    <3>3. \A q \in Procs : InSection(q)' <=> InSection(q)
      BY <3>1 DEF InSection
    <3>4. \A q \in Procs : (Owner(q)' <=> Owner(q)) /\ (Queued(q)' <=> Queued(q))
      BY <3>1, <3>3 DEF Owner, Queued, sync
    <3>5. OneOwner' /\ OwnerLocks' /\ QueueDistinct' /\ QueueWaits'
      BY <3>1, <3>4 DEF LockInv, OneOwner, OwnerLocks, QueueDistinct, QueueWaits, sync
    <3>6. NoStrayToken' /\ RendezSleeps' /\ KilledSleeperReady'
      BY <3>1 DEF LockInv, NoStrayToken, RendezSleeps, KilledSleeperReady, sync
    <3>7. RegisteredSleeps'
      BY <3>1, <3>2 DEF LockInv, RegisteredSleeps
    <3> QED
      BY <3>5, <3>6, <3>7 DEF LockInv
  <2>6. ASSUME NEW p \in Procs, SleepBlock(p) PROVE LockInv'
    <3>1. /\ pc[p] = "held" /\ ~killed[p] /\ sem[p] = 0
          /\ pc' = [pc EXCEPT ![p] = "asleep"]
          /\ rp = None /\ rp' = p
          /\ pr' = [pr EXCEPT ![p] = TRUE]
          /\ UNCHANGED <<sem, locked, lockq, killed>>
      <4>1. pc[p] = "held"
        BY <2>6 DEF SleepBlock
      <4>2. sem[p] = 0
        BY <4>1, NoToken DEF LockInv
      <4> QED
        BY <2>6, <4>1, <4>2 DEF SleepBlock
    <3>2. \A q \in Procs : (Owner(q)' <=> Owner(q)) /\ (Queued(q)' <=> Queued(q))
      BY <3>1 DEF Owner, Queued, InSection
    <3>3. OneOwner' /\ OwnerLocks' /\ QueueDistinct' /\ QueueWaits'
      BY <3>1, <3>2 DEF LockInv, OneOwner, OwnerLocks, QueueDistinct, QueueWaits
    <3>4. NoStrayToken' /\ RendezSleeps'
      BY <3>1 DEF LockInv, NoStrayToken, RendezSleeps
    <3>5. RegisteredSleeps' /\ KilledSleeperReady'
      BY <3>1 DEF LockInv, RegisteredSleeps, KilledSleeperReady
    <3> QED
      BY <3>3, <3>4, <3>5 DEF LockInv
  <2>7. ASSUME NEW p \in Procs, SleepWoken(p) PROVE LockInv'
    <3>1. /\ pc[p] = "asleep" /\ sem[p] = 1
          /\ pc' = [pc EXCEPT ![p] = "woken"]
          /\ sem' = [sem EXCEPT ![p] = 0]
          /\ UNCHANGED <<locked, lockq, rp, pr, killed>>
      <4>1. sem[p] = 1
        BY <2>7 DEF SleepWoken, osblock, LockInv, NoStrayToken
      <4>2. sem' = [sem EXCEPT ![p] = @ - 1]
        BY <2>7 DEF SleepWoken, osblock
      <4> QED
        BY <2>7, <4>1, <4>2 DEF SleepWoken, flags
    <3>2. \A q \in Procs : (Owner(q)' <=> Owner(q)) /\ (Queued(q)' <=> Queued(q))
      BY <3>1 DEF Owner, Queued, InSection
    <3>3. OneOwner' /\ OwnerLocks' /\ QueueDistinct' /\ QueueWaits'
      BY <3>1, <3>2 DEF LockInv, OneOwner, OwnerLocks, QueueDistinct, QueueWaits
    <3>4. NoStrayToken' /\ RendezSleeps' /\ RegisteredSleeps' /\ KilledSleeperReady'
      BY <3>1 DEF LockInv, NoStrayToken, RendezSleeps, RegisteredSleeps, KilledSleeperReady
    <3> QED
      BY <3>3, <3>4 DEF LockInv
  <2>8. ASSUME NEW t \in Procs, rp = t, rp' = None, osready(t),
               pc' = pc \/ (\E p \in Procs : Goto(p, "wake", "idle")),
               UNCHANGED <<locked, lockq, pr>>,
               \A q \in Procs : killed'[q] /\ ~killed[q] => q = t
        PROVE  LockInv'
    <3>1. pc[t] = "asleep" /\ sem[t] = 0 /\ sem' = [sem EXCEPT ![t] = 1]
      <4>1. pc[t] = "asleep" /\ sem[t] = 0
        BY <2>8 DEF LockInv, RendezSleeps
      <4> QED
        BY <2>8, <4>1 DEF osready
    <3>2. \A q \in Procs : /\ InSection(q)' <=> InSection(q)
                           /\ pc'[q] = "qwait" <=> pc[q] = "qwait"
                           /\ pc'[q] = "asleep" <=> pc[q] = "asleep"
                           /\ pc'[q] = "woken" <=> pc[q] = "woken"
      BY <2>8 DEF InSection
    <3>3. \A q \in Procs : (Owner(q)' <=> Owner(q)) /\ (Queued(q)' <=> Queued(q))
      BY <2>8, <3>1, <3>2 DEF Owner, Queued, InSection
    <3>4. OneOwner' /\ OwnerLocks' /\ QueueDistinct' /\ QueueWaits'
      <4>1. OneOwner' /\ OwnerLocks' /\ QueueDistinct'
        BY <2>8, <3>3 DEF LockInv, OneOwner, OwnerLocks, QueueDistinct
      <4>2. QueueWaits'
        BY <3>1, <3>2, <3>3 DEF LockInv, QueueWaits
      <4> QED
        BY <4>1, <4>2
    <3>5. NoStrayToken' /\ RendezSleeps'
      BY <2>8, <3>1, <3>2 DEF LockInv, NoStrayToken, RendezSleeps
    <3>6. RegisteredSleeps' /\ KilledSleeperReady'
      BY <2>8, <3>1, <3>2 DEF LockInv, RegisteredSleeps, KilledSleeperReady
    <3> QED
      BY <3>4, <3>5, <3>6 DEF LockInv
  <2>9. ASSUME NEW p \in Procs, Wakeup(p) PROVE LockInv'
    <3>1. CASE rp # None
      BY <2>8, <2>9, <3>1 DEF Wakeup, flags
    <3>2. CASE rp = None
      <4>1. UNCHANGED <<sync, pr, killed>> /\ Goto(p, "wake", "idle")
        BY <2>9, <3>2 DEF Wakeup, flags, sync
      <4> QED
        BY <4>1, OutsideStep DEF Labels
    <3> QED
      BY <3>1, <3>2
  <2>10. ASSUME NEW p \in Procs, NEW t \in Procs \ {p}, NEW i \in Interps,
                swiprocSleep(p, t, i)
         PROVE  LockInv'
    <3>1. \A q \in Procs : killed'[q] /\ ~killed[q] => q = t
      BY <2>10 DEF swiprocSleep
    <3>2. CASE rp = t
      BY <2>8, <2>10, <3>1, <3>2 DEF swiprocSleep
    <3>3. CASE rp # t
      <4>1. pr[t] /\ pc[p] = "idle" /\ UNCHANGED <<pc, sync, pr>>
        BY <2>10, <3>3 DEF swiprocSleep, sync
      <4>2. pc[t] = "asleep" => sem[t] = 1
        BY <3>3 DEF LockInv, RendezSleeps, NoStrayToken
      <4>3. KilledSleeperReady'
        BY <3>1, <4>1, <4>2 DEF sync, LockInv, KilledSleeperReady
      <4>4. OneOwner' /\ OwnerLocks' /\ QueueDistinct' /\ QueueWaits'
        BY <4>1 DEF sync, LockInv, OneOwner, OwnerLocks, QueueDistinct, QueueWaits,
                    Owner, Queued, InSection
      <4>5. NoStrayToken' /\ RendezSleeps' /\ RegisteredSleeps'
        BY <4>1 DEF sync, LockInv, NoStrayToken, RendezSleeps, RegisteredSleeps
      <4> QED
        BY <4>3, <4>4, <4>5 DEF LockInv
    <3> QED
      BY <3>2, <3>3
  <2>11. ASSUME NEW p \in Procs, NEW t \in Procs \ {p}, NEW i \in Interps,
                swiprocMark(p, t, i)
         PROVE  LockInv'
    <3>1. \A q \in Procs : killed'[q] /\ ~killed[q] => pc[q] # "asleep"
      BY <2>11 DEF swiprocMark, LockInv, RegisteredSleeps
    <3> QED
      BY <2>11, <3>1, OutsideStep DEF swiprocMark, Labels
  <2>12. ASSUME NEW p \in Procs,
                \/ Signal(p) \/ Withdraw(p) \/ notkilled(p) \/ osenter(p) \/ HostReturn(p)
                \/ swiprocHost(p) \/ oshostintr(p)
                \/ osleaveTake(p) \/ osleaveEnd(p) \/ osleaveReturn(p)
         PROVE  LockInv'
    <3>1. /\ UNCHANGED <<sync, pr>>
          /\ \A q \in Procs : killed'[q] => killed[q]
      BY <2>12 DEF Signal, Withdraw, notkilled, osenter, HostReturn, swiprocHost,
                   oshostintr, osleaveTake, osleaveEnd, osleaveReturn, flags
    <3>2. /\ pc[p] \notin {"qwait", "held", "asleep", "woken", "slept", "eintr"}
          /\ \E to \in Labels \ {"qwait", "held", "asleep", "woken", "slept", "eintr"} :
                pc' = [pc EXCEPT ![p] = to]
      BY <2>12 DEF Signal, Withdraw, notkilled, osenter, HostReturn, swiprocHost,
                   oshostintr, osleaveTake, osleaveEnd, osleaveReturn, Labels
    <3> QED
      BY <3>1, <3>2, OutsideStep
  <2>13. ASSUME UNCHANGED <<pc, sync, pr, killed>> PROVE LockInv'
    <3>1. OneOwner' /\ OwnerLocks' /\ QueueDistinct' /\ QueueWaits'
      BY <2>13 DEF sync, LockInv, OneOwner, OwnerLocks, QueueDistinct, QueueWaits,
                   Owner, Queued, InSection
    <3>2. NoStrayToken' /\ RendezSleeps' /\ RegisteredSleeps' /\ KilledSleeperReady'
      BY <2>13 DEF sync, LockInv, NoStrayToken, RendezSleeps, RegisteredSleeps,
                   KilledSleeperReady
    <3> QED
      BY <3>1, <3>2 DEF LockInv
  <2>14. ASSUME NEW p \in Procs, trapUSR1(p) PROVE LockInv'
    BY <2>13, <2>14 DEF trapUSR1
  <2>15. CASE UNCHANGED vars
    BY <2>13, <2>15 DEF vars, flags
  <2> QED
    BY <2>1, <2>2, <2>3, <2>4, <2>5, <2>6, <2>7, <2>9, <2>10, <2>11, <2>12, <2>14, <2>15
       DEF Next, Begin, Progress
<1> QED
  BY <1>1, <1>2, TypeCorrect, PTL DEF Spec

\* The QLock excludes, for any number of Procs and any use of Sleep, Wakeup
\* and swiproc meanwhile.
THEOREM Exclusion == Spec => []QLockExcludes
<1>1. LockInv => QLockExcludes
  BY DEF LockInv, OneOwner, QLockExcludes, Owner
<1> QED
  BY <1>1, LockInvariant, PTL

\* No semaphore is ever posted for a Proc that is not to block on it.
THEOREM Tokens == Spec => []NoStrayToken
<1>1. LockInv => NoStrayToken
  BY DEF LockInv
<1> QED
  BY <1>1, LockInvariant, PTL

\* A Proc marked killed is not left asleep.
THEOREM KilledWoken == Spec => []KilledSleeperReady
<1>1. LockInv => KilledSleeperReady
  BY DEF LockInv
<1> QED
  BY <1>1, LockInvariant, PTL

\* Serialised by the QLock, Sleep never panics with "double sleep".
THEOREM SingleSleeper == Spec => []NoDoubleSleep
<1>1. TypeOK /\ LockInv => NoDoubleSleep
  <2> SUFFICES ASSUME TypeOK, LockInv, NEW p \in Procs, pc[p] = "held", rp # None
               PROVE  FALSE
    BY DEF NoDoubleSleep
  <2>1. PICK q \in Procs : rp = q
    BY DEF TypeOK
  <2>2. pc[q] = "asleep"
    BY <2>1 DEF LockInv, RendezSleeps
  <2>3. Owner(p) /\ Owner(q)
    BY <2>2 DEF Owner, InSection
  <2> QED
    BY <2>2, <2>3 DEF LockInv, OneOwner
<1> QED
  BY <1>1, LockInvariant, TypeCorrect, PTL

-----------------------------------------------------------------------------
(* The event and its signallers.                                           *)

\* No wakeup is lost between the test of the event and the block.
THEOREM WakeupKept == Spec => []NoLostWakeup
<1>1. Init => NoLostWakeup
  BY DEF Init, NoLostWakeup
<1>2. TypeOK /\ NoLostWakeup /\ [Next]_vars => NoLostWakeup'
  <2> SUFFICES ASSUME TypeOK, NoLostWakeup, [Next]_vars, cond', rp' # None
               PROVE  \E w \in Procs : pc'[w] = "wake"
    BY DEF NoLostWakeup
  <2>1. CASE UNCHANGED vars
    BY <2>1 DEF vars, sync, NoLostWakeup
  <2>2. ASSUME NEW p \in Procs, Signal(p) PROVE \E w \in Procs : pc'[w] = "wake"
    BY <2>2 DEF Signal, Goto, TypeOK
  <2>3. ASSUME NEW p \in Procs, Wakeup(p) PROVE FALSE
    BY <2>3 DEF Wakeup
  <2>4. ASSUME NEW p \in Procs, SleepBlock(p) PROVE FALSE
    BY <2>4 DEF SleepBlock
  <2>5. ASSUME cond, rp # None,
               \A w \in Procs : pc[w] = "wake" => pc'[w] = "wake"
        PROVE  \E w \in Procs : pc'[w] = "wake"
    BY <2>5 DEF NoLostWakeup
  <2>6. ASSUME NEW p \in Procs,
               \/ qlockFree(p) \/ qlockQueue(p) \/ qlockGranted(p)
               \/ SleepPass(p) \/ SleepWoken(p) \/ SleepFinish(p)
               \/ Consume(p) \/ SleepAgain(p) \/ GiveUp(p) \/ Withdraw(p) \/ notkilled(p)
        PROVE  \E w \in Procs : pc'[w] = "wake"
    <3>1. cond /\ rp # None
      BY <2>6 DEF qlockFree, qlockQueue, qlockGranted, SleepPass, SleepWoken, SleepFinish,
                  Consume, SleepAgain, GiveUp, Withdraw, notkilled, qunlock, sync
    <3>2. \A w \in Procs : pc[w] = "wake" => pc'[w] = "wake"
      BY <2>6 DEF qlockFree, qlockQueue, qlockGranted, SleepPass, SleepWoken, SleepFinish,
                  SleepReturn, Consume, SleepAgain, GiveUp, Withdraw, notkilled, Goto, TypeOK
    <3> QED
      BY <2>5, <3>1, <3>2
  <2>7. ASSUME NEW p \in Procs,
               \/ \E t \in Procs \ {p}, i \in Interps : swiprocSleep(p, t, i)
               \/ \E t \in Procs \ {p}, i \in Interps : swiprocMark(p, t, i)
               \/ swiprocHost(p) \/ oshostintr(p) \/ osenter(p) \/ HostReturn(p)
               \/ osleaveTake(p) \/ osleaveEnd(p) \/ osleaveReturn(p) \/ trapUSR1(p)
        PROVE  \E w \in Procs : pc'[w] = "wake"
    <3>1. cond /\ rp # None
      BY <2>7 DEF swiprocSleep, swiprocMark, swiprocHost, oshostintr, osenter, HostReturn,
                  osleaveTake, osleaveEnd, osleaveReturn, trapUSR1, sync
    <3>2. \A w \in Procs : pc[w] = "wake" => pc'[w] = "wake"
      BY <2>7 DEF swiprocSleep, swiprocMark, swiprocHost, oshostintr, osenter, HostReturn,
                  osleaveTake, osleaveEnd, osleaveReturn, trapUSR1, Goto, TypeOK
    <3> QED
      BY <2>5, <3>1, <3>2
  <2> QED
    BY <2>1, <2>2, <2>3, <2>4, <2>6, <2>7 DEF Next, Begin, Progress
<1> QED
  BY <1>1, <1>2, TypeCorrect, PTL DEF Spec

-----------------------------------------------------------------------------
(* Signals.  intwait admits one interrupter at a time, so a signal that is *)
(* sent or pending is the only one for its target.                         *)

Sending(s, p) == pc[s] = "swi3" /\ target[s] = p

SignalInv ==
    /\ SignalPosted
    /\ \A s \in Procs : pc[s] \in {"swi2", "swi3"} => target[s] \in Procs
    /\ \A s, p \in Procs : Sending(s, p) => ~sig[p]
    /\ \A r, s, p \in Procs : Sending(r, p) /\ Sending(s, p) => r = s

THEOREM SignalInvariant == Spec => []SignalInv
<1>1. Init => SignalInv
  BY DEF Init, SignalInv, SignalPosted, Sending
<1>2. TypeOK /\ SignalInv /\ [Next]_vars => SignalInv'
  <2> SUFFICES ASSUME TypeOK, SignalInv, [Next]_vars PROVE SignalInv'
    OBVIOUS
  <2> USE DEF TypeOK, Goto
  <2>1. ASSUME UNCHANGED <<intwait, sig, target>>,
               NEW p \in Procs, NEW to \in Labels \ {"swi2", "swi3"},
               pc[p] \notin {"swi2", "swi3"},
               pc' = [pc EXCEPT ![p] = to]
        PROVE  SignalInv'
    <3>1. \A s \in Procs : /\ pc'[s] = "swi2" <=> pc[s] = "swi2"
                           /\ pc'[s] = "swi3" <=> pc[s] = "swi3"
      BY <2>1
    <3> QED
      BY <2>1, <3>1 DEF SignalInv, SignalPosted, Sending
  <2>2. ASSUME UNCHANGED <<intwait, sig, target, pc>> PROVE SignalInv'
    BY <2>2 DEF SignalInv, SignalPosted, Sending
  <2>3. ASSUME NEW p \in Procs,
               \/ qlockFree(p) \/ qlockQueue(p) \/ qlockGranted(p)
               \/ SleepPass(p) \/ SleepBlock(p) \/ SleepWoken(p) \/ SleepFinish(p)
               \/ Consume(p) \/ SleepAgain(p) \/ GiveUp(p) \/ Signal(p) \/ Wakeup(p)
               \/ osenter(p) \/ HostReturn(p)
               \/ osleaveTake(p) \/ osleaveEnd(p) \/ osleaveReturn(p)
        PROVE  SignalInv'
    <3>1. UNCHANGED <<intwait, sig, target>>
      BY <2>3 DEF qlockFree, qlockQueue, qlockGranted, SleepPass, SleepBlock, SleepWoken,
                  SleepFinish, Consume, SleepAgain, GiveUp, Signal, Wakeup, osenter,
                  HostReturn, osleaveTake, osleaveEnd, osleaveReturn, flags
    <3>2. /\ pc[p] \notin {"swi2", "swi3"}
          /\ \E to \in Labels \ {"swi2", "swi3"} : pc' = [pc EXCEPT ![p] = to]
      BY <2>3 DEF qlockFree, qlockQueue, qlockGranted, SleepPass, SleepBlock, SleepWoken,
                  SleepFinish, SleepReturn, Consume, SleepAgain, GiveUp, Signal, Wakeup,
                  osenter, HostReturn, osleaveTake, osleaveEnd, osleaveReturn, Labels
    <3> QED
      BY <2>1, <3>1, <3>2
  <2>4. ASSUME NEW p \in Procs,
               \/ Withdraw(p) \/ notkilled(p)
               \/ \E t \in Procs \ {p}, i \in Interps : swiprocSleep(p, t, i)
        PROVE  SignalInv'
    <3>1. UNCHANGED <<intwait, sig, target, pc>>
      BY <2>4 DEF Withdraw, notkilled, swiprocSleep, flags
    <3> QED
      BY <2>2, <3>1
  <2>5. ASSUME NEW p \in Procs, NEW t \in Procs \ {p}, NEW i \in Interps,
               swiprocMark(p, t, i)
        PROVE  SignalInv'
    <3>1. /\ UNCHANGED <<intwait, sig>>
          /\ pc[p] = "idle"
          /\ pc' = [pc EXCEPT ![p] = "swi2"]
          /\ target' = [target EXCEPT ![p] = t]
      BY <2>5 DEF swiprocMark
    <3>2. \A r, q \in Procs : Sending(r, q)' <=> Sending(r, q)
      BY <3>1 DEF Sending
    <3>3. SignalPosted'
      BY <3>1, <3>2 DEF SignalInv, SignalPosted, Sending
    <3> QED
      BY <3>1, <3>2, <3>3 DEF SignalInv
  <2>6. ASSUME NEW s \in Procs, swiprocHost(s) PROVE SignalInv'
    <3> DEFINE p == target[s]
    <3>0. p \in Procs
      BY <2>6 DEF swiprocHost, SignalInv
    <3>1. CASE /\ ~intwait[p]
               /\ pc[s] = "swi2"
               /\ pc' = [pc EXCEPT ![s] = "swi3"]
               /\ intwait' = [intwait EXCEPT ![p] = TRUE]
               /\ UNCHANGED <<sig, target>>
      <4>1. ~sig[p] /\ \A r \in Procs : ~Sending(r, p)
        BY <3>0, <3>1 DEF SignalInv, SignalPosted, Sending
      <4>2. \A r, q \in Procs : Sending(r, q)' <=> Sending(r, q) \/ (r = s /\ q = p)
        BY <3>1 DEF Sending
      <4>3. SignalPosted'
        BY <3>0, <3>1, <4>1, <4>2 DEF SignalInv, SignalPosted, Sending
      <4>4. \A r \in Procs : pc'[r] \in {"swi2", "swi3"} => target'[r] \in Procs
        BY <3>1 DEF SignalInv
      <4>5. \A r, q \in Procs : Sending(r, q)' => ~sig'[q]
        BY <3>1, <4>1, <4>2 DEF SignalInv
      <4>6. \A r1, r2, q \in Procs : Sending(r1, q)' /\ Sending(r2, q)' => r1 = r2
        BY <4>1, <4>2 DEF SignalInv
      <4> QED
        BY <4>3, <4>4, <4>5, <4>6 DEF SignalInv
    <3>2. CASE /\ pc[s] = "swi2"
               /\ pc' = [pc EXCEPT ![s] = "idle"]
               /\ target' = [target EXCEPT ![s] = None]
               /\ UNCHANGED <<sig, intwait>>
      <4>1. \A r, q \in Procs : Sending(r, q)' <=> Sending(r, q)
        BY <3>2 DEF Sending
      <4>2. SignalPosted'
        BY <3>2, <4>1 DEF SignalInv, SignalPosted, Sending
      <4> QED
        BY <3>2, <4>1, <4>2 DEF SignalInv
    <3> QED
      BY <2>6, <3>1, <3>2 DEF swiprocHost, flags
  <2>7. ASSUME NEW s \in Procs, oshostintr(s) PROVE SignalInv'
    <3> DEFINE p == target[s]
    <3>1. /\ pc[s] = "swi3"
          /\ pc' = [pc EXCEPT ![s] = "idle"]
          /\ sig' = [sig EXCEPT ![p] = TRUE]
          /\ target' = [target EXCEPT ![s] = None]
          /\ UNCHANGED intwait
      BY <2>7 DEF oshostintr
    <3>2. p \in Procs
      BY <3>1 DEF SignalInv
    <3>3. Sending(s, p)
      BY <3>1 DEF Sending
    <3>4. \A r, q \in Procs : Sending(r, q)' <=> Sending(r, q) /\ r # s
      BY <3>1 DEF Sending
    <3>5. \A q \in Procs : sig'[q] <=> sig[q] \/ q = p
      BY <3>1, <3>2
    <3>6. \A q \in Procs : intwait[q] <=> sig[q] \/ \E r \in Procs : Sending(r, q)
      BY DEF SignalInv, SignalPosted, Sending
    <3>7. \A q \in Procs : intwait'[q] <=> sig'[q] \/ \E r \in Procs : Sending(r, q)'
      <4> SUFFICES ASSUME NEW q \in Procs
                   PROVE  intwait[q] <=> sig'[q] \/ \E r \in Procs : Sending(r, q)'
        BY <3>1
      <4>1. CASE q = p
        BY <3>3, <3>5, <3>6, <4>1
      <4>2. CASE q # p
        <5>1. \A r \in Procs : Sending(r, q)' <=> Sending(r, q)
          BY <3>4, <4>2 DEF Sending
        <5> QED
          BY <3>5, <3>6, <4>2, <5>1
      <4> QED
        BY <4>1, <4>2
    <3>8. SignalPosted'
      BY <3>7 DEF SignalPosted, Sending
    <3>9. \A r \in Procs : pc'[r] \in {"swi2", "swi3"} => target'[r] \in Procs
      BY <3>1 DEF SignalInv
    <3>10. \A r, q \in Procs : Sending(r, q)' => ~sig'[q]
      BY <3>2, <3>3, <3>4, <3>5 DEF SignalInv
    <3> QED
      BY <3>4, <3>8, <3>9, <3>10 DEF SignalInv
  <2>8. ASSUME NEW p \in Procs, trapUSR1(p) PROVE SignalInv'
    <3>1. /\ sig[p]
          /\ sig' = [sig EXCEPT ![p] = FALSE]
          /\ intwait' = [intwait EXCEPT ![p] = FALSE]
          /\ UNCHANGED <<pc, target>>
      BY <2>8 DEF trapUSR1
    <3>2. \A r \in Procs : ~Sending(r, p)
      BY <3>1 DEF SignalInv
    <3>3. \A r, q \in Procs : Sending(r, q)' <=> Sending(r, q)
      BY <3>1 DEF Sending
    <3>4. SignalPosted'
      BY <3>1, <3>2, <3>3 DEF SignalInv, SignalPosted, Sending
    <3> QED
      BY <3>1, <3>3, <3>4 DEF SignalInv
  <2>9. CASE UNCHANGED vars
    BY <2>2, <2>9 DEF vars, flags
  <2> QED
    BY <2>3, <2>4, <2>5, <2>6, <2>7, <2>8, <2>9 DEF Next, Begin, Progress
<1> QED
  BY <1>1, <1>2, TypeCorrect, PTL DEF Spec

\* The signal handler only ever runs for a Proc with intwait set, and a Proc
\* that waits for intwait to clear has a signal coming.
THEOREM Signalled == Spec => []SignalPosted
<1>1. SignalInv => SignalPosted
  BY DEF SignalInv
<1> QED
  BY <1>1, SignalInvariant, PTL

-----------------------------------------------------------------------------
(* The readers/writer lock.                                                *)


Readers == {p \in Procs : Reading(p)}

HoldsX(p) == at[p] \in {"rx", "rl", "rdone", "wx", "wkuse", "wwaitk", "writing", "wunk", "wunx"}
HoldsL(p) == at[p] \in {"rl", "runlock", "rlast", "rlastk"}
HoldsUse(p) == at[p] \in {"wkuse", "rlast", "wunk"}

\* x excludes, and its queue is the Procs waiting for it.
XInv == /\ \A p, q \in Procs : HoldsX(p) /\ HoldsX(q) => p = q
        /\ \A p \in Procs : HoldsX(p) => xlocked
        /\ Distinct(xq)
        /\ \A p \in Procs : In(p, xq) <=> at[p] \in {"rwaitx", "wwaitx"}

\* The queue of k is the writer waiting for the last reader.
KQueueInv == /\ Distinct(kq)
             /\ \A p \in Procs : In(p, kq) <=> at[p] = "wwaitk"

\* The spin locks are held where the code holds them.
SpinInv == /\ \A p \in Procs : l = p <=> HoldsL(p)
           /\ \A p \in Procs : kuse = p <=> HoldsUse(p)

\* readers counts the Procs between rlock and runlock.
CountInv == readers = Cardinality(Readers)

\* k is locked for the readers or for one writer.
KInv == /\ ReadersCloseK
        /\ \A p \in Procs : at[p] \in {"runlock", "rlast"} => klocked
        /\ \A p \in Procs : at[p] = "rlast" => readers = 0
        /\ \A w \in Procs : Writing(w) => /\ klocked
                                          /\ readers = 0
                                          /\ \A p \in Procs : at[p] \notin {"runlock", "rlast"}

-----------------------------------------------------------------------------
THEOREM RWTypeCorrect == RWSpec => []RWTypeOK
<1>1. ASSUME RWInit PROVE RWTypeOK
  <2>1. at \in [Procs -> RWLabels]
    BY <1>1 DEF RWInit, RWLabels
  <2>2. xq \in Seq(Procs) /\ kq \in Seq(Procs)
    BY <1>1 DEF RWInit
  <2>3. /\ xlocked \in BOOLEAN /\ klocked \in BOOLEAN
        /\ kuse \in Procs \cup {None} /\ l \in Procs \cup {None}
        /\ readers \in Int
    <3>1. 0 \in Int
      OBVIOUS
    <3> QED
      BY <1>1, <3>1 DEF RWInit
  <2> QED
    BY <2>1, <2>2, <2>3 DEF RWTypeOK
<1>2. RWTypeOK /\ [RWNext]_rwVars => RWTypeOK'
  <2> SUFFICES ASSUME RWTypeOK, [RWNext]_rwVars PROVE RWTypeOK'
    OBVIOUS
  <2> USE RWlockAssumption, ProcsAssumption DEF RWTypeOK, RWLabels, RWGoto
  <2>1. ASSUME NEW p \in Procs, NEW w \in {"rwaitx", "wwaitx"}, NEW g \in {"rx", "wx"},
               qlockX(p, w, g)
        PROVE  RWTypeOK'
    <3>1. at' \in [Procs -> RWLabels]
      BY <2>1 DEF qlockX
    <3>2. xq' \in Seq(Procs)
      <4>1. xq' = xq \/ xq' = Append(xq, p)
        BY <2>1 DEF qlockX
      <4> QED
        BY <4>1, AppendInSeq
    <3>3. xlocked' \in BOOLEAN /\ UNCHANGED <<klocked, kq, kuse, l, readers>>
      BY <2>1 DEF qlockX
    <3> QED
      BY <3>1, <3>2, <3>3
  <2>2. ASSUME NEW p \in Procs, NEW f \in RWLabels, NEW n \in RWLabels, qunlockX(p, f, n)
        PROVE  RWTypeOK'
    <3>1. at' \in [Procs -> RWLabels]
      BY <2>2 DEF qunlockX
    <3>2. xq' \in Seq(Procs)
      <4>1. xq' = xq \/ (xq # << >> /\ xq' = Tail(xq))
        BY <2>2 DEF qunlockX
      <4> QED
        BY <4>1, TailInSeq
    <3>3. xlocked' \in BOOLEAN /\ UNCHANGED <<klocked, kq, kuse, l, readers>>
      BY <2>2 DEF qunlockX
    <3> QED
      BY <3>1, <3>2, <3>3
  <2>3. ASSUME NEW p \in Procs, NEW f \in RWLabels, NEW n \in RWLabels, qunlockK(p, f, n),
               UNCHANGED <<xlocked, xq, l, readers>>
        PROVE  RWTypeOK'
    <3>1. at' \in [Procs -> RWLabels]
      BY <2>3 DEF qunlockK
    <3>2. kq' \in Seq(Procs)
      <4>1. kq' = kq \/ (kq # << >> /\ kq' = Tail(kq))
        BY <2>3 DEF qunlockK
      <4> QED
        BY <4>1, TailInSeq
    <3>3. klocked' \in BOOLEAN /\ kuse' = None
      BY <2>3 DEF qunlockK
    <3> QED
      BY <2>3, <3>1, <3>2, <3>3
  <2>4. ASSUME NEW p \in Procs, canrlock(p) \/ rlockSpin(p) \/ rlockCount(p)
        PROVE  RWTypeOK'
    <3>1. CASE canrlock(p) \/ rlockSpin(p)
      BY <3>1 DEF canrlock, rlockSpin
    <3>2. CASE rlockCount(p)
      <4>1. at' \in [Procs -> RWLabels] /\ readers' \in Int /\ l' = None
        BY <3>2 DEF rlockCount
      <4>2. klocked' \in BOOLEAN /\ UNCHANGED <<xlocked, xq, kq, kuse>>
        BY <3>2 DEF rlockCount
      <4> QED
        BY <4>1, <4>2
    <3> QED
      BY <2>4, <3>1, <3>2
  <2>5. ASSUME NEW p \in Procs,
               runlock(p) \/ runlockReturn(p) \/ runlockLast(p) \/ runlockEnd(p)
        PROVE  RWTypeOK'
    BY <2>5 DEF runlock, runlockReturn, runlockLast, runlockEnd
  <2>6. ASSUME NEW p \in Procs, wlockSpin(p) \/ wunlock(p) PROVE RWTypeOK'
    BY <2>6 DEF wlockSpin, wunlock
  <2>7. ASSUME NEW p \in Procs, wlockK(p) PROVE RWTypeOK'
    <3>1. at' \in [Procs -> RWLabels]
      BY <2>7 DEF wlockK
    <3>2. kq' \in Seq(Procs)
      <4>1. kq' = kq \/ kq' = Append(kq, p)
        BY <2>7 DEF wlockK
      <4> QED
        BY <4>1, AppendInSeq
    <3>3. klocked' \in BOOLEAN /\ kuse' = None /\ UNCHANGED <<xlocked, xq, l, readers>>
      BY <2>7 DEF wlockK
    <3> QED
      BY <3>1, <3>2, <3>3
  <2>8. CASE UNCHANGED rwVars
    BY <2>8 DEF rwVars
  <2> QED
    BY <2>1, <2>2, <2>3, <2>4, <2>5, <2>6, <2>7, <2>8
       DEF RWNext, RWBegin, RWProgress, rlock, wlock, rlockReturn, wunlockX, runlockOpen, wunlockK
<1> QED
  BY <1>1, <1>2, PTL DEF RWSpec

-----------------------------------------------------------------------------
(* How at changes: each action moves its Proc, and a qunlock that hands a  *)
(* lock over moves the Proc that gets it too.                              *)

Moves(p, to) == at' = [at EXCEPT ![p] = to]

THEOREM QueueInvariant == RWSpec => [](XInv /\ KQueueInv)
<1>1. RWInit => XInv /\ KQueueInv
  BY DEF RWInit, XInv, KQueueInv, HoldsX, In, Distinct
<1>2. RWTypeOK /\ XInv /\ KQueueInv /\ [RWNext]_rwVars => XInv'
  <2> SUFFICES ASSUME RWTypeOK, XInv, KQueueInv, [RWNext]_rwVars PROVE XInv'
    OBVIOUS
  <2> USE DEF RWTypeOK, RWGoto
  <2>1. ASSUME NEW p \in Procs, NEW w \in {"rwaitx", "wwaitx"}, NEW g \in {"rx", "wx"},
               at[p] = "idle", xlocked, xq' = Append(xq, p), Moves(p, w), UNCHANGED xlocked
        PROVE  XInv'
    <3>1. ~In(p, xq)
      BY <2>1 DEF XInv
    <3>2. Distinct(xq') /\ \A q \in Procs : In(q, xq') <=> In(q, xq) \/ q = p
      BY <2>1, <3>1, JoinQueue DEF XInv
    <3>3. \A q \in Procs : HoldsX(q)' <=> HoldsX(q)
      BY <2>1 DEF HoldsX, Moves
    <3>4. \A q \in Procs : In(q, xq') <=> at'[q] \in {"rwaitx", "wwaitx"}
      BY <2>1, <3>2 DEF XInv, Moves
    <3> QED
      BY <2>1, <3>2, <3>3, <3>4 DEF XInv
  <2>2. ASSUME NEW p \in Procs, NEW g \in {"rx", "wx"},
               at[p] = "idle", ~xlocked, xlocked', Moves(p, g), UNCHANGED xq
        PROVE  XInv'
    <3>1. \A q \in Procs : HoldsX(q)' <=> q = p
      BY <2>2 DEF HoldsX, Moves, XInv
    <3>2. \A q \in Procs : In(q, xq') <=> at'[q] \in {"rwaitx", "wwaitx"}
      BY <2>2 DEF XInv, Moves
    <3> QED
      BY <2>2, <3>1, <3>2 DEF XInv
  <2>3. ASSUME NEW p \in Procs, HoldsX(p), NEW n \in {"reading", "idle"},
               xq # << >>, xq' = Tail(xq), UNCHANGED xlocked,
               at' = [at EXCEPT ![p] = n,
                                ![Head(xq)] = IF @ = "rwaitx" THEN "rx" ELSE "wx"]
        PROVE  XInv'
    <3> DEFINE h == Head(xq)
    <3>1. h \in Procs /\ In(h, xq)
      BY <2>3, TailFacts, LeaveQueue DEF XInv
    <3>2. Distinct(xq') /\ \A q \in Procs : In(q, xq') <=> In(q, xq) /\ q # h
      BY <2>3, LeaveQueue DEF XInv
    <3> HIDE DEF h
    <3>3. at[h] \in {"rwaitx", "wwaitx"} /\ h # p
      BY <2>3, <3>1 DEF XInv, HoldsX
    <3>4. at'[p] = n /\ at'[h] \in {"rx", "wx"} /\ \A q \in Procs \ {p, h} : at'[q] = at[q]
      BY <2>3, <3>1, <3>3 DEF h
    <3>5. \A q \in Procs : HoldsX(q)' <=> q = h
      BY <2>3, <3>1, <3>4 DEF HoldsX, XInv
    <3>6. \A q \in Procs : In(q, xq') <=> at'[q] \in {"rwaitx", "wwaitx"}
      BY <2>3, <3>2, <3>3, <3>4 DEF XInv, HoldsX
    <3> QED
      BY <2>3, <3>2, <3>5, <3>6 DEF XInv
  <2>4. ASSUME NEW p \in Procs, HoldsX(p), NEW n \in {"reading", "idle"},
               xq = << >>, UNCHANGED xq, Moves(p, n)
        PROVE  XInv'
    <3>1. \A q \in Procs : ~HoldsX(q)'
      BY <2>4 DEF HoldsX, XInv, Moves
    <3>2. \A q \in Procs : In(q, xq') <=> at'[q] \in {"rwaitx", "wwaitx"}
      BY <2>4 DEF XInv, HoldsX, Moves
    <3> QED
      BY <2>4, <3>1, <3>2 DEF XInv
  <2>5. ASSUME UNCHANGED <<xlocked, xq>>,
               \A q \in Procs : /\ HoldsX(q)' <=> HoldsX(q)
                                /\ at'[q] \in {"rwaitx", "wwaitx"}
                                     <=> at[q] \in {"rwaitx", "wwaitx"}
        PROVE  XInv'
    BY <2>5 DEF XInv
  <2>6. ASSUME NEW p \in Procs, NEW w \in {"rwaitx", "wwaitx"}, NEW g \in {"rx", "wx"},
               qlockX(p, w, g)
        PROVE  XInv'
    BY <2>1, <2>2, <2>6 DEF qlockX, Moves
  <2>7. ASSUME NEW p \in Procs, canrlock(p) PROVE XInv'
    BY <2>2, <2>7 DEF canrlock, Moves
  <2>8. ASSUME NEW p \in Procs, rlockReturn(p) PROVE XInv'
    BY <2>3, <2>4, <2>8 DEF rlockReturn, qunlockX, HoldsX, Moves
  <2>9. ASSUME NEW p \in Procs, wunlockX(p) PROVE XInv'
    BY <2>3, <2>4, <2>9 DEF wunlockX, qunlockX, HoldsX, Moves
  <2>10. ASSUME NEW p \in Procs,
                \/ rlockSpin(p) \/ rlockCount(p) \/ runlock(p) \/ runlockReturn(p)
                \/ runlockLast(p) \/ runlockEnd(p) \/ wlockSpin(p) \/ wlockK(p) \/ wunlock(p)
         PROVE  XInv'
    BY <2>5, <2>10 DEF rlockSpin, rlockCount, runlock, runlockReturn, runlockLast,
                       runlockEnd, wlockSpin, wlockK, wunlock, HoldsX
  <2>11. ASSUME NEW p \in Procs, NEW f \in {"rlast", "wunk"},
                NEW n \in {"rlastk", "wunx"}, HoldsX(p) <=> n = "wunx",
                qunlockK(p, f, n), UNCHANGED <<xlocked, xq>>
         PROVE  XInv'
    <3>1. CASE kq # << >>
      <4>1. Head(kq) \in Procs /\ at[Head(kq)] = "wwaitk"
        BY <3>1, TailFacts, LeaveQueue DEF KQueueInv
      <4>2. at' = [at EXCEPT ![p] = n, ![Head(kq)] = "writing"] /\ at[p] = f
        BY <2>11, <3>1 DEF qunlockK
      <4> QED
        BY <2>5, <2>11, <4>1, <4>2 DEF HoldsX
    <3>2. CASE kq = << >>
      BY <2>5, <2>11, <3>2 DEF qunlockK, HoldsX
    <3> QED
      BY <3>1, <3>2
  <2>12. ASSUME NEW p \in Procs, runlockOpen(p) \/ wunlockK(p) PROVE XInv'
    <3>1. CASE runlockOpen(p)
      <4>1. at[p] = "rlast" /\ ~HoldsX(p)
        BY <3>1 DEF runlockOpen, qunlockK, HoldsX
      <4> QED
        BY <2>11, <3>1, <4>1 DEF runlockOpen
    <3>2. CASE wunlockK(p)
      <4>1. at[p] = "wunk" /\ HoldsX(p)
        BY <3>2 DEF wunlockK, qunlockK, HoldsX
      <4> QED
        BY <2>11, <3>2, <4>1 DEF wunlockK
    <3> QED
      BY <2>12, <3>1, <3>2
  <2>13. CASE UNCHANGED rwVars
    BY <2>5, <2>13 DEF rwVars, HoldsX
  <2> QED
    BY <2>6, <2>7, <2>8, <2>9, <2>10, <2>12, <2>13 DEF RWNext, RWBegin, RWProgress, rlock, wlock
<1>3. RWTypeOK /\ XInv /\ KQueueInv /\ [RWNext]_rwVars => KQueueInv'
  <2> SUFFICES ASSUME RWTypeOK, XInv, KQueueInv, [RWNext]_rwVars PROVE KQueueInv'
    OBVIOUS
  <2> USE DEF RWTypeOK, RWGoto
  <2>1. ASSUME UNCHANGED kq, \A q \in Procs : at'[q] = "wwaitk" <=> at[q] = "wwaitk"
        PROVE  KQueueInv'
    BY <2>1 DEF KQueueInv
  <2>2. ASSUME NEW p \in Procs,
               NEW w \in {"rwaitx", "wwaitx"}, NEW g \in {"rx", "wx"}, qlockX(p, w, g)
        PROVE  KQueueInv'
    BY <2>1, <2>2 DEF qlockX
  <2>3. ASSUME NEW p \in Procs, rlockReturn(p) \/ wunlockX(p) PROVE KQueueInv'
    <3>1. PICK f \in {"rdone", "wunx"}, n \in {"reading", "idle"} : qunlockX(p, f, n)
      BY <2>3 DEF rlockReturn, wunlockX
    <3>2. CASE xq # << >>
      <4>1. Head(xq) \in Procs /\ at[Head(xq)] \in {"rwaitx", "wwaitx"}
        BY <3>2, TailFacts, LeaveQueue DEF XInv
      <4>2. /\ at[p] = f
            /\ at' = [at EXCEPT ![p] = n,
                                ![Head(xq)] = IF @ = "rwaitx" THEN "rx" ELSE "wx"]
            /\ UNCHANGED kq
        BY <3>1, <3>2 DEF qunlockX
      <4> QED
        BY <2>1, <4>1, <4>2
    <3>3. CASE xq = << >>
      BY <2>1, <3>1, <3>3 DEF qunlockX
    <3> QED
      BY <3>2, <3>3
  <2>4. ASSUME NEW p \in Procs,
               \/ canrlock(p) \/ rlockSpin(p) \/ rlockCount(p) \/ runlock(p) \/ runlockReturn(p)
               \/ runlockLast(p) \/ runlockEnd(p) \/ wlockSpin(p) \/ wunlock(p)
        PROVE  KQueueInv'
    BY <2>1, <2>4 DEF canrlock, rlockSpin, rlockCount, runlock, runlockReturn, runlockLast,
                      runlockEnd, wlockSpin, wunlock
  <2>5. ASSUME NEW p \in Procs, wlockK(p) PROVE KQueueInv'
    <3>1. at[p] = "wkuse" /\ ~In(p, kq)
      BY <2>5 DEF wlockK, KQueueInv
    <3>2. CASE klocked
      <4>1. kq' = Append(kq, p) /\ at' = [at EXCEPT ![p] = "wwaitk"]
        BY <2>5, <3>2 DEF wlockK
      <4>2. Distinct(kq') /\ \A q \in Procs : In(q, kq') <=> In(q, kq) \/ q = p
        BY <3>1, <4>1, JoinQueue DEF KQueueInv
      <4> QED
        BY <4>1, <4>2 DEF KQueueInv
    <3>3. CASE ~klocked
      BY <2>1, <2>5, <3>3 DEF wlockK
    <3> QED
      BY <3>2, <3>3
  <2>6. ASSUME NEW p \in Procs, runlockOpen(p) \/ wunlockK(p) PROVE KQueueInv'
    <3>1. PICK f \in {"rlast", "wunk"}, n \in {"rlastk", "wunx"} : qunlockK(p, f, n)
      BY <2>6 DEF runlockOpen, wunlockK
    <3>2. CASE kq # << >>
      <4> DEFINE h == Head(kq)
      <4>1. h \in Procs /\ at[h] = "wwaitk"
        BY <3>2, TailFacts, LeaveQueue DEF KQueueInv
      <4>2. Distinct(kq') /\ \A q \in Procs : In(q, kq') <=> In(q, kq) /\ q # h
        <5>1. kq' = Tail(kq)
          BY <3>1, <3>2 DEF qunlockK
        <5> QED
          BY <3>2, <5>1, LeaveQueue DEF KQueueInv
      <4>3. at[p] = f /\ at' = [at EXCEPT ![p] = n, ![h] = "writing"]
        BY <3>1, <3>2 DEF qunlockK
      <4> HIDE DEF h
      <4> QED
        BY <4>1, <4>2, <4>3 DEF KQueueInv
    <3>3. CASE kq = << >>
      BY <2>1, <3>1, <3>3 DEF qunlockK
    <3> QED
      BY <3>2, <3>3
  <2>7. CASE UNCHANGED rwVars
    BY <2>1, <2>7 DEF rwVars
  <2> QED
    BY <2>2, <2>3, <2>4, <2>5, <2>6, <2>7 DEF RWNext, RWBegin, RWProgress, rlock, wlock
<1> QED
  BY <1>1, <1>2, <1>3, RWTypeCorrect, PTL DEF RWSpec

\* What a hand-over does to the other Procs.
LEMMA HandOverX ==
    ASSUME RWTypeOK, XInv, NEW p \in Procs, NEW f \in {"rdone", "wunx"},
           NEW n \in {"reading", "idle"}, qunlockX(p, f, n)
    PROVE  /\ at[p] = f /\ at'[p] = n
           /\ \A q \in Procs \ {p} : \/ at'[q] = at[q]
                                     \/ /\ at[q] \in {"rwaitx", "wwaitx"}
                                        /\ at'[q] \in {"rx", "wx"}
<1>1. CASE xq # << >>
  <2>1. Head(xq) \in Procs /\ at[Head(xq)] \in {"rwaitx", "wwaitx"}
    BY <1>1, TailFacts, LeaveQueue DEF XInv, RWTypeOK
  <2>2. /\ at[p] = f
        /\ at' = [at EXCEPT ![p] = n,
                            ![Head(xq)] = IF @ = "rwaitx" THEN "rx" ELSE "wx"]
    BY <1>1 DEF qunlockX
  <2> QED
    BY <2>1, <2>2 DEF RWTypeOK
<1>2. CASE xq = << >>
  BY <1>2 DEF qunlockX, RWTypeOK
<1> QED
  BY <1>1, <1>2

LEMMA HandOverK ==
    ASSUME RWTypeOK, KQueueInv, NEW p \in Procs, NEW f \in {"rlast", "wunk"},
           NEW n \in {"rlastk", "wunx"}, qunlockK(p, f, n)
    PROVE  /\ at[p] = f /\ at'[p] = n /\ kuse' = None
           /\ \A q \in Procs \ {p} : \/ at'[q] = at[q]
                                     \/ /\ at[q] = "wwaitk" /\ at'[q] = "writing"
                                        /\ klocked' = klocked
<1>1. CASE kq # << >>
  <2>1. Head(kq) \in Procs /\ at[Head(kq)] = "wwaitk"
    BY <1>1, TailFacts, LeaveQueue DEF KQueueInv, RWTypeOK
  <2>2. /\ at[p] = f /\ kuse' = None /\ klocked' = klocked
        /\ at' = [at EXCEPT ![p] = n, ![Head(kq)] = "writing"]
    BY <1>1 DEF qunlockK
  <2> QED
    BY <2>1, <2>2 DEF RWTypeOK
<1>2. CASE kq = << >>
  BY <1>2 DEF qunlockK, RWTypeOK
<1> QED
  BY <1>1, <1>2

THEOREM SpinInvariant == RWSpec => []SpinInv
<1>1. RWInit => SpinInv
  BY RWlockAssumption, ProcsAssumption DEF RWInit, SpinInv, HoldsL, HoldsUse
<1>2. RWTypeOK /\ XInv /\ KQueueInv /\ SpinInv /\ [RWNext]_rwVars => SpinInv'
  <2> SUFFICES ASSUME RWTypeOK, XInv, KQueueInv, SpinInv, [RWNext]_rwVars PROVE SpinInv'
    OBVIOUS
  <2> USE RWlockAssumption, ProcsAssumption DEF RWTypeOK, RWGoto
  <2>1. ASSUME UNCHANGED <<l, kuse>>,
               \A q \in Procs : (HoldsL(q)' <=> HoldsL(q)) /\ (HoldsUse(q)' <=> HoldsUse(q))
        PROVE  SpinInv'
    BY <2>1 DEF SpinInv
  <2>2. ASSUME NEW p \in Procs,
               NEW w \in {"rwaitx", "wwaitx"}, NEW g \in {"rx", "wx"}, qlockX(p, w, g)
        PROVE  SpinInv'
    BY <2>1, <2>2 DEF qlockX, HoldsL, HoldsUse
  <2>3. ASSUME NEW p \in Procs, rlockReturn(p) \/ wunlockX(p) PROVE SpinInv'
    <3>1. PICK f \in {"rdone", "wunx"}, n \in {"reading", "idle"} : qunlockX(p, f, n)
      BY <2>3 DEF rlockReturn, wunlockX
    <3>2. UNCHANGED <<l, kuse>>
      BY <3>1 DEF qunlockX
    <3> QED
      BY <2>1, <3>1, <3>2, HandOverX DEF HoldsL, HoldsUse
  <2>4. ASSUME NEW p \in Procs, canrlock(p) PROVE SpinInv'
    BY <2>1, <2>4 DEF canrlock, HoldsL, HoldsUse
  <2>5. ASSUME NEW p \in Procs, rlockSpin(p) \/ rlockCount(p) \/ runlock(p) \/ runlockReturn(p)
        PROVE  SpinInv'
    <3>1. UNCHANGED kuse /\ \A q \in Procs : HoldsUse(q)' <=> HoldsUse(q)
      BY <2>5 DEF rlockSpin, rlockCount, runlock, runlockReturn, HoldsUse
    <3>2. \A q \in Procs : l' = q <=> HoldsL(q)'
      BY <2>5 DEF rlockSpin, rlockCount, runlock, runlockReturn, HoldsL, SpinInv
    <3> QED
      BY <3>1, <3>2 DEF SpinInv
  <2>6. ASSUME NEW p \in Procs, runlockLast(p) \/ runlockEnd(p) PROVE SpinInv'
    <3>1. \A q \in Procs : kuse' = q <=> HoldsUse(q)'
      BY <2>6 DEF runlockLast, runlockEnd, HoldsUse, SpinInv
    <3>2. \A q \in Procs : l' = q <=> HoldsL(q)'
      BY <2>6 DEF runlockLast, runlockEnd, HoldsL, SpinInv
    <3> QED
      BY <3>1, <3>2 DEF SpinInv
  <2>7. ASSUME NEW p \in Procs, wlockSpin(p) \/ wlockK(p) \/ wunlock(p) PROVE SpinInv'
    <3>1. UNCHANGED l /\ \A q \in Procs : HoldsL(q)' <=> HoldsL(q)
      BY <2>7 DEF wlockSpin, wlockK, wunlock, HoldsL
    <3>2. \A q \in Procs : kuse' = q <=> HoldsUse(q)'
      BY <2>7 DEF wlockSpin, wlockK, wunlock, HoldsUse, SpinInv
    <3> QED
      BY <3>1, <3>2 DEF SpinInv
  <2>8. ASSUME NEW p \in Procs, runlockOpen(p) \/ wunlockK(p) PROVE SpinInv'
    <3>1. UNCHANGED l
      BY <2>8 DEF runlockOpen, wunlockK
    <3>2. \/ qunlockK(p, "rlast", "rlastk")
          \/ qunlockK(p, "wunk", "wunx")
      BY <2>8 DEF runlockOpen, wunlockK
    <3>3. \A q \in Procs : kuse' = q <=> HoldsUse(q)'
      BY <3>2, HandOverK DEF HoldsUse, SpinInv
    <3>4. \A q \in Procs : HoldsL(q)' <=> HoldsL(q)
      BY <3>2, HandOverK DEF HoldsL
    <3> QED
      BY <3>1, <3>3, <3>4 DEF SpinInv
  <2>9. CASE UNCHANGED rwVars
    BY <2>1, <2>9 DEF rwVars, HoldsL, HoldsUse
  <2> QED
    BY <2>2, <2>3, <2>4, <2>5, <2>6, <2>7, <2>8, <2>9
       DEF RWNext, RWBegin, RWProgress, rlock, wlock
<1> QED
  BY <1>1, <1>2, RWTypeCorrect, QueueInvariant, PTL DEF RWSpec

THEOREM CountInvariant == RWSpec => []CountInv
<1>1. RWInit => CountInv
  <2> SUFFICES ASSUME RWInit PROVE CountInv
    OBVIOUS
  <2>1. Readers = {}
    BY DEF RWInit, Readers, Reading
  <2> QED
    BY <2>1, FS_EmptySet DEF RWInit, CountInv
<1>2. RWTypeOK /\ XInv /\ KQueueInv /\ CountInv /\ [RWNext]_rwVars => CountInv'
  <2> SUFFICES ASSUME RWTypeOK, XInv, KQueueInv, CountInv, [RWNext]_rwVars PROVE CountInv'
    OBVIOUS
  <2> USE DEF RWTypeOK, RWGoto
  <2>0. IsFiniteSet(Readers)
    BY RWlockAssumption, ProcsAssumption, FS_Subset DEF Readers
  <2>1. ASSUME UNCHANGED readers, \A q \in Procs : Reading(q)' <=> Reading(q)
        PROVE  CountInv'
    <3>1. Readers' = Readers
      BY <2>1 DEF Readers
    <3> QED
      BY <2>1, <3>1 DEF CountInv
  <2>2. ASSUME NEW p \in Procs,
               NEW w \in {"rwaitx", "wwaitx"}, NEW g \in {"rx", "wx"}, qlockX(p, w, g)
        PROVE  CountInv'
    BY <2>1, <2>2 DEF qlockX, Reading
  <2>3. ASSUME NEW p \in Procs, rlockReturn(p) \/ wunlockX(p) PROVE CountInv'
    <3>1. \/ qunlockX(p, "rdone", "reading")
          \/ qunlockX(p, "wunx", "idle")
      BY <2>3 DEF rlockReturn, wunlockX
    <3>2. \A q \in Procs : Reading(q)' <=> Reading(q)
      BY <3>1, HandOverX DEF Reading
    <3> QED
      BY <2>1, <3>1, <3>2 DEF qunlockX
  <2>4. ASSUME NEW p \in Procs,
               \/ canrlock(p) \/ rlockSpin(p) \/ runlockReturn(p)
               \/ runlockLast(p) \/ runlockEnd(p) \/ wlockSpin(p) \/ wlockK(p) \/ wunlock(p)
        PROVE  CountInv'
    BY <2>1, <2>4 DEF canrlock, rlockSpin, runlockReturn, runlockLast, runlockEnd,
                      wlockSpin, wlockK, wunlock, Reading
  <2>5. ASSUME NEW p \in Procs, rlockCount(p) PROVE CountInv'
    <3>1. p \notin Readers /\ Readers' = Readers \cup {p}
      BY <2>5 DEF rlockCount, Readers, Reading
    <3>2. Cardinality(Readers') = Cardinality(Readers) + 1
      BY <2>0, <3>1, FS_AddElement
    <3> QED
      BY <2>5, <3>2 DEF rlockCount, CountInv
  <2>6. ASSUME NEW p \in Procs, runlock(p) PROVE CountInv'
    <3>1. p \in Readers /\ Readers' = Readers \ {p}
      BY <2>6 DEF runlock, Readers, Reading
    <3>2. Cardinality(Readers') = Cardinality(Readers) - 1
      BY <2>0, <3>1, FS_RemoveElement
    <3> QED
      BY <2>6, <3>2 DEF runlock, CountInv
  <2>7. ASSUME NEW p \in Procs, runlockOpen(p) \/ wunlockK(p) PROVE CountInv'
    <3>1. \/ qunlockK(p, "rlast", "rlastk")
          \/ qunlockK(p, "wunk", "wunx")
      BY <2>7 DEF runlockOpen, wunlockK
    <3>2. \A q \in Procs : Reading(q)' <=> Reading(q)
      BY <3>1, HandOverK DEF Reading
    <3> QED
      BY <2>1, <2>7, <3>2 DEF runlockOpen, wunlockK
  <2>8. CASE UNCHANGED rwVars
    BY <2>1, <2>8 DEF rwVars, Reading
  <2> QED
    BY <2>2, <2>3, <2>4, <2>5, <2>6, <2>7, <2>8 DEF RWNext, RWBegin, RWProgress, rlock, wlock
<1> QED
  BY <1>1, <1>2, RWTypeCorrect, QueueInvariant, PTL DEF RWSpec

\* A Proc that reads is counted.
LEMMA ReaderCounted ==
    ASSUME RWTypeOK, CountInv, NEW p \in Procs, Reading(p)
    PROVE  readers > 0
<1>1. p \in Readers /\ IsFiniteSet(Readers)
  BY RWlockAssumption, ProcsAssumption, FS_Subset DEF Readers
<1>2. Cardinality(Readers) # 0 /\ Cardinality(Readers) \in Nat
  BY <1>1, FS_EmptySet, FS_CardinalityType
<1> QED
  BY <1>2 DEF CountInv

-----------------------------------------------------------------------------
(* Why canqlock(&l->k) of the first reader cannot fail: whoever may hold   *)
(* k.use holds x or l, and the reader holds both.                          *)
LEMMA FirstReaderTakesK ==
    ASSUME RWTypeOK, XInv, SpinInv, NEW p \in Procs, at[p] = "rl"
    PROVE  kuse = None
<1> SUFFICES ASSUME NEW q \in Procs, kuse = q PROVE FALSE
  BY DEF RWTypeOK
<1>1. at[q] \in {"wkuse", "rlast", "wunk"}
  BY DEF SpinInv, HoldsUse
<1>2. CASE at[q] \in {"wkuse", "wunk"}
  BY <1>2 DEF XInv, HoldsX
<1>3. CASE at[q] = "rlast"
  BY <1>3 DEF SpinInv, HoldsL
<1> QED
  BY <1>1, <1>2, <1>3

AllInv == RWTypeOK /\ XInv /\ KQueueInv /\ SpinInv /\ CountInv

THEOREM KInvariant == RWSpec => []KInv
<1>1. RWInit => KInv
  BY DEF RWInit, KInv, ReadersCloseK, Writing
<1>2. AllInv /\ KInv /\ [RWNext]_rwVars => KInv'
  <2> SUFFICES ASSUME RWTypeOK, XInv, KQueueInv, SpinInv, CountInv, KInv, [RWNext]_rwVars
               PROVE  KInv'
    BY DEF AllInv
  <2> USE DEF RWTypeOK, RWGoto
  <2>1. ASSUME UNCHANGED <<klocked, readers>>,
               \A q \in Procs : /\ Writing(q)' => Writing(q)
                                /\ at'[q] = "runlock" => at[q] = "runlock"
                                /\ at'[q] = "rlast" => at[q] = "rlast"
        PROVE  KInv'
    BY <2>1 DEF KInv, ReadersCloseK
  <2>2. ASSUME NEW p \in Procs,
               NEW w \in {"rwaitx", "wwaitx"}, NEW g \in {"rx", "wx"}, qlockX(p, w, g)
        PROVE  KInv'
    BY <2>1, <2>2 DEF qlockX, Writing
  <2>3. ASSUME NEW p \in Procs, rlockReturn(p) \/ wunlockX(p) PROVE KInv'
    <3>1. \/ qunlockX(p, "rdone", "reading")
          \/ qunlockX(p, "wunx", "idle")
      BY <2>3 DEF rlockReturn, wunlockX
    <3>2. \A q \in Procs : /\ Writing(q)' => Writing(q)
                           /\ at'[q] = "runlock" => at[q] = "runlock"
                           /\ at'[q] = "rlast" => at[q] = "rlast"
      BY <3>1, HandOverX DEF Writing
    <3> QED
      BY <2>1, <3>1, <3>2 DEF qunlockX
  <2>4. ASSUME NEW p \in Procs,
               \/ canrlock(p) \/ rlockSpin(p) \/ runlockReturn(p) \/ runlockEnd(p)
               \/ wlockSpin(p) \/ wunlock(p)
        PROVE  KInv'
    BY <2>1, <2>4 DEF canrlock, rlockSpin, runlockReturn, runlockEnd, wlockSpin, wunlock, Writing
  <2>5. ASSUME NEW p \in Procs, rlockCount(p) PROVE KInv'
    <3>1. /\ at[p] = "rl" /\ at' = [at EXCEPT ![p] = "rdone"]
          /\ klocked' /\ readers' = readers + 1
      BY <2>5, FirstReaderTakesK DEF rlockCount
    <3>2. \A q \in Procs : ~Writing(q) /\ at[q] # "rlast"
      BY <3>1 DEF XInv, HoldsX, SpinInv, HoldsL, Writing
    <3>3. \A q \in Procs : ~Writing(q)' /\ at'[q] # "rlast"
      BY <3>1, <3>2 DEF Writing
    <3> QED
      BY <3>1, <3>3 DEF KInv, ReadersCloseK
  <2>6. ASSUME NEW p \in Procs, runlock(p) PROVE KInv'
    <3>1. /\ at[p] = "reading" /\ at' = [at EXCEPT ![p] = "runlock"]
          /\ l = None /\ readers' = readers - 1 /\ UNCHANGED klocked
      BY <2>6 DEF runlock
    <3>2. readers > 0
      BY <3>1, ReaderCounted DEF Reading
    <3>3. klocked /\ \A q \in Procs : ~Writing(q) /\ at[q] # "rlast"
      BY <3>1, <3>2, RWlockAssumption, ProcsAssumption DEF KInv, ReadersCloseK, SpinInv, HoldsL
    <3>4. \A q \in Procs : ~Writing(q)' /\ at'[q] # "rlast"
      BY <3>1, <3>3 DEF Writing
    <3> QED
      BY <3>1, <3>3, <3>4 DEF KInv, ReadersCloseK
  <2>7. ASSUME NEW p \in Procs, runlockLast(p) PROVE KInv'
    <3>1. /\ at[p] = "runlock" /\ at' = [at EXCEPT ![p] = "rlast"]
          /\ readers = 0 /\ UNCHANGED <<klocked, readers>>
      BY <2>7 DEF runlockLast
    <3>2. klocked /\ \A q \in Procs : ~Writing(q)
      BY <3>1 DEF KInv
    <3>3. \A q \in Procs : ~Writing(q)'
      BY <3>1, <3>2 DEF Writing
    <3> QED
      BY <3>1, <3>2, <3>3 DEF KInv, ReadersCloseK
  <2>8. ASSUME NEW p \in Procs, wlockK(p) PROVE KInv'
    <3>1. at[p] = "wkuse" /\ UNCHANGED readers
      BY <2>8 DEF wlockK
    <3>2. CASE klocked
      <4>1. at' = [at EXCEPT ![p] = "wwaitk"] /\ UNCHANGED klocked
        BY <2>8, <3>2 DEF wlockK
      <4> QED
        BY <2>1, <3>1, <4>1 DEF Writing
    <3>3. CASE ~klocked
      <4>1. at' = [at EXCEPT ![p] = "writing"] /\ klocked'
        BY <2>8, <3>3 DEF wlockK
      <4>2. /\ \A q \in Procs : at[q] \notin {"runlock", "rlast"}
            /\ ~(readers > 0)
        BY <3>3 DEF KInv, ReadersCloseK
      <4>3. readers \in Nat
        BY RWlockAssumption, ProcsAssumption, FS_Subset, FS_CardinalityType DEF CountInv, Readers
      <4>4. \A q \in Procs : at'[q] \notin {"runlock", "rlast"}
        BY <4>1, <4>2
      <4> QED
        BY <3>1, <4>1, <4>2, <4>3, <4>4 DEF KInv, ReadersCloseK
    <3> QED
      BY <3>2, <3>3
  <2>9. ASSUME NEW p \in Procs, runlockOpen(p) PROVE KInv'
    <3>1. qunlockK(p, "rlast", "rlastk") /\ UNCHANGED readers
      BY <2>9 DEF runlockOpen
    <3>2. at[p] = "rlast" /\ at'[p] = "rlastk"
      BY <3>1, HandOverK
    <3>3. readers = 0 /\ \A q \in Procs : ~Writing(q)
      BY <3>2 DEF KInv
    <3>4. \A q \in Procs : at'[q] \notin {"runlock", "rlast"}
      <4>1. \A q \in Procs \ {p} : at[q] \notin {"runlock", "rlast"}
        BY <3>2 DEF SpinInv, HoldsL
      <4> QED
        BY <3>1, <3>2, <4>1, HandOverK
    <3>5. \A q \in Procs : Writing(q)' => klocked'
      <4>1. klocked
        BY <3>2 DEF KInv
      <4>2. ASSUME NEW q \in Procs, Writing(q)' PROVE at[q] = "wwaitk" /\ klocked' = klocked
        BY <3>1, <3>2, <3>3, <4>2, HandOverK DEF Writing
      <4> QED
        BY <4>1, <4>2
    <3> QED
      BY <3>1, <3>3, <3>4, <3>5 DEF KInv, ReadersCloseK
  <2>10. ASSUME NEW p \in Procs, wunlockK(p) PROVE KInv'
    <3>1. qunlockK(p, "wunk", "wunx") /\ UNCHANGED readers
      BY <2>10 DEF wunlockK
    <3>2. at[p] = "wunk" /\ at'[p] = "wunx" /\ Writing(p)
      BY <3>1, HandOverK DEF Writing
    <3>3. readers = 0 /\ \A q \in Procs : at[q] \notin {"runlock", "rlast"}
      BY <3>2 DEF KInv
    <3>4. \A q \in Procs : ~Writing(q)' /\ at'[q] \notin {"runlock", "rlast"}
      <4>1. \A q \in Procs \ {p} : ~Writing(q) /\ at[q] # "wwaitk"
        BY <3>2 DEF XInv, HoldsX, Writing
      <4> QED
        BY <3>1, <3>2, <3>3, <4>1, HandOverK DEF Writing
    <3> QED
      BY <3>1, <3>3, <3>4 DEF KInv, ReadersCloseK
  <2>11. CASE UNCHANGED rwVars
    BY <2>1, <2>11 DEF rwVars, Writing
  <2> QED
    BY <2>2, <2>3, <2>4, <2>5, <2>6, <2>7, <2>8, <2>9, <2>10, <2>11
       DEF RWNext, RWBegin, RWProgress, rlock, wlock
<1> QED
  BY <1>1, <1>2, RWTypeCorrect, QueueInvariant, SpinInvariant, CountInvariant, PTL
     DEF RWSpec, AllInv

\* While there are readers k is locked.
THEOREM Closed == RWSpec => []ReadersCloseK
<1>1. KInv => ReadersCloseK
  BY DEF KInv
<1> QED
  BY <1>1, KInvariant, PTL

\* A writer excludes readers and other writers, for any number of Procs.
THEOREM WriterExclusion == RWSpec => []WriterAlone
<1>1. RWTypeOK /\ XInv /\ CountInv /\ KInv => WriterAlone
  <2> SUFFICES ASSUME RWTypeOK, XInv, CountInv, KInv, NEW w \in Procs, NEW p \in Procs,
                      Writing(w), p # w
               PROVE  ~Reading(p) /\ ~Writing(p)
    BY DEF WriterAlone
  <2>1. readers = 0
    BY DEF KInv
  <2>2. ~Reading(p)
    BY <2>1, ReaderCounted
  <2>3. ~Writing(p)
    BY DEF XInv, HoldsX, Writing
  <2> QED
    BY <2>2, <2>3
<1> QED
  BY <1>1, RWTypeCorrect, QueueInvariant, CountInvariant, KInvariant, PTL
=============================================================================
