--------------------------- MODULE DisSchedProofs ---------------------------
(* Proofs, for any number of Interps, Clients and Progs, of the exclusion   *)
(* and the bookkeeping of DisSched.                                         *)
EXTENDS DisSched, QueueLemmas, FiniteSetTheorems

\* The VM is p's: it runs in it, or it has been handed to it.
Has(p) == Holder(p) \/ Granted(p)

Running == {"loop", "dispatch", "run", "raise", "handled", "in", "rel"}
Waiting == {"wakeup", "vmwait"}
Resting == {"parked", "yielded"}

\* A semaphore is up only for a kproc that waits, or will wait, on it.
SemInv == \A p \in Procs : /\ sem[p] \in {0, 1}
                           /\ sem[p] = 1 => pc[p] \in Waiting \cup Resting \cup {"asleep"}

\* The queues of isched are the kprocs that wait and have not been granted.
QueueInv == /\ Distinct(vmq) /\ Distinct(idlevmq)
            /\ \A p \in Procs : In(p, vmq) <=> pc[p] \in Waiting /\ sem[p] = 0
            /\ \A p \in Procs : In(p, idlevmq) <=> pc[p] \in Resting /\ sem[p] = 0

\* irend is the kproc asleep on it.
IrendInv == \A p \in Procs : irend = p <=> pc[p] = "asleep" /\ sem[p] = 0

\* The VM is one kproc's, or idle.
OneInv == /\ \A p, q \in Procs : Has(p) /\ Has(q) => p = q
          /\ idle <=> \A p \in Procs : ~Has(p)

VMInv == pc # Halt => SemInv /\ QueueInv /\ IrendInv /\ OneInv

-----------------------------------------------------------------------------
(* The types of what isched.l protects.                                     *)

TypeS == /\ pc \in [Procs -> Labels]
         /\ sem \in [Procs -> Nat]
         /\ idle \in BOOLEAN /\ creating \in BOOLEAN
         /\ vmq \in Seq(Procs) /\ idlevmq \in Seq(Interps)
         /\ irend \in Interps \cup {None}

\* The kprocs' states, semaphores and queues have their types.
THEOREM TypeSched == Spec => []TypeS
<1>1. ASSUME Init PROVE TypeS
  <2>1. pc \in [Procs -> Labels]
    BY <1>1 DEF Init, Labels, Procs
  <2>2. vmq \in Seq(Procs) /\ idlevmq \in Seq(Interps)
    BY <1>1 DEF Init
  <2>3. sem \in [Procs -> Nat]
    BY <1>1 DEF Init
  <2> QED
    BY <1>1, <2>1, <2>2, <2>3 DEF TypeS, Init
<1>2. TypeS /\ [Next]_vars => TypeS'
  <2> SUFFICES ASSUME TypeS, [Next]_vars PROVE TypeS'
    OBVIOUS
  <2>0. Interps \subseteq Procs /\ Clients \subseteq Procs
    BY DEF Procs
  <2> USE DEF Labels, Goto
  <2>1. ASSUME NEW p \in Procs, NEW n \in Labels, pc' = [pc EXCEPT ![p] = n]
        PROVE  pc' \in [Procs -> Labels]
    BY <2>1 DEF TypeS
  <2>2. ASSUME NEW p \in Procs, osready(p) PROVE sem' \in [Procs -> Nat]
    BY <2>2 DEF osready, TypeS
  <2>3. ASSUME NEW p \in Procs, osblock(p) PROVE sem' \in [Procs -> Nat]
    BY <2>3 DEF osblock, TypeS
  <2>4. ASSUME pc' \in [Procs -> Labels], UNCHANGED <<sem, irend, sched>> PROVE TypeS'
    BY <2>4 DEF TypeS, sched
  <2>5. ASSUME NEW p \in Procs, acquire(p) PROVE TypeS'
    <3>1. pc' \in [Procs -> Labels]
      BY <2>1, <2>5 DEF acquire, acquireIdle, acquireQueue, Inside
    <3>2. vmq' \in Seq(Procs)
      <4>1. Append(vmq, p) \in Seq(Procs)
        BY AppendFacts DEF TypeS
      <4> QED
        BY <2>5, <4>1 DEF acquire, acquireIdle, acquireQueue, TypeS
    <3>3. idle' \in BOOLEAN /\ UNCHANGED <<creating, idlevmq, irend, sem>>
      BY <2>5 DEF acquire, acquireIdle, acquireQueue, TypeS
    <3> QED
      BY <3>1, <3>2, <3>3 DEF TypeS
  <2>6. ASSUME NEW p \in Procs, acquireWakeup(p) PROVE TypeS'
    <3>1. pc' \in [Procs -> Labels]
      BY <2>1, <2>6 DEF acquireWakeup
    <3>2. sem' \in [Procs -> Nat]
      BY <2>0, <2>2, <2>6 DEF acquireWakeup, TypeS
    <3> QED
      BY <2>6, <3>1, <3>2 DEF acquireWakeup, TypeS, sched
  <2>7. ASSUME NEW p \in Procs, acquireGranted(p) PROVE TypeS'
    <3>1. pc' \in [Procs -> Labels]
      BY <2>1, <2>7 DEF acquireGranted, Inside
    <3>2. sem' \in [Procs -> Nat]
      BY <2>3, <2>7 DEF acquireGranted
    <3> QED
      BY <2>7, <3>1, <3>2 DEF acquireGranted, TypeS, sched
  <2>8. ASSUME NEW p \in Procs, releaseHand(p) PROVE TypeS'
    <3>1. pc' \in [Procs -> Labels]
      BY <2>0, <2>8 DEF releaseHand, TypeS
    <3>2. sem' \in [Procs -> Nat]
      <4>1. vmq # << >> => Head(vmq) \in Procs
        BY TailFacts DEF TypeS
      <4>2. idlevmq # << >> => Head(idlevmq) \in Procs
        BY <2>0, TailFacts DEF TypeS
      <4> QED
        BY <2>2, <2>8, <4>1, <4>2 DEF releaseHand, TypeS
    <3>3. vmq' \in Seq(Procs) /\ idlevmq' \in Seq(Interps)
      <4>1. vmq # << >> => Tail(vmq) \in Seq(Procs)
        BY TailFacts DEF TypeS
      <4>2. idlevmq # << >> => Tail(idlevmq) \in Seq(Interps)
        BY TailFacts DEF TypeS
      <4> QED
        BY <2>8, <4>1, <4>2 DEF releaseHand, TypeS
    <3>4. idle' \in BOOLEAN /\ creating' \in BOOLEAN /\ UNCHANGED irend
      BY <2>8 DEF releaseHand, TypeS
    <3> QED
      BY <3>1, <3>2, <3>3, <3>4 DEF TypeS
  <2>9. ASSUME NEW i \in Interps, startup(i) PROVE TypeS'
    <3>1. pc' \in [Procs -> Labels]
      BY <2>0, <2>1, <2>9 DEF startup
    <3>2. idlevmq' \in Seq(Interps)
      <4>1. <<i>> \o idlevmq \in Seq(Interps)
        BY PushQueue DEF TypeS
      <4> QED
        BY <2>9, <4>1 DEF startup, TypeS
    <3>3. idle' \in BOOLEAN /\ creating' \in BOOLEAN /\ UNCHANGED <<vmq, irend, sem>>
      BY <2>9 DEF startup, TypeS
    <3> QED
      BY <3>1, <3>2, <3>3 DEF TypeS
  <2>10. ASSUME NEW i \in Interps, iyield(i) PROVE TypeS'
    <3>1. pc' \in [Procs -> Labels]
      BY <2>0, <2>1, <2>10 DEF iyield
    <3>2. vmq # << >> /\ Head(vmq) \in Procs /\ vmq' \in Seq(Procs)
      BY <2>10, TailFacts DEF iyield, MustYield, TypeS
    <3>3. idlevmq' \in Seq(Interps)
      BY <2>10, PushQueue DEF iyield, TypeS
    <3>4. sem' \in [Procs -> Nat]
      BY <2>2, <2>10, <3>2 DEF iyield
    <3> QED
      BY <2>10, <3>1, <3>2, <3>3, <3>4 DEF iyield, TypeS
  <2>11. ASSUME NEW i \in Interps,
                startupGranted(i) \/ SleepWoken(i) \/ iyieldGranted(i)
         PROVE  TypeS'
    <3>1. pc' \in [Procs -> Labels]
      BY <2>0, <2>1, <2>11 DEF startupGranted, SleepWoken, iyieldGranted, RunHead
    <3>2. sem' \in [Procs -> Nat]
      BY <2>0, <2>3, <2>11 DEF startupGranted, SleepWoken, iyieldGranted
    <3>3. UNCHANGED <<irend, sched>>
      BY <2>11 DEF startupGranted, SleepWoken, iyieldGranted, RunHead
    <3> QED
      BY <3>1, <3>2, <3>3 DEF TypeS, sched
  <2>12. ASSUME NEW i \in Interps, SleepBlock(i) PROVE TypeS'
    BY <2>0, <2>1, <2>12 DEF SleepBlock, TypeS, sched
  <2>13. ASSUME NEW i \in Interps,
                SleepPass(i) \/ Dispatch(i) \/ restart(i) \/ EndRun(i) \/ killSelf(i)
         PROVE  TypeS'
    <3>1. pc' \in [Procs -> Labels]
      BY <2>0, <2>1, <2>13 DEF SleepPass, Dispatch, RunHead, restart, EndRun, Quantum, Block, handler, progexit,
                               Save, killSelf, TypeS
    <3> QED
      BY <2>4, <2>13, <3>1 DEF SleepPass, Dispatch, RunHead, restart, EndRun, Quantum, Block, handler, progexit,
                               Save, killSelf
  <2>14. ASSUME NEW p \in Procs, NEW q \in Progs,
                \/ addrun(p, q) \/ killReleased(p, q) \/ killprog(p, q)
         PROVE  TypeS'
    <3>1. pc' \in [Procs -> Labels]
      BY <2>1, <2>14 DEF addrun, killReleased, killprog, TypeS
    <3> QED
      BY <2>4, <2>14, <3>1 DEF addrun, killReleased, killprog
  <2>15. ASSUME NEW p \in Procs, releaseSave(p) PROVE TypeS'
    BY <2>1, <2>4, <2>15 DEF releaseSave, Save
  <2>16. ASSUME NEW p \in Procs, delprog(p) PROVE TypeS'
    <3>1. pc' \in [Procs -> Labels]
      BY <2>1, <2>16 DEF delprog, Halt, TypeS
    <3> QED
      BY <2>4, <2>16, <3>1 DEF delprog
  <2>17. CASE UNCHANGED vars
    BY <2>17 DEF vars, TypeS, sched
  <2> QED
    BY <2>5, <2>6, <2>7, <2>8, <2>9, <2>10, <2>11, <2>12, <2>13, <2>14, <2>15, <2>16, <2>17
       DEF Next, Progress, Advance
<1> QED
  BY <1>1, <1>2, PTL DEF Spec

-----------------------------------------------------------------------------
(* The exclusion.                                                           *)

\* After the last Prog nothing moves.
LEMMA HaltedAll == ASSUME [Next]_vars, pc = Halt PROVE UNCHANGED vars
<1>1. \A p \in Procs : pc[p] = "halt"
  BY DEF Halt
<1>2. Interps \subseteq Procs
  BY DEF Procs
<1>3. ASSUME NEW p \in Procs, acquire(p) \/ Progress(p) \/ releaseSave(p) PROVE FALSE
  BY <1>1, <1>3 DEF acquire, acquireIdle, acquireQueue, Progress, acquireWakeup,
                    acquireGranted, releaseHand, delprog, releaseSave, Inside, Goto
<1>4. ASSUME NEW p \in Procs, NEW q \in Progs,
             addrun(p, q) \/ killReleased(p, q) \/ killprog(p, q)
      PROVE  FALSE
  BY <1>1, <1>4 DEF addrun, killReleased, killprog, InVM, Inside
<1>5. ASSUME NEW i \in Interps, Advance(i) \/ EndRun(i) \/ killSelf(i) PROVE FALSE
  BY <1>1, <1>2, <1>5 DEF Advance, startup, startupGranted, SleepPass, SleepBlock,
                    SleepWoken, iyield, iyieldGranted, Dispatch, RunHead, EndRun,
                    Quantum, Block, handler, restart, progexit, killSelf, Goto
<1> QED
  BY <1>3, <1>4, <1>5 DEF Next

LEMMA Halted == ASSUME [Next]_vars, pc = Halt PROVE UNCHANGED pc
BY HaltedAll DEF vars

\* A kproc alone in acquire, release or vmachine has the VM, or waits for it,
\* and the queues and semaphores say so.
THEOREM VMInvariant == Spec => []VMInv
<1>1. ASSUME Init PROVE VMInv
  <2>1. PICK i \in Interps : pc = [p \in Procs |-> IF p = i THEN "loop"
                                                   ELSE IF p \in Clients THEN "out" ELSE "none"]
    BY <1>1 DEF Init
  <2>2. i \in Procs /\ \A p \in Procs : Has(p) <=> p = i
    BY <1>1, <2>1 DEF Init, Has, Holder, Granted, Procs
  <2>3. OneInv
    BY <1>1, <2>2 DEF OneInv, Init
  <2>4. SemInv /\ QueueInv
    BY <1>1, <2>1 DEF Init, SemInv, QueueInv, Waiting, Resting, Distinct, In
  <2>5. IrendInv
    BY <1>1, <2>1, DisSchedAssumption DEF Init, IrendInv
  <2> QED
    BY <2>3, <2>4, <2>5 DEF VMInv
<1>2. TypeS /\ VMInv /\ [Next]_vars => VMInv'
  <2> SUFFICES ASSUME TypeS, VMInv, [Next]_vars PROVE VMInv'
    OBVIOUS
  <2>0. Interps \subseteq Procs /\ Clients \subseteq Procs /\ None \notin Procs
    BY DisSchedAssumption DEF Procs
  <2>1. CASE pc = Halt
    BY <2>1, Halted DEF VMInv, Halt
  <2> SUFFICES ASSUME SemInv, QueueInv, IrendInv, OneInv
               PROVE  VMInv'
    BY <2>1 DEF VMInv
  <2>a. TypeS
    OBVIOUS
  <2> USE DEF Goto, Running, Waiting, Resting
  <2>2. ASSUME SemInv', QueueInv', IrendInv', OneInv' PROVE VMInv'
    BY <2>2 DEF VMInv
  \* The VM changes hands, from p to h.
  <2>3. ASSUME NEW p \in Procs, NEW h \in Procs, Has(p), Has(h)', ~Has(p)', UNCHANGED idle,
               \A q \in Procs \ {p, h} : Has(q)' <=> Has(q)
        PROVE  OneInv'
    BY <2>3 DEF OneInv
  \* The holder of the VM goes on.
  <2>4. ASSUME NEW p \in Procs, NEW n \in Running, pc[p] \in Running,
               pc' = [pc EXCEPT ![p] = n], UNCHANGED <<sem, idle, vmq, idlevmq, irend>>
        PROVE  VMInv'
    <3>1. /\ pc'[p] = n
          /\ \A q \in Procs : q # p => pc'[q] = pc[q]
      BY <2>4, <2>a DEF TypeS
    <3>2. SemInv'
      BY <2>4, <3>1 DEF SemInv
    <3>3. QueueInv'
      BY <2>4, <3>1 DEF QueueInv
    <3>4. IrendInv'
      BY <2>4, <3>1 DEF IrendInv
    <3>5. \A q \in Procs : Has(q)' <=> Has(q)
      BY <2>4, <3>1 DEF Has, Holder, Granted
    <3>6. OneInv'
      BY <2>4, <3>5 DEF OneInv
    <3> QED
      BY <2>2, <3>2, <3>3, <3>4, <3>6
  <2>5. ASSUME UNCHANGED <<pc, sem, idle, vmq, idlevmq, irend>> PROVE VMInv'
    <3>1. \A q \in Procs : Has(q)' <=> Has(q)
      BY <2>5 DEF Has, Holder, Granted
    <3> QED
      BY <2>2, <2>5, <3>1 DEF SemInv, QueueInv, IrendInv, OneInv
  \* A kproc to which the VM was handed, or the holder asleep, finds out.
  <2>6. ASSUME NEW p \in Procs, NEW n \in Running, osblock(p),
               pc[p] \in {"parked", "yielded", "vmwait", "asleep"},
               pc' = [pc EXCEPT ![p] = n], UNCHANGED <<idle, vmq, idlevmq, irend>>
        PROVE  VMInv'
    <3>1. /\ pc'[p] = n
          /\ \A q \in Procs : q # p => pc'[q] = pc[q]
          /\ sem[p] = 1 /\ sem'[p] = 0
          /\ \A q \in Procs : q # p => sem'[q] = sem[q]
      BY <2>6, <2>a DEF TypeS, osblock, SemInv
    <3>2. SemInv'
      BY <2>6, <3>1 DEF SemInv
    <3>3. QueueInv'
      BY <2>6, <3>1 DEF QueueInv
    <3>4. IrendInv'
      BY <2>6, <3>1 DEF IrendInv
    <3>5. \A q \in Procs : Has(q)' <=> Has(q)
      BY <2>6, <3>1 DEF Has, Holder, Granted
    <3>6. OneInv'
      BY <2>6, <3>5 DEF OneInv
    <3> QED
      BY <2>2, <3>2, <3>3, <3>4, <3>6
  <2>7. ASSUME NEW p \in Procs, acquireIdle(p) PROVE VMInv'
    <3>1. /\ pc[p] = "out"
          /\ pc'[p] \in {"run", "in"}
          /\ \A q \in Procs : q # p => pc'[q] = pc[q]
          /\ UNCHANGED <<sem, irend, vmq, idlevmq>>
          /\ idle /\ ~idle'
      BY <2>7, <2>a DEF acquireIdle, Inside, TypeS
    <3>2. SemInv'
      BY <3>1 DEF SemInv
    <3>3. QueueInv'
      BY <3>1 DEF QueueInv
    <3>4. IrendInv'
      BY <3>1 DEF IrendInv
    <3>5. \A q \in Procs : Has(q)' <=> q = p
      BY <3>1 DEF Has, Holder, Granted, OneInv
    <3>6. OneInv'
      BY <3>1, <3>5 DEF OneInv
    <3> QED
      BY <2>2, <3>2, <3>3, <3>4, <3>6
  <2>8. ASSUME NEW p \in Procs, acquireQueue(p) PROVE VMInv'
    <3>1. /\ pc[p] = "out" /\ sem[p] = 0
          /\ pc'[p] \in {"wakeup", "vmwait"}
          /\ \A q \in Procs : q # p => pc'[q] = pc[q]
          /\ UNCHANGED <<sem, irend, idle, idlevmq>>
          /\ vmq' = Append(vmq, p)
      BY <2>8, <2>a DEF acquireQueue, TypeS, SemInv
    <3>2. SemInv'
      BY <3>1 DEF SemInv
    <3>3. Distinct(vmq') /\ \A q \in Procs : In(q, vmq') <=> In(q, vmq) \/ q = p
      BY <2>a, <3>1, JoinQueue DEF QueueInv, TypeS
    <3>4. QueueInv'
      BY <3>1, <3>3 DEF QueueInv
    <3>5. IrendInv'
      BY <3>1 DEF IrendInv
    <3>6. \A q \in Procs : Has(q)' <=> Has(q)
      BY <3>1 DEF Has, Holder, Granted
    <3>7. OneInv'
      BY <3>1, <3>6 DEF OneInv
    <3> QED
      BY <2>2, <3>2, <3>4, <3>5, <3>7
  <2>9. ASSUME NEW p \in Procs, acquireWakeup(p) PROVE VMInv'
    <3>1. /\ pc[p] = "wakeup"
          /\ pc'[p] = "vmwait"
          /\ \A q \in Procs : q # p => pc'[q] = pc[q]
          /\ irend' = None
          /\ UNCHANGED <<idle, vmq, idlevmq>>
      BY <2>9, <2>a DEF acquireWakeup, TypeS, sched
    <3>2. CASE irend = None
      <4>1. UNCHANGED sem
        BY <2>9, <3>2 DEF acquireWakeup
      <4>2. SemInv' /\ QueueInv' /\ IrendInv'
        BY <2>0, <3>1, <3>2, <4>1 DEF SemInv, QueueInv, IrendInv
      <4>3. \A q \in Procs : Has(q)' <=> Has(q)
        BY <3>1, <4>1 DEF Has, Holder, Granted
      <4> QED
        BY <2>2, <3>1, <4>2, <4>3 DEF OneInv
    <3>3. CASE irend # None
      <4> DEFINE h == irend
      <4>1. h \in Procs /\ pc[h] = "asleep" /\ sem[h] = 0 /\ h # p
        BY <2>0, <2>a, <3>1, <3>3 DEF IrendInv, TypeS
      <4>2. sem'[h] = 1 /\ \A q \in Procs : q # h => sem'[q] = sem[q]
        BY <2>9, <2>a, <3>3, <4>1 DEF acquireWakeup, osready, TypeS
      <4>3. SemInv'
        BY <3>1, <4>1, <4>2 DEF SemInv
      <4>4. QueueInv'
        BY <3>1, <4>1, <4>2 DEF QueueInv
      <4>5. IrendInv'
        <5>1. \A q \in Procs : ~(pc'[q] = "asleep" /\ sem'[q] = 0)
          BY <3>1, <4>1, <4>2 DEF IrendInv
        <5> QED
          BY <2>0, <3>1, <5>1 DEF IrendInv
      <4>6. \A q \in Procs : Has(q)' <=> Has(q)
        BY <3>1, <4>1, <4>2 DEF Has, Holder, Granted
      <4> QED
        BY <2>2, <3>1, <4>3, <4>4, <4>5, <4>6 DEF OneInv
    <3> QED
      BY <3>2, <3>3
  <2>10. ASSUME NEW p \in Procs, releaseHand(p), vmq # << >>,
                osready(Head(vmq)), vmq' = Tail(vmq), pc' = [pc EXCEPT ![p] = "out"],
                UNCHANGED <<idle, creating, idlevmq>>
         PROVE  VMInv'
    <3>1. PICK h \in Procs : h = Head(vmq) /\ In(h, vmq)
      BY <2>10, <2>a, LeaveQueue, TailFacts DEF TypeS, QueueInv
    <3>2. Distinct(vmq') /\ \A q \in Procs : In(q, vmq') <=> In(q, vmq) /\ q # h
      BY <2>10, <2>a, <3>1, LeaveQueue DEF TypeS, QueueInv
    <3>3. /\ pc[p] = "rel" /\ pc'[p] = "out" /\ h # p
          /\ \A q \in Procs : q # p => pc'[q] = pc[q]
          /\ pc[h] \in Waiting /\ sem[h] = 0
          /\ sem'[h] = 1 /\ \A q \in Procs : q # h => sem'[q] = sem[q]
          /\ UNCHANGED irend
      <4>1. pc[p] = "rel" /\ UNCHANGED irend
        BY <2>10 DEF releaseHand
      <4>2. pc[h] \in Waiting /\ sem[h] = 0
        BY <3>1 DEF QueueInv
      <4> QED
        BY <2>10, <2>a, <3>1, <4>1, <4>2 DEF TypeS, osready
    <3>4. SemInv'
      BY <3>1, <3>3 DEF SemInv
    <3>5. QueueInv'
      BY <2>10, <3>1, <3>2, <3>3 DEF QueueInv
    <3>6. IrendInv'
      BY <3>1, <3>3 DEF IrendInv
    <3>7. Has(p) /\ Has(h)' /\ ~Has(p)' /\ \A q \in Procs \ {p, h} : Has(q)' <=> Has(q)
      BY <3>1, <3>3 DEF Has, Holder, Granted
    <3> QED
      BY <2>2, <2>3, <2>10, <3>1, <3>4, <3>5, <3>6, <3>7
  <2>11. ASSUME NEW p \in Procs, releaseHand(p), idlevmq # << >>,
                osready(Head(idlevmq)), idlevmq' = Tail(idlevmq), pc' = [pc EXCEPT ![p] = "out"],
                UNCHANGED <<idle, creating, vmq>>
         PROVE  VMInv'
    <3>0. idlevmq \in Seq(Procs)
      BY <2>0, <2>a DEF TypeS
    <3>1. PICK h \in Procs : h = Head(idlevmq) /\ In(h, idlevmq)
      BY <2>11, <3>0, LeaveQueue, TailFacts DEF QueueInv
    <3>2. Distinct(idlevmq') /\ \A q \in Procs : In(q, idlevmq') <=> In(q, idlevmq) /\ q # h
      BY <2>11, <3>0, <3>1, LeaveQueue DEF QueueInv
    <3>3. /\ pc[p] = "rel" /\ pc'[p] = "out" /\ h # p
          /\ \A q \in Procs : q # p => pc'[q] = pc[q]
          /\ pc[h] \in Resting /\ sem[h] = 0
          /\ sem'[h] = 1 /\ \A q \in Procs : q # h => sem'[q] = sem[q]
          /\ UNCHANGED irend
      <4>1. pc[p] = "rel" /\ UNCHANGED irend
        BY <2>11 DEF releaseHand
      <4>2. pc[h] \in Resting /\ sem[h] = 0
        BY <3>1 DEF QueueInv
      <4> QED
        BY <2>11, <2>a, <3>1, <4>1, <4>2 DEF TypeS, osready
    <3>4. SemInv'
      BY <3>1, <3>3 DEF SemInv
    <3>5. QueueInv'
      BY <2>11, <3>1, <3>2, <3>3 DEF QueueInv
    <3>6. IrendInv'
      BY <3>1, <3>3 DEF IrendInv
    <3>7. Has(p) /\ Has(h)' /\ ~Has(p)' /\ \A q \in Procs \ {p, h} : Has(q)' <=> Has(q)
      BY <3>1, <3>3 DEF Has, Holder, Granted
    <3> QED
      BY <2>2, <2>3, <2>11, <3>1, <3>4, <3>5, <3>6, <3>7
  <2>12. ASSUME NEW p \in Procs, releaseHand(p), idle', UNCHANGED <<sem, vmq, idlevmq>>,
                \/ pc' = [pc EXCEPT ![p] = "out"]
                \/ \E i \in Interps : /\ pc[i] = "none"
                                       /\ pc' = [pc EXCEPT ![p] = "out", ![i] = "startup"]
         PROVE  VMInv'
    <3>1. /\ pc[p] = "rel" /\ pc'[p] = "out"
          /\ \A q \in Procs : q # p => pc'[q] = pc[q] \/ (pc[q] = "none" /\ pc'[q] = "startup")
          /\ UNCHANGED irend
      <4>1. pc[p] = "rel" /\ UNCHANGED irend
        BY <2>12 DEF releaseHand
      <4>2. CASE pc' = [pc EXCEPT ![p] = "out"]
        BY <2>a, <4>1, <4>2 DEF TypeS
      <4>3. ASSUME NEW i \in Interps, pc[i] = "none",
                   pc' = [pc EXCEPT ![p] = "out", ![i] = "startup"]
            PROVE  /\ pc'[p] = "out"
                   /\ \A q \in Procs : q # p => pc'[q] = pc[q] \/ (pc[q] = "none" /\ pc'[q] = "startup")
        <5>1. i \in Procs /\ i # p
          BY <2>0, <4>1, <4>3
        <5> QED
          BY <2>a, <4>1, <4>3, <5>1 DEF TypeS
      <4> QED
        BY <2>12, <4>1, <4>2, <4>3
    <3>2. SemInv'
      BY <2>12, <3>1 DEF SemInv
    <3>3. QueueInv'
      BY <2>12, <3>1 DEF QueueInv
    <3>4. IrendInv'
      BY <2>12, <3>1 DEF IrendInv
    <3>5. Has(p) /\ ~Has(p)' /\ \A q \in Procs : q # p => (Has(q)' <=> Has(q))
      BY <2>12, <3>1, SMT DEF Has, Holder, Granted, SemInv
    <3>6. OneInv'
      BY <2>12, <3>5 DEF OneInv
    <3> QED
      BY <2>2, <3>2, <3>3, <3>4, <3>6
  <2>13. ASSUME NEW p \in Procs, releaseHand(p) PROVE VMInv'
    BY <2>10, <2>11, <2>12, <2>13 DEF releaseHand
  <2>14. ASSUME NEW i \in Interps, startup(i) PROVE VMInv'
    <3>1. /\ pc[i] = "startup" /\ sem[i] = 0
          /\ \A q \in Procs : q # i => pc'[q] = pc[q]
          /\ UNCHANGED <<sem, irend, vmq>>
          /\ IF idle THEN pc'[i] = "loop" ELSE pc'[i] = "parked"
      BY <2>0, <2>14, <2>a DEF startup, TypeS, SemInv
    <3>2. SemInv' /\ IrendInv'
      BY <2>0, <3>1 DEF SemInv, IrendInv
    <3>3. CASE idle
      <4>1. ~idle' /\ UNCHANGED idlevmq
        BY <2>14, <3>3 DEF startup
      <4>2. QueueInv'
        BY <2>0, <3>1, <3>3, <4>1 DEF QueueInv
      <4>3. \A q \in Procs : Has(q)' <=> q = i
        BY <2>0, <3>1, <3>3 DEF Has, Holder, Granted, OneInv
      <4> QED
        BY <2>0, <2>2, <3>2, <4>1, <4>2, <4>3 DEF OneInv
    <3>4. CASE ~idle
      <4>0. idlevmq \in Seq(Procs)
        BY <2>0, <2>a DEF TypeS
      <4>1. UNCHANGED idle /\ idlevmq' = <<i>> \o idlevmq
        BY <2>14, <3>4 DEF startup
      <4>2. Distinct(idlevmq') /\ \A q \in Procs : In(q, idlevmq') <=> In(q, idlevmq) \/ q = i
        BY <2>0, <3>1, <4>0, <4>1, PushQueue DEF QueueInv
      <4>3. QueueInv'
        BY <2>0, <3>1, <3>4, <4>2 DEF QueueInv
      <4>4. \A q \in Procs : Has(q)' <=> Has(q)
        BY <2>0, <3>1, <3>4 DEF Has, Holder, Granted
      <4> QED
        BY <2>2, <3>2, <4>1, <4>3, <4>4 DEF OneInv
    <3> QED
      BY <3>3, <3>4
  <2>15. ASSUME NEW i \in Interps, iyield(i) PROVE VMInv'
    <3>0. idlevmq \in Seq(Procs) /\ i \in Procs
      BY <2>0, <2>a DEF TypeS
    <3>a. vmq # << >>
      BY <2>15 DEF iyield, MustYield
    <3>1. PICK h \in Procs : h = Head(vmq) /\ In(h, vmq)
      BY <2>a, <3>a, LeaveQueue, TailFacts DEF TypeS, QueueInv
    <3>2. Distinct(vmq') /\ \A q \in Procs : In(q, vmq') <=> In(q, vmq) /\ q # h
      BY <2>15, <2>a, <3>a, <3>1, LeaveQueue DEF TypeS, QueueInv, iyield
    <3>3. /\ pc[i] = "dispatch" /\ pc'[i] = "yielded"
          /\ \A q \in Procs : q # i => pc'[q] = pc[q]
          /\ UNCHANGED <<irend, idle>>
      BY <2>15, <2>a, <3>0 DEF iyield, TypeS
    <3>4. /\ pc[h] \in Waiting /\ sem[h] = 0 /\ h # i
          /\ sem'[h] = 1 /\ \A q \in Procs : q # h => sem'[q] = sem[q]
      BY <2>15, <2>a, <3>1, <3>3 DEF iyield, TypeS, osready, QueueInv
    <3>5. sem[i] = 0 /\ ~In(i, idlevmq)
      BY <3>0, <3>3 DEF QueueInv, SemInv
    <3>6. Distinct(idlevmq') /\ \A q \in Procs : In(q, idlevmq') <=> In(q, idlevmq) \/ q = i
      BY <2>15, <3>0, <3>5, PushQueue DEF QueueInv, iyield
    <3>7. SemInv'
      BY <3>0, <3>1, <3>3, <3>4 DEF SemInv
    <3>8. QueueInv'
      BY <3>0, <3>1, <3>2, <3>3, <3>4, <3>5, <3>6 DEF QueueInv
    <3>9. IrendInv'
      BY <3>0, <3>1, <3>3, <3>4 DEF IrendInv
    <3>10. Has(i) /\ Has(h)' /\ ~Has(i)' /\ \A q \in Procs \ {i, h} : Has(q)' <=> Has(q)
      BY <3>0, <3>1, <3>3, <3>4, <3>5 DEF Has, Holder, Granted
    <3> QED
      BY <2>2, <2>3, <3>0, <3>1, <3>3, <3>7, <3>8, <3>9, <3>10
  <2>16. ASSUME NEW i \in Interps, SleepBlock(i) PROVE VMInv'
    <3>0. i \in Procs
      BY <2>0
    <3>1. /\ pc[i] = "loop" /\ pc'[i] = "asleep" /\ sem[i] = 0
          /\ \A q \in Procs : q # i => pc'[q] = pc[q]
          /\ UNCHANGED <<sem, idle, vmq, idlevmq>>
          /\ irend' = i
      BY <2>16, <2>a, <3>0 DEF SleepBlock, sched, TypeS, SemInv
    <3>2. SemInv' /\ QueueInv'
      BY <3>0, <3>1 DEF SemInv, QueueInv
    <3>3. \A q \in Procs : Has(q)' <=> Has(q)
      BY <3>0, <3>1 DEF Has, Holder, Granted
    <3>4. \A q \in Procs : pc[q] # "asleep"
      BY <3>0, <3>1 DEF OneInv, Has, Holder
    <3>5. IrendInv'
      BY <3>0, <3>1, <3>4 DEF IrendInv
    <3> QED
      BY <2>2, <3>1, <3>2, <3>3, <3>5 DEF OneInv
  <2>17. ASSUME NEW p \in Procs, acquireGranted(p) PROVE VMInv'
    <3>1. Inside(p) \in Running
      BY DEF Inside
    <3> QED
      BY <2>6, <2>17, <3>1 DEF acquireGranted, sched
  <2>18. ASSUME NEW i \in Interps, startupGranted(i) \/ SleepWoken(i) \/ iyieldGranted(i)
         PROVE  VMInv'
    <3>1. PICK n \in Running : pc' = [pc EXCEPT ![i] = n]
      BY <2>18 DEF startupGranted, SleepWoken, iyieldGranted, RunHead
    <3>2. pc[i] \in {"parked", "yielded", "asleep"} /\ osblock(i)
      BY <2>18 DEF startupGranted, SleepWoken, iyieldGranted, RunHead
    <3>3. UNCHANGED <<idle, vmq, idlevmq, irend>>
      BY <2>18 DEF startupGranted, SleepWoken, iyieldGranted, RunHead, sched
    <3> QED
      BY <2>0, <2>6, <3>1, <3>2, <3>3
  <2>19. ASSUME NEW i \in Interps, SleepPass(i) \/ Dispatch(i) \/ restart(i) \/ EndRun(i)
         PROVE  VMInv'
    <3>1. PICK n \in Running : pc' = [pc EXCEPT ![i] = n]
      BY <2>19 DEF SleepPass, Dispatch, RunHead, restart, EndRun, Quantum, Block, handler, progexit, Save
    <3>2. pc[i] \in Running
      BY <2>19 DEF SleepPass, Dispatch, RunHead, restart, EndRun, Quantum, Block, handler, progexit
    <3>3. UNCHANGED <<sem, idle, vmq, idlevmq, irend>>
      BY <2>19 DEF SleepPass, Dispatch, RunHead, restart, EndRun, Quantum, Block, handler, progexit, sched
    <3> QED
      BY <2>0, <2>4, <3>1, <3>2, <3>3
  <2>20. ASSUME NEW p \in Procs, NEW q \in Progs, addrun(p, q) \/ killReleased(p, q)
         PROVE  VMInv'
    BY <2>5, <2>20 DEF addrun, killReleased, sched
  <2>21. ASSUME NEW i \in Interps, killSelf(i) PROVE VMInv'
    BY <2>5, <2>21 DEF killSelf, sched
  <2>22. ASSUME NEW p \in Procs, NEW q \in Progs, killprog(p, q) PROVE VMInv'
    <3>1. pc' = [pc EXCEPT ![p] = "rel"] /\ pc[p] \in Running
      BY <2>22 DEF killprog, InVM, Inside
    <3>2. UNCHANGED <<sem, idle, vmq, idlevmq, irend>>
      BY <2>22 DEF killprog, sched
    <3> QED
      BY <2>4, <3>1, <3>2
  <2>23. ASSUME NEW p \in Procs, delprog(p) PROVE VMInv'
    <3>1. pc[p] \in Running /\ UNCHANGED <<sem, idle, vmq, idlevmq, irend>>
      BY <2>23 DEF delprog, Inside, sched
    <3>2. pc' = Halt \/ pc' = [pc EXCEPT ![p] = "loop"] \/ pc' = pc
      BY <2>23 DEF delprog
    <3>3. CASE pc' = Halt
      BY <3>3 DEF VMInv, Halt
    <3> QED
      BY <2>4, <2>5, <3>1, <3>2, <3>3
  <2>24. ASSUME NEW p \in Procs, releaseSave(p) PROVE VMInv'
    <3>1. pc' = [pc EXCEPT ![p] = "rel"] /\ pc[p] \in Running
      BY <2>24 DEF releaseSave, Save, Inside
    <3>2. UNCHANGED <<sem, idle, vmq, idlevmq, irend>>
      BY <2>24 DEF releaseSave, sched
    <3> QED
      BY <2>4, <3>1, <3>2
  <2>25. CASE UNCHANGED vars
    BY <2>5, <2>25 DEF vars, sched
  <2> QED
    BY <2>7, <2>8, <2>9, <2>13, <2>14, <2>15, <2>16, <2>17, <2>18, <2>19, <2>20, <2>21, <2>22,
       <2>23, <2>24, <2>25
       DEF Next, acquire, Progress, Advance
<1> QED
  BY <1>1, <1>2, TypeSched, PTL DEF Spec

\* VMExclusive: one kproc at a time is in the virtual machine, whatever the
\* Interps and Clients; acquire, release and iyield hand it to one.
THEOREM Exclusion == Spec => []VMExclusive
<1>1. VMInv => VMExclusive
  <2>1. pc = Halt => \A p \in Procs : ~Holder(p)
    BY DEF Halt, Holder
  <2> QED
    BY <2>1 DEF VMInv, VMExclusive, OneInv, Has
<1> QED
  BY <1>1, VMInvariant, PTL

\* An idle VM has an Interp on the way, and an Interp that is being made starts.
CreateInv == pc # Halt => /\ idle => creating
                          /\ creating => \E i \in Interps : pc[i] = "startup"

\* VMNotLost: the VM is idle, with an Interp on its way to it, or in the hands
\* of a kproc; release, startup and iyield never drop it.
THEOREM Kept == Spec => []VMNotLost
<1>1. ASSUME Init PROVE CreateInv
  BY <1>1 DEF Init, CreateInv
<1>2. TypeS /\ VMInv /\ CreateInv /\ [Next]_vars => CreateInv'
  <2> SUFFICES ASSUME TypeS, VMInv, CreateInv, [Next]_vars, pc' # Halt, pc # Halt
               PROVE  CreateInv'
    <3>1. Halt' = Halt
      BY DEF Halt
    <3> QED
      BY <3>1, Halted DEF CreateInv
  <2>0. Interps \subseteq Procs
    BY DEF Procs
  <2>a. TypeS
    OBVIOUS
  <2>1. ASSUME idle' => idle, UNCHANGED creating,
               \A i \in Interps : pc[i] = "startup" => pc'[i] = "startup"
        PROVE  CreateInv'
    BY <2>1 DEF CreateInv
  <2>2. ASSUME NEW p \in Procs, NEW n \in Labels, pc[p] # "startup", pc' = [pc EXCEPT ![p] = n]
        PROVE  \A i \in Interps : pc[i] = "startup" => pc'[i] = "startup"
    BY <2>0, <2>2, <2>a DEF TypeS
  <2> USE DEF Goto, Labels
  <2>3. ASSUME NEW p \in Procs, acquire(p) \/ releaseSave(p) PROVE CreateInv'
    <3>1. \A i \in Interps : pc[i] = "startup" => pc'[i] = "startup"
      BY <2>2, <2>3 DEF acquire, acquireIdle, acquireQueue, releaseSave, Save, Inside
    <3>2. (idle' => idle) /\ UNCHANGED creating
      BY <2>3 DEF acquire, acquireIdle, acquireQueue, releaseSave, sched
    <3> QED
      BY <2>1, <3>1, <3>2
  <2>4. ASSUME NEW p \in Procs, acquireWakeup(p) \/ acquireGranted(p) PROVE CreateInv'
    <3>1. \A i \in Interps : pc[i] = "startup" => pc'[i] = "startup"
      BY <2>2, <2>4 DEF acquireWakeup, acquireGranted, Inside
    <3>2. UNCHANGED <<idle, creating>>
      BY <2>4 DEF acquireWakeup, acquireGranted, sched
    <3> QED
      BY <2>1, <3>1, <3>2
  <2>5. ASSUME NEW p \in Procs, delprog(p) PROVE CreateInv'
    <3>1. \A i \in Interps : pc[i] = "startup" => pc'[i] = "startup"
      <4>1. pc' = [pc EXCEPT ![p] = "loop"] \/ UNCHANGED pc
        BY <2>5 DEF delprog, Halt
      <4> QED
        BY <2>2, <2>5, <4>1 DEF delprog, Inside
    <3>2. UNCHANGED <<idle, creating>>
      BY <2>5 DEF delprog, sched
    <3> QED
      BY <2>1, <3>1, <3>2
  <2>6. ASSUME NEW p \in Procs, NEW q \in Progs,
               addrun(p, q) \/ killReleased(p, q) \/ killprog(p, q)
        PROVE  CreateInv'
    <3>1. \A i \in Interps : pc[i] = "startup" => pc'[i] = "startup"
      BY <2>2, <2>6 DEF addrun, killReleased, killprog, InVM, Inside
    <3>2. UNCHANGED <<idle, creating>>
      BY <2>6 DEF addrun, killReleased, killprog, sched
    <3> QED
      BY <2>1, <3>1, <3>2
  <2>7. ASSUME NEW p \in Procs, releaseHand(p) PROVE CreateInv'
    <3>1. CASE UNCHANGED <<idle, creating>> /\ pc' = [pc EXCEPT ![p] = "out"]
      <4>1. pc[p] = "rel"
        BY <2>7 DEF releaseHand
      <4> QED
        BY <2>1, <2>2, <3>1, <4>1
    <3>2. CASE creating' /\ creating
      <4>1. pc' = [pc EXCEPT ![p] = "out"] /\ pc[p] = "rel"
        BY <2>7, <3>2 DEF releaseHand
      <4>2. \A i \in Interps : pc[i] = "startup" => pc'[i] = "startup"
        BY <2>2, <4>1
      <4> QED
        BY <3>2, <4>2 DEF CreateInv
    <3>3. CASE creating' /\ ~creating
      <4>1. PICK i \in Interps : pc' = [pc EXCEPT ![p] = "out", ![i] = "startup"]
        BY <2>7, <3>3 DEF releaseHand
      <4>2. pc'[i] = "startup"
        BY <2>0, <2>a, <4>1 DEF TypeS
      <4> QED
        BY <3>3, <4>2 DEF CreateInv
    <3> QED
      BY <2>7, <3>1, <3>2, <3>3 DEF releaseHand
  <2>8. ASSUME NEW i \in Interps, startup(i) PROVE CreateInv'
    BY <2>8 DEF startup, CreateInv
  <2>9. ASSUME NEW i \in Interps,
               \/ startupGranted(i) \/ SleepPass(i) \/ SleepBlock(i) \/ SleepWoken(i)
               \/ iyield(i) \/ iyieldGranted(i) \/ Dispatch(i) \/ restart(i)
        PROVE  CreateInv'
    <3>1. PICK f \in {"parked", "loop", "asleep", "dispatch", "yielded", "handled"}, n \in Labels :
            pc[i] = f /\ pc' = [pc EXCEPT ![i] = n]
      BY <2>9 DEF startupGranted, SleepPass, SleepBlock, SleepWoken, iyield, iyieldGranted,
                  Dispatch, RunHead, restart
    <3>2. UNCHANGED <<idle, creating>>
      BY <2>9 DEF startupGranted, SleepPass, SleepBlock, SleepWoken, iyield, iyieldGranted,
                  Dispatch, RunHead, restart, sched
    <3> QED
      BY <2>0, <2>1, <2>2, <3>1, <3>2
  <2>10. ASSUME NEW i \in Interps, EndRun(i) \/ killSelf(i) PROVE CreateInv'
    <3>1. \A j \in Interps : pc[j] = "startup" => pc'[j] = "startup"
      BY <2>0, <2>2, <2>10 DEF EndRun, Quantum, Block, handler, progexit, Save, killSelf
    <3>2. UNCHANGED <<idle, creating>>
      BY <2>10 DEF EndRun, Quantum, Block, handler, progexit, killSelf, sched
    <3> QED
      BY <2>1, <3>1, <3>2
  <2>11. CASE UNCHANGED vars
    BY <2>1, <2>11 DEF vars, sched
  <2> QED
    BY <2>3, <2>4, <2>5, <2>6, <2>7, <2>8, <2>9, <2>10, <2>11 DEF Next, Progress, Advance
<1>3. VMInv /\ CreateInv => VMNotLost
  BY DEF VMInv, CreateInv, VMNotLost, OneInv, Has
<1> QED
  BY <1>1, <1>2, <1>3, TypeSched, VMInvariant, PTL DEF Spec

-----------------------------------------------------------------------------
(* The run queue, and what each kproc remembers of it.                      *)

Out == {"rel", "out", "wakeup", "vmwait"}
InRun == {"run", "raise", "in"}

TypeR == /\ state \in [Progs -> {"ready", "blocked", "release", "exiting", "dead"}]
         /\ kill \subseteq Progs
         /\ iprog \in [Interps -> Progs \cup {None}]
         /\ r \in [Interps -> Progs \cup {None}]
         /\ cycles \in [Interps -> 0 .. 2]
         /\ doing \in [Procs -> Progs \cup {None}]

\* Clients are never in vmachine, nor Interps in a device's code.
PlaceInv == /\ \A c \in Clients : pc[c] \in Out \cup {"in", "halt"}
            /\ \A i \in Interps : pc[i] # "in"

\* An Interp in the VM has its Prog at the head, one that is out remembers it.
MineInv == \A i \in Interps :
    /\ pc[i] \in {"run", "raise"} => runq # << >> /\ Head(runq) = r[i] /\ r[i] \in Progs
    /\ pc[i] \in Out => iprog[i] = r[i] /\ r[i] \in Progs

\* The run queue holds Dis Progs, behind the Client in the VM, if one is.
RunqInv == /\ runq \in Seq(Progs \cup Clients)
           /\ (\A c \in Clients : pc[c] # "in") => runq \in Seq(Progs)
           /\ \A c \in Clients : pc[c] = "in" =>
                 runq # << >> /\ Head(runq) = c /\ Tail(runq) \in Seq(Progs)

RunInv == TypeR /\ PlaceInv /\ MineInv /\ RunqInv

\* What holds of the run queue when p, in the VM, gives it up to q.
LEMMA SaveRunq ==
    ASSUME TypeS, RunInv, NEW p \in Procs, pc[p] \in InRun,
           \A q \in Procs \ {p} : pc[q] \notin InRun
    PROVE  /\ runq # << >>
           /\ Head(runq) \in Progs \cup Clients
           /\ Tail(runq) \in Seq(Progs)
           /\ Tail(runq) \in Seq(Progs \cup Clients)
           /\ p \in Interps => /\ Head(runq) = r[p] /\ r[p] \in Progs
                              /\ runq \in Seq(Progs)
           /\ p \in Clients => Head(runq) = p
<1>1. Interps \cup Clients = Procs
  BY DEF Procs
<1>2. CASE p \in Clients
  <2>1. pc[p] = "in" /\ p \notin Interps
    BY <1>2, DisSchedAssumption DEF RunInv, PlaceInv, InRun, Out
  <2>2. runq # << >> /\ Head(runq) = p /\ Tail(runq) \in Seq(Progs)
    BY <1>2, <2>1 DEF RunInv, RunqInv
  <2>3. Tail(runq) \in Seq(Progs \cup Clients)
    BY <2>2, TailFacts DEF RunInv, RunqInv
  <2> QED
    BY <1>2, <2>1, <2>2, <2>3
<1>3. CASE p \in Interps
  <2>1. pc[p] \in {"run", "raise"} /\ p \notin Clients
    BY <1>3, DisSchedAssumption DEF RunInv, PlaceInv, InRun
  <2>2. runq # << >> /\ Head(runq) = r[p] /\ r[p] \in Progs
    BY <1>3, <2>1 DEF RunInv, MineInv
  <2>3. runq \in Seq(Progs)
    BY <1>1, <2>1 DEF RunInv, RunqInv, InRun
  <2>4. Tail(runq) \in Seq(Progs)
    BY <2>2, <2>3, TailFacts
  <2>5. Tail(runq) \in Seq(Progs \cup Clients)
    BY <2>2, TailFacts DEF RunInv, RunqInv
  <2> QED
    BY <2>1, <2>2, <2>3, <2>4, <2>5
<1> QED
  BY <1>1, <1>2, <1>3

\* The Progs and the run queue have their types, and each kproc its Prog's place.
THEOREM RunInvariant == Spec => []RunInv
<1>0. Interps \subseteq Procs /\ Clients \subseteq Procs /\ Interps \cap Clients = {}
        /\ Procs \cap Progs = {} /\ None \notin Procs
  BY DisSchedAssumption DEF Procs
<1>1. ASSUME Init PROVE RunInv
  <2>1. PICK i \in Interps, q \in Progs :
           /\ pc = [p \in Procs |-> IF p = i THEN "loop" ELSE IF p \in Clients THEN "out" ELSE "none"]
           /\ runq = <<q>>
           /\ state = [x \in Progs |-> IF x = q THEN "ready" ELSE "dead"]
    BY <1>1 DEF Init
  <2>2. TypeR
    BY <1>1, <2>1 DEF Init, TypeR
  <2>3. PlaceInv /\ MineInv
    BY <1>0, <2>1 DEF PlaceInv, MineInv, Out
  <2>4. RunqInv
    BY <1>0, <2>1 DEF RunqInv
  <2> QED
    BY <2>2, <2>3, <2>4 DEF RunInv
<1>2. TypeS /\ VMInv /\ RunInv /\ [Next]_vars => RunInv'
  <2> SUFFICES ASSUME TypeS, VMInv, RunInv, [Next]_vars PROVE RunInv'
    OBVIOUS
  <2>a. TypeS /\ TypeR /\ PlaceInv /\ MineInv /\ RunqInv
    BY DEF RunInv
  <2> USE DEF Goto
  \* One kproc at a time is in the VM.
  <2>u. ASSUME NEW p \in Procs, Has(p) PROVE \A q \in Procs \ {p} : pc[q] \notin Running
    <3>1. pc # Halt \/ \A q \in Procs : pc[q] = "halt"
      BY DEF Halt
    <3> QED
      BY <2>u, <3>1 DEF VMInv, OneInv, Has, Holder, Running
  \* Nobody enters the VM, and nobody that has a Prog in the queue leaves.
  <2>1. ASSUME UNCHANGED <<runq, iprog, r>>, TypeR',
               \A q \in Procs : \/ pc'[q] = pc[q]
                                \/ /\ pc'[q] \notin InRun /\ pc[q] # "in"
                                   /\ pc'[q] \in Out => pc[q] \in Out
                                   /\ q \in Clients => pc'[q] \in Out
        PROVE  RunInv'
    <3>1. PlaceInv'
      BY <1>0, <2>1, <2>a DEF PlaceInv, InRun
    <3>2. MineInv'
      BY <1>0, <2>1, <2>a DEF MineInv, InRun
    <3>3. \A c \in Clients : pc'[c] = "in" <=> pc[c] = "in"
      BY <1>0, <2>1 DEF InRun
    <3>4. RunqInv'
      BY <2>1, <2>a, <3>3 DEF RunqInv
    <3> QED
      BY <2>1, <3>1, <3>2, <3>4 DEF RunInv
  \* p gives up the VM and its Prog, and leaves a queue of Dis Progs.
  <2>2. ASSUME NEW p \in Procs, pc[p] \in InRun, pc' = [pc EXCEPT ![p] = "rel"],
               runq' \in Seq(Progs), runq' \in Seq(Progs \cup Clients), TypeR',
               iprog' = [i \in Interps |-> IF i = p THEN Head(runq) ELSE iprog[i]],
               UNCHANGED r
        PROVE  RunInv'
    <3>1. pc'[p] = "rel" /\ \A q \in Procs \ {p} : pc'[q] = pc[q] /\ pc[q] \notin InRun
      BY <2>2, <2>a, <2>u DEF TypeS, Has, Holder, InRun, Running
    <3>2. PlaceInv'
      BY <1>0, <3>1, <2>a DEF PlaceInv, Out, InRun
    <3>3. MineInv'
      <4>1. ASSUME NEW i \in Interps
            PROVE  /\ pc'[i] \notin {"run", "raise"}
                   /\ pc'[i] \in Out => iprog'[i] = r'[i] /\ r'[i] \in Progs
        <5>1. CASE i = p
          BY <2>2, <3>1, <5>1, SaveRunq DEF InRun
        <5>2. CASE i # p
          BY <1>0, <2>2, <2>a, <3>1, <5>2 DEF MineInv, InRun
        <5> QED
          BY <5>1, <5>2
      <4> QED
        BY <4>1 DEF MineInv
    <3>4. RunqInv'
      BY <1>0, <2>2, <3>1 DEF RunqInv, InRun
    <3> QED
      BY <2>2, <3>2, <3>3, <3>4 DEF RunInv
  \* p has the VM again.
  <2>3. ASSUME NEW p \in Procs, pc[p] \in Out, pc' = [pc EXCEPT ![p] = Inside(p)],
               \A q \in Procs \ {p} : pc[q] \notin InRun,
               Resume(p), TypeR', UNCHANGED r
        PROVE  RunInv'
    <3>1. /\ pc'[p] = Inside(p)
          /\ \A q \in Procs \ {p} : pc'[q] = pc[q]
      BY <2>3, <2>a DEF TypeS
    <3>2. PlaceInv'
      BY <1>0, <2>3, <2>a, <3>1 DEF PlaceInv, Inside, Out
    <3>3. runq \in Seq(Progs) /\ runq \in Seq(Progs \cup Clients)
      BY <1>0, <2>3, <2>a DEF RunqInv, InRun, Out
    <3>4. CASE p \in Clients
      <4>1. runq' = <<p>> \o runq /\ pc'[p] = "in" /\ p \notin Interps
        BY <1>0, <2>3, <3>1, <3>4 DEF Resume, Mine, Inside
      <4>2. runq' \in Seq(Progs \cup Clients)
        BY <3>3, <3>4, <4>1, PushQueue
      <4>3. runq' # << >> /\ Head(runq') = p /\ Tail(runq') = runq
        BY <3>3, <3>4, <4>1, PushQueue
      <4>4. \A c \in Clients : pc'[c] = "in" <=> c = p
        BY <1>0, <2>3, <3>1, <4>1 DEF InRun
      <4>5. RunqInv'
        BY <3>3, <3>4, <4>2, <4>3, <4>4 DEF RunqInv
      <4>6. iprog' = [i \in Interps |-> iprog[i]]
        BY <2>3, <4>1 DEF Resume
      <4>7. MineInv'
        BY <1>0, <2>3, <2>a, <3>1, <4>1, <4>6 DEF MineInv, InRun
      <4> QED
        BY <2>3, <3>2, <4>5, <4>7 DEF RunInv
    <3>5. CASE p \in Interps
      <4>1. runq' = <<iprog[p]>> \o runq /\ pc'[p] = "run" /\ p \notin Clients
        BY <1>0, <2>3, <3>1, <3>5 DEF Resume, Mine, Inside
      <4>2. iprog[p] = r[p] /\ r[p] \in Progs
        BY <2>3, <2>a, <3>5 DEF MineInv
      <4>3. runq' \in Seq(Progs) /\ runq' # << >> /\ Head(runq') = r[p]
        BY <3>3, <4>1, <4>2, PushQueue
      <4>4. runq' \in Seq(Progs \cup Clients)
        BY <3>3, <4>1, <4>2, PushQueue
      <4>5. \A c \in Clients : pc'[c] # "in"
        BY <1>0, <2>3, <3>1, <4>1 DEF InRun
      <4>6. RunqInv'
        BY <4>3, <4>4, <4>5 DEF RunqInv
      <4>7. \A i \in Interps : i # p => iprog'[i] = iprog[i]
        BY <1>0, <2>3 DEF Resume
      <4>8. MineInv'
        BY <1>0, <2>3, <2>a, <3>1, <4>1, <4>2, <4>3, <4>7 DEF MineInv, InRun, Out
      <4> QED
        BY <2>3, <3>2, <4>6, <4>8 DEF RunInv
    <3> QED
      BY <3>4, <3>5 DEF Procs
  \* The Interp i in vmachine, which nobody else is in, goes on to the head of
  \* a queue of Dis Progs or round the loop.
  <2>4. ASSUME NEW i \in Interps, NEW n \in {"run", "raise", "handled", "loop"}, Has(i),
               pc' = [pc EXCEPT ![i] = n],
               n \in {"run", "raise"} => runq' # << >> /\ Head(runq') = r'[i] /\ r'[i] \in Progs,
               \A j \in Interps : j # i => r'[j] = r[j],
               runq' \in Seq(Progs), TypeR', UNCHANGED iprog
        PROVE  RunInv'
    <3>0. i \in Procs /\ i \notin Clients
      BY <1>0
    <3>1. pc'[i] = n /\ \A q \in Procs \ {i} : pc'[q] = pc[q] /\ pc[q] \notin InRun
      BY <2>4, <2>a, <2>u, <3>0 DEF TypeS, InRun, Running
    <3>2. PlaceInv'
      BY <1>0, <3>0, <3>1, <2>a DEF PlaceInv
    <3>3. MineInv'
      <4>1. ASSUME NEW j \in Interps, j # i
            PROVE  /\ pc'[j] \notin {"run", "raise"}
                   /\ pc'[j] \in Out => iprog'[j] = r'[j] /\ r'[j] \in Progs
        BY <1>0, <2>4, <2>a, <3>1, <4>1 DEF MineInv, InRun
      <4>2. pc'[i] \notin Out
        BY <3>1 DEF Out
      <4> QED
        BY <2>4, <3>1, <4>1, <4>2 DEF MineInv
    <3>4. runq' \in Seq(Progs \cup Clients)
      BY <2>4
    <3>5. RunqInv'
      BY <1>0, <2>4, <3>0, <3>1, <3>4 DEF RunqInv, InRun
    <3> QED
      BY <2>4, <3>2, <3>3, <3>5 DEF RunInv
  <2>5. ASSUME NEW p \in Procs, acquireIdle(p) \/ acquireGranted(p) PROVE RunInv'
    <3>1. pc[p] \in Out /\ pc' = [pc EXCEPT ![p] = Inside(p)] /\ Resume(p)
      BY <2>5 DEF acquireIdle, acquireGranted, Out
    <3>2. \A q \in Procs \ {p} : pc[q] \notin InRun
      <4>1. CASE acquireIdle(p)
        <5>1. idle /\ pc # Halt
          BY <4>1 DEF acquireIdle, Halt
        <5> QED
          BY <5>1 DEF VMInv, OneInv, Has, Holder, InRun
      <4>2. CASE acquireGranted(p)
        <5>1. Has(p)
          BY <4>2 DEF acquireGranted, osblock, Has, Granted
        <5> QED
          BY <2>u, <5>1 DEF InRun, Running
      <4> QED
        BY <2>5, <4>1, <4>2
    <3>3. TypeR' /\ UNCHANGED r
      <4>1. UNCHANGED <<kill, r, cycles, doing>>
        BY <2>5 DEF acquireIdle, acquireGranted
      <4>2. state' \in [Progs -> {"ready", "blocked", "release", "exiting", "dead"}]
        BY <2>a, <3>1 DEF Resume, TypeR
      <4>3. iprog' \in [Interps -> Progs \cup {None}]
        BY <2>a, <3>1 DEF Resume, TypeR
      <4> QED
        BY <2>a, <4>1, <4>2, <4>3 DEF TypeR
    <3> QED
      BY <2>3, <3>1, <3>2, <3>3
  <2>6. ASSUME NEW p \in Procs, pc[p] \in InRun, Save(p), UNCHANGED <<kill, r, cycles>>,
               doing' \in [Procs -> Progs \cup {None}]
        PROVE  RunInv'
    <3>0. \A q \in Procs \ {p} : pc[q] \notin InRun
      BY <2>6, <2>u DEF Has, Holder, InRun, Running
    <3>1. pc' = [pc EXCEPT ![p] = "rel"] /\ runq' = Tail(runq)
      BY <2>6 DEF Save
    <3>2. runq' \in Seq(Progs) /\ runq' \in Seq(Progs \cup Clients)
      BY <2>6, <3>0, <3>1, SaveRunq
    <3>3. iprog' = [i \in Interps |-> IF i = p THEN Head(runq) ELSE iprog[i]]
      BY <2>6 DEF Save
    <3>4. iprog' \in [Interps -> Progs \cup {None}]
      BY <2>6, <2>a, <3>0, <3>3, SaveRunq DEF TypeR
    <3>5. state' \in [Progs -> {"ready", "blocked", "release", "exiting", "dead"}]
      BY <2>6, <2>a DEF Save, TypeR
    <3>6. TypeR'
      BY <2>6, <2>a, <3>4, <3>5 DEF TypeR
    <3> QED
      BY <2>2, <2>6, <3>1, <3>2, <3>3, <3>6
  <2>7. ASSUME NEW p \in Procs, releaseSave(p) PROVE RunInv'
    <3>1. pc[p] \in InRun /\ Save(p) /\ UNCHANGED <<kill, r, cycles, doing>>
      BY <2>7 DEF releaseSave, Inside, InRun
    <3> QED
      BY <2>6, <2>a, <3>1 DEF TypeR
  <2>8. ASSUME NEW i \in Interps, progexit(i) PROVE RunInv'
    <3>1. pc[i] \in InRun /\ Save(i) /\ UNCHANGED <<kill, r, cycles>>
            /\ doing' = [doing EXCEPT ![i] = Head(runq)]
      BY <2>8 DEF progexit, InRun
    <3>2. Head(runq) \in Progs
      BY <2>8, <2>a DEF progexit, MineInv
    <3>3. doing' \in [Procs -> Progs \cup {None}]
      BY <2>a, <3>1, <3>2 DEF TypeR
    <3> QED
      BY <1>0, <2>6, <3>1, <3>3
  <2>9. ASSUME NEW p \in Procs, NEW q \in Progs, killprog(p, q) PROVE RunInv'
    <3>0. pc[p] \in InRun
      BY <2>9 DEF killprog, InVM, Inside, InRun
    <3>1. \A x \in Procs \ {p} : pc[x] \notin InRun
      BY <2>u, <3>0 DEF Has, Holder, InRun, Running
    <3>2. Tail(runq) \in Seq(Progs) /\ Tail(runq) \in Seq(Progs \cup Clients)
      BY <3>0, <3>1, SaveRunq
    <3>3. runq' \in Seq(Progs) /\ runq' \in Seq(Progs \cup Clients)
      <4>1. CASE runq' = Tail(runq)
        BY <3>2, <4>1
      <4>2. ASSUME NEW n \in 1 .. Len(runq) - 1, runq' = RemoveAt(Tail(runq), n)
            PROVE  runq' \in Seq(Progs) /\ runq' \in Seq(Progs \cup Clients)
        <5>1. n \in 1 .. Len(Tail(runq))
          BY <3>0, <3>1, SaveRunq, TailFacts, <2>a DEF RunqInv
        <5> QED
          BY <3>2, <4>2, <5>1, RemoveAtFacts
      <4> QED
        BY <2>9, <4>1, <4>2 DEF killprog
    <3>4. iprog' = [i \in Interps |-> IF i = p THEN Head(runq) ELSE iprog[i]]
      BY <2>9 DEF killprog
    <3>5. iprog' \in [Interps -> Progs \cup {None}]
      BY <2>a, <3>0, <3>1, <3>4, SaveRunq DEF TypeR
    <3>6. state' \in [Progs -> {"ready", "blocked", "release", "exiting", "dead"}]
      <4>1. state' = [x \in Progs |-> CASE x = q          -> "exiting"
                                        [] x = Head(runq) -> "release"
                                        [] OTHER          -> state[x]]
        BY <2>9 DEF killprog
      <4> QED
        BY <2>a, <4>1 DEF TypeR
    <3>7. doing' \in [Procs -> Progs \cup {None}]
      BY <2>9, <2>a DEF killprog, TypeR
    <3>8. UNCHANGED <<kill, r, cycles>> /\ pc' = [pc EXCEPT ![p] = "rel"]
      BY <2>9 DEF killprog
    <3>9. TypeR'
      BY <2>a, <3>5, <3>6, <3>7, <3>8 DEF TypeR
    <3> QED
      BY <2>2, <3>0, <3>3, <3>4, <3>8, <3>9
  \* The queue that an Interp sees is all Dis Progs.
  <2>10. ASSUME NEW i \in Interps, Has(i) PROVE runq \in Seq(Progs)
    BY <1>0, <2>10, <2>a, <2>u DEF RunqInv, Running
  <2>11. ASSUME NEW i \in Interps, Has(i), NEW f \in Labels, RunHead(i, f),
                cycles' \in [Interps -> 0 .. 2]
         PROVE  RunInv'
    <3>0. runq \in Seq(Progs)
      BY <2>10, <2>11
    <3>1. UNCHANGED <<runq, state, iprog, doing>>
      BY <2>11 DEF RunHead
    <3>2. CASE runq # << >>
      <4>1. Head(runq) \in Progs
        BY <3>0, <3>2, TailFacts
      <4>2. r' = [r EXCEPT ![i] = Head(runq)] /\ kill' = kill \ {Head(runq)}
        BY <2>11, <3>2 DEF RunHead
      <4>3. PICK n \in {"run", "raise", "loop"} : pc' = [pc EXCEPT ![i] = n]
        BY <2>11, <3>2 DEF RunHead
      <4>4. TypeR'
        BY <2>11, <2>a, <3>1, <4>1, <4>2 DEF TypeR
      <4>5. r'[i] = Head(runq) /\ \A j \in Interps : j # i => r'[j] = r[j]
        BY <2>a, <4>2 DEF TypeR
      <4> QED
        BY <2>4, <2>11, <3>0, <3>1, <3>2, <4>1, <4>3, <4>4, <4>5
    <3>3. CASE runq = << >>
      <4>1. pc' = [pc EXCEPT ![i] = "loop"] /\ UNCHANGED <<r, kill>>
        BY <2>11, <3>3 DEF RunHead
      <4>2. TypeR'
        BY <2>11, <2>a, <3>1, <4>1 DEF TypeR
      <4> QED
        BY <2>4, <2>11, <3>0, <3>1, <4>1, <4>2
    <3> QED
      BY <3>2, <3>3
  <2>12. ASSUME NEW i \in Interps, iyieldGranted(i) PROVE RunInv'
    <3>1. Has(i) /\ RunHead(i, "yielded") /\ cycles' = [cycles EXCEPT ![i] = 0]
      BY <2>12 DEF iyieldGranted, RunHead, osblock, Has, Granted
    <3>2. cycles' \in [Interps -> 0 .. 2] /\ "yielded" \in Labels
      BY <2>a, <3>1 DEF TypeR, Labels
    <3> QED
      BY <2>11, <3>1, <3>2
  <2>13. ASSUME NEW i \in Interps, Dispatch(i) PROVE RunInv'
    <3>1. Has(i) /\ RunHead(i, "dispatch")
      BY <2>13 DEF Dispatch, RunHead, Has, Holder
    <3>2. cycles' = [cycles EXCEPT ![i] = IF vmq # << >> /\ runq # << >> THEN @ + 1 ELSE @]
      BY <2>13 DEF Dispatch
    <3>3. cycles[i] \in 0 .. 2 /\ (vmq # << >> /\ runq # << >> => cycles[i] + 1 \in 0 .. 2)
      BY <2>13, <2>a DEF Dispatch, MustYield, TypeR
    <3>4. cycles' \in [Interps -> 0 .. 2] /\ "dispatch" \in Labels
      BY <2>a, <3>2, <3>3 DEF TypeR, Labels
    <3> QED
      BY <2>11, <3>1, <3>4
  <2>14. ASSUME NEW i \in Interps, Quantum(i) \/ Block(i) PROVE RunInv'
    <3>1. pc[i] = "run" /\ pc' = [pc EXCEPT ![i] = "loop"] /\ Has(i)
            /\ r' = [r EXCEPT ![i] = None]
            /\ UNCHANGED <<kill, iprog, cycles, doing>>
      BY <2>14 DEF Quantum, Block, Has, Holder
    <3>2. runq \in Seq(Progs) /\ runq # << >> /\ r[i] \in Progs
      BY <2>10, <2>a, <3>1 DEF MineInv
    <3>3. Tail(runq) \in Seq(Progs)
      BY <3>2, TailFacts
    <3>4. Append(Tail(runq), r[i]) \in Seq(Progs)
      BY <3>2, <3>3, AppendFacts
    <3>5. runq' \in Seq(Progs)
      BY <2>14, <3>2, <3>3, <3>4 DEF Quantum, Block
    <3>6. state' \in [Progs -> {"ready", "blocked", "release", "exiting", "dead"}]
      BY <2>14, <2>a DEF Quantum, Block, TypeR
    <3>7. TypeR'
      BY <2>a, <3>1, <3>6 DEF TypeR
    <3>8. \A j \in Interps : j # i => r'[j] = r[j]
      BY <2>a, <3>1 DEF TypeR
    <3> QED
      BY <2>4, <3>1, <3>5, <3>7, <3>8
  <2>15. ASSUME NEW p \in Procs, acquireQueue(p) \/ acquireWakeup(p) \/ releaseHand(p)
         PROVE  RunInv'
    <3>1. UNCHANGED <<runq, iprog, r>> /\ TypeR'
      BY <2>15, <2>a DEF acquireQueue, acquireWakeup, releaseHand, progs, locals, TypeR
    <3>2. CASE acquireQueue(p) \/ acquireWakeup(p)
      <4>1. PICK n \in {"wakeup", "vmwait"} : pc' = [pc EXCEPT ![p] = n]
        BY <3>2 DEF acquireQueue, acquireWakeup
      <4>2. pc[p] \in {"out", "wakeup"}
        BY <3>2 DEF acquireQueue, acquireWakeup
      <4> QED
        BY <2>1, <2>a, <3>1, <4>1, <4>2 DEF TypeS, InRun, Out
    <3>3. CASE releaseHand(p) /\ pc' = [pc EXCEPT ![p] = "out"]
      <4>1. pc[p] = "rel"
        BY <3>3 DEF releaseHand
      <4> QED
        BY <2>1, <2>a, <3>1, <3>3, <4>1 DEF TypeS, InRun, Out
    <3>4. ASSUME NEW i \in Interps, pc[i] = "none", releaseHand(p),
                 pc' = [pc EXCEPT ![p] = "out", ![i] = "startup"]
          PROVE  RunInv'
      <4>1. pc[p] = "rel"
        BY <3>4 DEF releaseHand
      <4>2. /\ pc'[p] = "out" /\ pc'[i] = "startup" /\ i \notin Clients
            /\ \A q \in Procs \ {p, i} : pc'[q] = pc[q]
        BY <1>0, <2>a, <3>4, <4>1 DEF TypeS
      <4> QED
        BY <2>1, <3>1, <3>4, <4>1, <4>2 DEF InRun, Out
    <3> QED
      BY <2>15, <3>2, <3>3, <3>4 DEF releaseHand
  <2>16. ASSUME NEW i \in Interps,
                \/ startup(i) \/ startupGranted(i) \/ SleepPass(i) \/ SleepBlock(i)
                \/ SleepWoken(i) \/ iyield(i)
         PROVE  RunInv'
    <3>1. UNCHANGED <<runq, iprog, r>> /\ TypeR'
      BY <2>16, <2>a DEF startup, startupGranted, SleepPass, SleepBlock, SleepWoken, iyield,
                         progs, locals, TypeR
    <3>2. pc[i] \in {"startup", "parked", "loop", "asleep", "dispatch"}
      BY <2>16 DEF startup, startupGranted, SleepPass, SleepBlock, SleepWoken, iyield
    <3>3. PICK n \in {"loop", "parked", "dispatch", "asleep", "yielded"} :
            pc' = [pc EXCEPT ![i] = n]
      BY <2>16 DEF startup, startupGranted, SleepPass, SleepBlock, SleepWoken, iyield
    <3>4. pc'[i] = n /\ i \notin Clients /\ \A q \in Procs \ {i} : pc'[q] = pc[q]
      BY <1>0, <2>a, <3>3 DEF TypeS
    <3> QED
      BY <2>1, <3>1, <3>2, <3>4 DEF InRun, Out
  <2>17. ASSUME NEW p \in Procs, NEW q \in Progs, addrun(p, q) PROVE RunInv'
    <3>0. pc[p] \in InRun
      BY <2>17 DEF addrun, InVM, Inside, InRun
    <3>1. \A x \in Procs \ {p} : pc[x] \notin InRun
      BY <2>u, <3>0 DEF Has, Holder, InRun, Running
    <3>2. runq # << >> /\ Tail(runq) \in Seq(Progs)
      BY <3>0, <3>1, SaveRunq
    <3>3. /\ runq' = Append(runq, q)
          /\ state' = [state EXCEPT ![q] = "ready"]
          /\ UNCHANGED <<pc, kill, iprog, r, cycles, doing>>
      BY <2>17 DEF addrun, locals
    <3>4. /\ runq' \in Seq(Progs \cup Clients) /\ runq' # << >>
          /\ Head(runq') = Head(runq) /\ Tail(runq') = Append(Tail(runq), q)
      BY <2>a, <3>2, <3>3, AppendFacts, AppendBehind DEF RunqInv
    <3>5. Tail(runq') \in Seq(Progs)
      BY <3>2, <3>4, AppendFacts
    <3>6. runq \in Seq(Progs) => runq' \in Seq(Progs)
      BY <3>3, AppendFacts
    <3>7. RunqInv'
      BY <2>a, <3>3, <3>4, <3>5, <3>6 DEF RunqInv
    <3>8. MineInv' /\ PlaceInv'
      BY <2>a, <3>3, <3>4 DEF MineInv, PlaceInv
    <3>9. TypeR'
      BY <2>a, <3>3 DEF TypeR
    <3> QED
      BY <3>7, <3>8, <3>9 DEF RunInv
  <2>18. ASSUME NEW p \in Procs, NEW q \in Progs, killReleased(p, q) PROVE RunInv'
    <3>1. TypeR' /\ UNCHANGED <<runq, iprog, r, pc>>
      BY <2>18, <2>a DEF killReleased, locals, TypeR
    <3> QED
      BY <2>1, <3>1
  <2>19. ASSUME NEW i \in Interps, killSelf(i) PROVE RunInv'
    <3>1. Head(runq) \in Progs
      BY <2>19, <2>a DEF killSelf, MineInv
    <3>2. TypeR' /\ UNCHANGED <<runq, iprog, r, pc>>
      BY <2>19, <2>a, <3>1 DEF killSelf, locals, TypeR
    <3> QED
      BY <2>1, <3>2
  <2>20. ASSUME NEW p \in Procs, delprog(p) PROVE RunInv'
    <3>0. pc[p] \in InRun /\ Has(p)
      BY <2>20 DEF delprog, Inside, InRun, Has, Holder
    <3>1. \A x \in Procs \ {p} : pc[x] \notin InRun
      BY <2>u, <3>0 DEF InRun, Running
    <3>2. doing[p] \in Progs
      BY <2>20, <2>a DEF delprog, TypeR
    <3>3. /\ state' \in [Progs -> {"ready", "blocked", "release", "exiting", "dead"}]
          /\ kill' \subseteq Progs
          /\ doing' \in [Procs -> Progs \cup {None}]
          /\ UNCHANGED iprog
      BY <2>20, <2>a, <3>2 DEF delprog, TypeR
    <3>4. CASE doing[p] = Head(runq)
      <4>1. p \in Interps
        BY <1>0, <3>0, <3>1, <3>2, <3>4, SaveRunq DEF Procs
      <4>2. /\ runq' = Tail(runq)
            /\ r' = [r EXCEPT ![p] = None] /\ cycles' = [cycles EXCEPT ![p] = 0]
            /\ pc' = Halt \/ pc' = [pc EXCEPT ![p] = "loop"]
        BY <2>20, <3>4 DEF delprog
      <4>3. TypeR'
        <5>1. r' \in [Interps -> Progs \cup {None}]
          BY <2>a, <4>2 DEF TypeR
        <5>2. cycles' \in [Interps -> 0 .. 2]
          <6>1. 0 \in 0 .. 2
            OBVIOUS
          <6> QED
            BY <2>a, <4>2, <6>1 DEF TypeR
        <5> QED
          BY <2>a, <3>3, <5>1, <5>2 DEF TypeR
      <4>4. runq' \in Seq(Progs) /\ runq' \in Seq(Progs \cup Clients)
        BY <3>0, <3>1, <4>2, SaveRunq
      <4>5. CASE pc' = [pc EXCEPT ![p] = "loop"]
        <5>1. \A j \in Interps : j # p => r'[j] = r[j]
          BY <2>a, <4>2 DEF TypeR
        <5> QED
          BY <2>4, <3>0, <3>3, <4>1, <4>3, <4>4, <4>5, <5>1
      <4>6. CASE pc' = Halt
        <5>1. \A q \in Procs : pc'[q] = "halt"
          BY <4>6 DEF Halt
        <5> QED
          BY <1>0, <4>3, <4>4, <5>1 DEF RunInv, PlaceInv, MineInv, RunqInv, Out
      <4> QED
        BY <4>2, <4>5, <4>6
    <3>5. CASE doing[p] # Head(runq)
      <4>1. UNCHANGED <<runq, pc, r, cycles>>
        BY <2>20, <3>5 DEF delprog
      <4>2. TypeR'
        BY <2>a, <3>3, <4>1 DEF TypeR
      <4> QED
        BY <2>1, <3>3, <4>1, <4>2
    <3> QED
      BY <3>4, <3>5
  <2>22. ASSUME NEW i \in Interps, handler(i) PROVE RunInv'
    <3>1. pc[i] = "run" /\ pc' = [pc EXCEPT ![i] = "handled"] /\ Has(i)
            /\ r' = [r EXCEPT ![i] = None] /\ cycles' = [cycles EXCEPT ![i] = 0]
            /\ kill' \subseteq kill
            /\ UNCHANGED <<runq, state, iprog, doing>>
      BY <2>22 DEF handler, Has, Holder
    <3>2. runq' \in Seq(Progs)
      BY <2>10, <3>1
    <3>3. TypeR'
      BY <2>a, <3>1 DEF TypeR
    <3>4. \A j \in Interps : j # i => r'[j] = r[j]
      BY <2>a, <3>1 DEF TypeR
    <3> QED
      BY <2>4, <3>1, <3>2, <3>3, <3>4
  <2>23. ASSUME NEW i \in Interps, restart(i) PROVE RunInv'
    <3>1. /\ pc' = [pc EXCEPT ![i] = "loop"] /\ Has(i)
          /\ UNCHANGED <<runq, state, kill, iprog, r, cycles, doing>>
      BY <2>23 DEF restart, Has, Holder, progs, locals
    <3>2. runq' \in Seq(Progs) /\ TypeR'
      BY <2>10, <2>a, <3>1 DEF TypeR
    <3> QED
      BY <2>4, <3>1, <3>2
  <2>21. CASE UNCHANGED vars
    <3>1. UNCHANGED <<runq, iprog, r, pc>> /\ TypeR'
      BY <2>21, <2>a DEF vars, progs, locals, TypeR
    <3> QED
      BY <2>1, <3>1
  <2> QED
    BY <2>5, <2>7, <2>8, <2>9, <2>12, <2>13, <2>14, <2>15, <2>16, <2>17, <2>18, <2>19, <2>20, <2>21,
       <2>22, <2>23 DEF Next, acquire, Progress, Advance, EndRun
<1> QED
  BY <1>1, <1>2, TypeSched, VMInvariant, PTL DEF Spec

-----------------------------------------------------------------------------
\* TypeOK: every variable keeps its type; in particular what delrun takes off
\* the run queue is always there.
THEOREM TypeCorrect == Spec => []TypeOK
<1>1. TypeS /\ RunInv => TypeOK
  BY DEF TypeS, RunInv, TypeR, RunqInv, TypeOK
<1> QED
  BY <1>1, TypeSched, RunInvariant, PTL

\* HeadIsMine: what release takes off the run queue is the Prog of the kproc
\* that calls it.
THEOREM HeadKept == Spec => []HeadIsMine
<1>1. RunInv => HeadIsMine
  BY DEF RunInv, MineInv, RunqInv, HeadIsMine
<1> QED
  BY <1>1, RunInvariant, PTL

\* NoLostWakeup: between the test for work in vmachine and its sleep no Wakeup
\* is lost, although only the first kproc to queue for the VM sends one.
THEOREM WakeupKept == Spec => []NoLostWakeup
<1>1. ASSUME Init PROVE NoLostWakeup
  <2>1. \A i \in Interps : pc[i] # "asleep"
    BY <1>1, DisSchedAssumption DEF Init, Procs
  <2> QED
    BY <2>1 DEF NoLostWakeup
<1>2. TypeS /\ VMInv /\ NoLostWakeup /\ [Next]_vars => NoLostWakeup'
  <2> SUFFICES ASSUME TypeS, VMInv, NoLostWakeup, [Next]_vars,
                      NEW i \in Interps, pc'[i] = "asleep", sem'[i] = 0, tready'
               PROVE  \E p \in Procs : pc'[p] = "wakeup"
    BY DEF NoLostWakeup
  <2>0. Interps \subseteq Procs /\ i \in Procs
    BY DEF Procs
  <2>a. TypeS
    OBVIOUS
  <2> USE DEF Goto
  <2>1. CASE pc = Halt
    BY <2>0, <2>1, Halted DEF Halt
  <2>2. ASSUME pc # Halt PROVE SemInv /\ IrendInv /\ OneInv
    BY <2>2 DEF VMInv
  \* While i sleeps nobody else has the VM.
  <2>3. ASSUME NEW p \in Procs, p # i, Has(p), pc[i] = "asleep" PROVE FALSE
    BY <2>0, <2>1, <2>2, <2>3 DEF Halt, OneInv, Has, Holder
  <2>4. ASSUME NEW p \in Procs, NEW n \in Labels \ {"asleep"}, Has(p),
               pc' = [pc EXCEPT ![p] = n]
        PROVE  FALSE
    <3>1. p # i /\ pc'[i] = pc[i]
      BY <2>0, <2>4, <2>a DEF TypeS
    <3> QED
      BY <2>3, <2>4, <3>1
  <2>5. ASSUME NEW p \in Procs, pc[p] \in InRun PROVE pc' # pc
    <3>1. (Has(p) /\ p # i) \/ pc[i] # "asleep"
      BY <2>5 DEF Has, Holder, InRun
    <3> QED
      BY <2>3, <2>5, <3>1 DEF InRun, Has, Holder
  <2>6. ASSUME NEW p \in Procs, acquireIdle(p) PROVE FALSE
    <3>1. p # i /\ pc'[i] = pc[i] /\ pc # Halt /\ idle
      BY <2>0, <2>6, <2>a DEF acquireIdle, Inside, TypeS, Halt
    <3> QED
      BY <2>0, <2>2, <3>1 DEF OneInv, Has, Holder
  <2>7. ASSUME NEW p \in Procs, acquireQueue(p) PROVE \E q \in Procs : pc'[q] = "wakeup"
    <3>1. pc[p] = "out" /\ pc'[p] \in {"wakeup", "vmwait"} /\ \A q \in Procs : q # p => pc'[q] = pc[q]
      BY <2>7, <2>a DEF acquireQueue, TypeS
    <3>2. CASE vmq = << >>
      BY <2>7, <2>a, <3>2 DEF acquireQueue, TypeS
    <3>3. CASE vmq # << >>
      <4>1. pc[i] = "asleep" /\ sem[i] = 0 /\ tready
        BY <2>0, <2>7, <3>1, <3>3 DEF acquireQueue, tready
      <4>2. PICK q \in Procs : pc[q] = "wakeup"
        BY <4>1 DEF NoLostWakeup
      <4> QED
        BY <3>1, <4>2
    <3> QED
      BY <3>2, <3>3
  <2>8. ASSUME NEW p \in Procs, acquireWakeup(p) PROVE FALSE
    <3>1. p # i /\ pc'[i] = pc[i] /\ pc # Halt
      BY <2>0, <2>8, <2>a DEF acquireWakeup, TypeS, Halt
    <3>2. irend = i /\ irend # None => FALSE
      BY <2>0, <2>8, <2>a DEF acquireWakeup, osready, TypeS
    <3>3. irend # None => irend \in Procs
      BY <2>0, <2>a DEF TypeS
    <3>4. i # None
      BY <2>0, DisSchedAssumption
    <3>5. irend # i
      BY <3>2, <3>4
    <3>6. sem'[i] = sem[i]
      BY <2>0, <2>8, <2>a, <3>3, <3>5 DEF acquireWakeup, osready, TypeS
    <3> QED
      BY <2>0, <2>2, <3>1, <3>5, <3>6 DEF IrendInv
  <2>9. ASSUME NEW p \in Procs, acquireGranted(p) \/ releaseSave(p) PROVE FALSE
    <3>1. Has(p)
      BY <2>9 DEF acquireGranted, osblock, Granted, Has, releaseSave, Holder, Inside
    <3>2. PICK n \in {"run", "in", "rel"} : pc' = [pc EXCEPT ![p] = n]
      BY <2>9 DEF acquireGranted, Inside, releaseSave, Save
    <3> QED
      BY <2>4, <3>1, <3>2 DEF Labels
  <2>10. ASSUME NEW p \in Procs, releaseHand(p) PROVE FALSE
    <3>1. Has(p) /\ pc[p] = "rel"
      BY <2>10 DEF releaseHand, Has, Holder
    <3>2. CASE pc' = [pc EXCEPT ![p] = "out"]
      BY <2>4, <3>1, <3>2 DEF Labels
    <3>3. ASSUME NEW j \in Interps, pc' = [pc EXCEPT ![p] = "out", ![j] = "startup"] PROVE FALSE
      <4>1. i # p /\ i # j /\ pc'[i] = pc[i]
        BY <2>0, <2>a, <3>3 DEF TypeS
      <4> QED
        BY <2>3, <3>1, <4>1
    <3> QED
      BY <2>10, <3>2, <3>3 DEF releaseHand
  <2>11. ASSUME NEW p \in Procs, delprog(p) PROVE FALSE
    <3>1. pc[p] \in InRun /\ Has(p)
      BY <2>11 DEF delprog, Inside, InRun, Has, Holder
    <3>2. CASE pc' = Halt
      BY <2>0, <3>2 DEF Halt
    <3>3. CASE pc' = [pc EXCEPT ![p] = "loop"]
      BY <2>4, <3>1, <3>3 DEF Labels
    <3> QED
      BY <2>5, <2>11, <3>1, <3>2, <3>3 DEF delprog
  <2>12. ASSUME NEW p \in Procs, NEW q \in Progs,
                addrun(p, q) \/ killReleased(p, q) \/ killprog(p, q)
         PROVE  FALSE
    <3>1. pc[p] \in InRun /\ Has(p)
      BY <2>12 DEF addrun, killReleased, killprog, InVM, Inside, InRun, Has, Holder
    <3>2. CASE pc' = [pc EXCEPT ![p] = "rel"]
      BY <2>4, <3>1, <3>2 DEF Labels
    <3> QED
      BY <2>5, <2>12, <3>1, <3>2 DEF addrun, killReleased, killprog
  <2>13. ASSUME NEW j \in Interps, startup(j) PROVE \E q \in Procs : pc'[q] = "wakeup"
    <3>1. /\ pc[j] = "startup" /\ pc'[j] \in {"loop", "parked"}
          /\ \A q \in Procs : q # j => pc'[q] = pc[q]
          /\ UNCHANGED <<sem, vmq, runq>>
      BY <2>0, <2>13, <2>a DEF startup, TypeS, progs
    <3>2. pc[i] = "asleep" /\ sem[i] = 0 /\ tready
      BY <2>0, <3>1 DEF tready
    <3>3. PICK q \in Procs : pc[q] = "wakeup"
      BY <3>2 DEF NoLostWakeup
    <3> QED
      BY <3>1, <3>3
  <2>14. ASSUME NEW j \in Interps, SleepBlock(j) PROVE FALSE
    <3>1. Has(j) /\ ~tready /\ UNCHANGED <<vmq, runq>>
      BY <2>14 DEF SleepBlock, Has, Holder, sched, progs
    <3> QED
      BY <3>1 DEF tready
  <2>15. ASSUME NEW j \in Interps,
                \/ startupGranted(j) \/ SleepPass(j) \/ SleepWoken(j)
                \/ iyield(j) \/ iyieldGranted(j) \/ Dispatch(j) \/ restart(j) \/ EndRun(j)
         PROVE  FALSE
    <3>1. Has(j)
      BY <2>15 DEF startupGranted, SleepPass, SleepWoken, iyield, iyieldGranted, Dispatch,
                   RunHead, restart, EndRun, Quantum, Block, handler, progexit, osblock, Has, Holder, Granted
    <3>2. PICK n \in {"loop", "dispatch", "yielded", "run", "raise", "handled", "rel"} :
            pc' = [pc EXCEPT ![j] = n]
      BY <2>15 DEF startupGranted, SleepPass, SleepWoken, iyield, iyieldGranted, Dispatch,
                   RunHead, restart, EndRun, Quantum, Block, handler, progexit, Save
    <3> QED
      BY <2>0, <2>4, <3>1, <3>2 DEF Labels
  <2>16. ASSUME NEW j \in Interps, killSelf(j) PROVE FALSE
    BY <2>0, <2>5, <2>16 DEF killSelf, InRun
  <2>17. ASSUME UNCHANGED vars PROVE \E q \in Procs : pc'[q] = "wakeup"
    <3>1. UNCHANGED <<pc, sem, vmq, runq>>
      BY <2>17 DEF vars, sched, progs
    <3> QED
      BY <2>0, <3>1 DEF tready, NoLostWakeup
  <2> QED
    BY <2>6, <2>7, <2>8, <2>9, <2>10, <2>11, <2>12, <2>13, <2>14, <2>15, <2>16, <2>17
       DEF Next, acquire, Progress, Advance
<1> QED
  BY <1>1, <1>2, TypeSched, VMInvariant, PTL DEF Spec

-----------------------------------------------------------------------------
(* Where a Prog is: on the run queue, or with the Interp that is out in a   *)
(* system call of its, or nowhere.  delprog lets the VM go half way, and so *)
(* a Prog that is being deleted has to be kept from the others.             *)

InPlace == /\ Distinct(runq)
           /\ \A q \in Progs : In(q, runq) => /\ state[q] \in {"ready", "exiting"}
                                              /\ \A i \in Interps : iprog[i] # q
           /\ \A q \in Progs : state[q] = "ready" => In(q, runq)
           /\ \A q \in Progs : state[q] = "release" => \E i \in Interps : iprog[i] = q
           /\ \A i \in Interps : iprog[i] # None =>
                 /\ state[iprog[i]] \in {"release", "exiting"}
                 /\ pc[i] \in Out \cup {"halt"}
                 /\ \A j \in Interps : iprog[j] = iprog[i] => j = i

\* killprog has taken q off the queues; nobody else finds it.
Gone(q) == /\ state[q] = "exiting" /\ ~In(q, runq)
           /\ \A i \in Interps : iprog[i] # q

\* A kproc deletes a Prog that is gone, or in progexit its own.
Deleting == \A p \in Procs : doing[p] # None =>
               /\ pc[p] \in Out \cup {"run", "in", "halt"}
               /\ Gone(doing[p]) \/ (p \in Interps /\ r[p] = doing[p])
               /\ \A x \in Procs : doing[x] = doing[p] => x = p

\* The program ends for all kprocs at once.
Halts == pc = Halt \/ \A p \in Procs : pc[p] # "halt"

Sched == TypeS /\ VMInv /\ RunInv /\ Halts /\ pc # Halt

\* A kproc in the VM is alone there, at the head of the run queue.
LEMMA HolderAlone ==
    ASSUME Sched, NEW p \in Procs, Has(p)
    PROVE  \A x \in Procs \ {p} : pc[x] \notin Running /\ ~Has(x)
BY DEF Sched, VMInv, OneInv, Has, Holder, Running

\* What holds of the Prog at the head when p, in the VM, runs it.
LEMMA AtHead ==
    ASSUME Sched, InPlace, NEW p \in Procs, pc[p] \in InRun
    PROVE  /\ runq # << >> /\ runq \in Seq(Progs \cup Clients)
           /\ Tail(runq) \in Seq(Progs) /\ In(Head(runq), runq)
           /\ p \in Interps => /\ Head(runq) = r[p] /\ r[p] \in Progs
                              /\ iprog[p] = None
           /\ p \in Clients => Head(runq) = p
           /\ Distinct(Tail(runq))
           /\ \A x \in Progs : In(x, Tail(runq)) <=> In(x, runq) /\ x # Head(runq)
<1>0. Has(p) /\ pc[p] \in Running
  BY DEF Has, Holder, InRun, Running
<1>1. \A x \in Procs \ {p} : pc[x] \notin InRun
  <2>1. \A x \in Procs \ {p} : pc[x] \notin Running
    BY <1>0, HolderAlone
  <2> QED
    BY <2>1 DEF InRun, Running
<1>2. TypeS /\ RunInv
  BY DEF Sched
<1>3. /\ runq # << >> /\ Tail(runq) \in Seq(Progs)
      /\ p \in Interps => Head(runq) = r[p] /\ r[p] \in Progs
      /\ p \in Clients => Head(runq) = p
  BY <1>1, <1>2, SaveRunq
<1>4. runq \in Seq(Progs \cup Clients)
  BY <1>2 DEF RunInv, RunqInv
<1>5. Distinct(runq)
  BY DEF InPlace
<1>6. /\ Distinct(Tail(runq)) /\ In(Head(runq), runq)
      /\ \A x \in Progs \cup Clients : In(x, Tail(runq)) <=> In(x, runq) /\ x # Head(runq)
  BY <1>3, <1>4, <1>5, LeaveQueue
<1>7. p \in Interps => iprog[p] = None
  <2> SUFFICES ASSUME p \in Interps, iprog[p] # None PROVE FALSE
    OBVIOUS
  <2>1. pc[p] \in Out \cup {"halt"}
    BY DEF InPlace
  <2> QED
    BY <2>1 DEF Out, InRun
<1> QED
  BY <1>3, <1>4, <1>6, <1>7

\* Steps that leave the Progs where they are.
LEMMA QuietKept ==
    ASSUME Sched, InPlace, Deleting, UNCHANGED <<state, iprog, doing>>,
           Distinct(runq'), \A q \in Progs : In(q, runq') <=> In(q, runq),
           \A i \in Interps : iprog[i] # None => pc'[i] \in Out \cup {"halt"},
           \A p \in Procs : doing[p] # None => pc'[p] \in Out \cup {"run", "in", "halt"},
           \A i \in Interps : doing[i] # None => r'[i] = r[i]
    PROVE  InPlace' /\ Deleting'
<1>1. InPlace'
  BY DEF InPlace, Sched, RunInv, TypeR
<1>2. Deleting'
  <2>1. \A q \in Progs : Gone(q) => Gone(q)'
    BY DEF Gone
  <2> QED
    BY <2>1 DEF Sched, RunInv, TypeR, Deleting
<1> QED
  BY <1>1, <1>2

\* p in the VM goes out of it, and the Prog at the head with it; those of D
\* are taken off the run queue.
LEMMA OutKept ==
    ASSUME Sched, InPlace, NEW p \in Procs, pc[p] \in InRun,
           pc' = [pc EXCEPT ![p] = "rel"], NEW D \in SUBSET Progs, Head(runq) \notin D,
           \A i \in Interps : iprog[i] \notin D, Distinct(runq'),
           \A x \in Progs : In(x, runq') <=> In(x, Tail(runq)) /\ x \notin D,
           \A x \in Progs : state'[x] = IF x \in D THEN "exiting"
                                       ELSE IF x = Head(runq) THEN "release" ELSE state[x],
           \A i \in Interps : iprog'[i] = IF i = p THEN Head(runq) ELSE iprog[i]
    PROVE  InPlace' /\ \A q \in Progs : Gone(q) \/ q \in D => Gone(q)'
<1>0. TypeS /\ TypeR /\ Interps \cup Clients = Procs /\ Interps \cap Clients = {}
        /\ Progs \cap Procs = {} /\ None \notin Progs
  BY DisSchedAssumption DEF Sched, RunInv, Procs
<1>1. PICK h : h = Head(runq)
  OBVIOUS
<1>2. /\ In(h, runq) /\ h \notin D
      /\ p \in Interps => h = r[p] /\ h \in Progs /\ iprog[p] = None
      /\ p \in Clients => h = p /\ h \notin Progs
      /\ \A x \in Progs : In(x, runq') <=> In(x, runq) /\ x # h /\ x \notin D
  BY <1>0, <1>1, AtHead
<1>3. /\ \A x \in D : state'[x] = "exiting"
      /\ h \in Progs => state'[h] = "release"
      /\ \A x \in Progs : x # h /\ x \notin D => state'[x] = state[x]
  BY <1>1, <1>2
<1>4. /\ p \in Interps => iprog'[p] = h
      /\ \A i \in Interps : i # p => iprog'[i] = iprog[i]
  BY <1>1
<1>5. pc'[p] = "rel" /\ \A x \in Procs : x # p => pc'[x] = pc[x]
  BY <1>0 DEF TypeS
<1>6. \A i \in Interps : iprog[i] # None => iprog[i] \in Progs /\ iprog[i] # h /\ iprog[i] \notin D
  <2> SUFFICES ASSUME NEW i \in Interps, iprog[i] # None
               PROVE  iprog[i] \in Progs /\ iprog[i] # h
    OBVIOUS
  <2>1. iprog[i] \in Progs
    BY <1>0 DEF TypeR
  <2>2. ~In(iprog[i], runq)
    BY <2>1 DEF InPlace
  <2> QED
    BY <1>2, <2>1, <2>2
<1>7. InPlace'
  <2>1. ASSUME NEW q \in Progs, In(q, runq')
        PROVE  state'[q] \in {"ready", "exiting"} /\ \A i \in Interps : iprog'[i] # q
    <3>1. In(q, runq) /\ q # h /\ q \notin D
      BY <1>2, <2>1
    <3>2. state[q] \in {"ready", "exiting"} /\ \A i \in Interps : iprog[i] # q
      BY <3>1 DEF InPlace
    <3> QED
      BY <1>3, <1>4, <3>1, <3>2
  <2>2. ASSUME NEW q \in Progs, state'[q] = "ready" PROVE In(q, runq')
    <3>1. q # h /\ q \notin D /\ state[q] = "ready"
      BY <1>3, <2>2
    <3> QED
      BY <1>2, <3>1 DEF InPlace
  <2>3. ASSUME NEW q \in Progs, state'[q] = "release" PROVE \E i \in Interps : iprog'[i] = q
    <3>1. CASE q = h
      BY <1>0, <1>2, <1>4, <3>1
    <3>2. CASE q # h
      <4>1. state[q] = "release"
        BY <1>3, <2>3, <3>2
      <4>2. PICK i \in Interps : iprog[i] = q
        BY <4>1 DEF InPlace
      <4>3. i # p
        BY <1>0, <1>2, <4>2
      <4> QED
        BY <1>4, <4>2, <4>3
    <3> QED
      BY <3>1, <3>2
  <2>4. ASSUME NEW i \in Interps, iprog'[i] # None
        PROVE  /\ state'[iprog'[i]] \in {"release", "exiting"}
               /\ pc'[i] \in Out \cup {"halt"}
               /\ \A j \in Interps : iprog'[j] = iprog'[i] => j = i
    <3>1. CASE i = p
      <4>1. iprog'[i] = h /\ h \in Progs
        BY <1>2, <1>4, <3>1
      <4>2. \A j \in Interps : j # p => iprog'[j] # h
        BY <1>0, <1>4, <1>6, <4>1
      <4> QED
        BY <1>3, <1>5, <3>1, <4>1, <4>2 DEF Out
    <3>2. CASE i # p
      <4>1. iprog'[i] = iprog[i] /\ iprog[i] \in Progs /\ iprog[i] # h /\ iprog[i] \notin D
        BY <1>4, <1>6, <2>4, <3>2
      <4>2. /\ state[iprog[i]] \in {"release", "exiting"} /\ pc[i] \in Out \cup {"halt"}
            /\ \A j \in Interps : iprog[j] = iprog[i] => j = i
        BY <2>4, <4>1 DEF InPlace
      <4>3. \A j \in Interps : iprog'[j] = iprog'[i] => j = i
        BY <1>4, <4>1, <4>2
      <4> QED
        BY <1>0, <1>3, <1>5, <3>2, <4>1, <4>2, <4>3
    <3> QED
      BY <3>1, <3>2
  <2> QED
    BY <2>1, <2>2, <2>3, <2>4 DEF InPlace
<1>8. ASSUME NEW q \in Progs, Gone(q) \/ q \in D PROVE Gone(q)'
  <2>1. q # h
    BY <1>2, <1>8 DEF Gone
  <2>2. state'[q] = "exiting"
    BY <1>3, <1>8, <2>1 DEF Gone
  <2>3. ~In(q, runq')
    BY <1>2, <1>8 DEF Gone
  <2>4. \A i \in Interps : iprog'[i] # q
    BY <1>4, <1>8, <2>1 DEF Gone
  <2> QED
    BY <2>2, <2>3, <2>4 DEF Gone
<1> QED
  BY <1>7, <1>8

\* acquire puts up's Prog at the head.
LEMMA ResumeKept ==
    ASSUME Sched, InPlace, Deleting, NEW p \in Procs, acquireIdle(p) \/ acquireGranted(p)
    PROVE  InPlace' /\ Deleting'
<1>0. TypeS /\ TypeR /\ PlaceInv /\ MineInv /\ RunqInv /\ Interps \subseteq Procs
        /\ Progs \cap Procs = {} /\ None \notin Procs \cup Progs /\ Interps \cap Clients = {}
  BY DisSchedAssumption DEF Sched, RunInv, Procs
<1>1. /\ pc[p] \in Out /\ pc' = [pc EXCEPT ![p] = Inside(p)] /\ Resume(p)
      /\ UNCHANGED <<r, doing>>
  BY DEF acquireIdle, acquireGranted, Out, Goto
<1>2. \A x \in Procs \ {p} : pc[x] \notin InRun
  <2>1. CASE acquireIdle(p)
    BY <2>1 DEF acquireIdle, Sched, VMInv, OneInv, Has, Holder, InRun
  <2>2. CASE acquireGranted(p)
    <3>1. Has(p)
      BY <2>2 DEF acquireGranted, osblock, Goto, Has, Granted
    <3>2. \A x \in Procs \ {p} : pc[x] \notin Running
      BY <3>1, HolderAlone
    <3> QED
      BY <3>2 DEF InRun, Running
  <2> QED
    BY <2>1, <2>2
<1>3. runq \in Seq(Progs) /\ runq \in Seq(Progs \cup Clients)
  <2>1. \A c \in Clients : pc[c] # "in"
    BY <1>1, <1>2 DEF InRun, Out, Procs
  <2> QED
    BY <1>0, <2>1 DEF RunqInv
<1>4. PICK m : m = Mine(p)
  OBVIOUS
<1>5. /\ m \in Progs \cup Clients /\ ~In(m, runq)
      /\ p \in Interps => m = iprog[p] /\ m \in Progs /\ m = r[p]
      /\ p \in Clients => m = p /\ m \notin Progs /\ p \notin Interps
  <2>1. CASE p \in Interps
    <3>1. m = iprog[p] /\ m = r[p] /\ m \in Progs
      BY <1>0, <1>1, <1>4, <2>1 DEF Mine, MineInv
    <3>2. \A q \in Progs : In(q, runq) => iprog[p] # q
      BY <2>1 DEF InPlace
    <3>3. ~In(m, runq)
      BY <3>1, <3>2
    <3> QED
      BY <1>0, <2>1, <3>1, <3>3
  <2>2. CASE p \notin Interps
    <3>1. m = p /\ p \in Clients /\ m \notin Progs
      BY <1>0, <1>4, <2>2 DEF Mine, Procs
    <3>2. ~In(m, runq)
      BY <1>3, <3>1 DEF In
    <3> QED
      BY <2>2, <3>1, <3>2
  <2> QED
    BY <2>1, <2>2
<1>6. /\ Distinct(runq')
      /\ \A x \in Progs : In(x, runq') <=> In(x, runq) \/ x = m
  <2>1. runq' = <<m>> \o runq
    BY <1>1, <1>4 DEF Resume
  <2>2. Distinct(runq)
    BY DEF InPlace
  <2>3. m \in Progs \cup Clients /\ ~In(m, runq)
    BY <1>5
  <2> QED
    BY <1>3, <2>1, <2>2, <2>3, PushQueue
<1>7. /\ \A x \in Progs : x # m => state'[x] = state[x]
      /\ m \in Progs => state'[m] = "ready"
      /\ \A i \in Interps : i # p => iprog'[i] = iprog[i]
      /\ p \in Interps => iprog'[p] = None
  BY <1>0, <1>1, <1>4 DEF Resume, TypeR
<1>8. pc'[p] = Inside(p) /\ \A x \in Procs : x # p => pc'[x] = pc[x]
  BY <1>0, <1>1 DEF TypeS
<1>9. InPlace'
  <2>1. ASSUME NEW i \in Interps, iprog'[i] # None
        PROVE  i # p /\ iprog'[i] = iprog[i] /\ iprog[i] \in Progs /\ iprog[i] # m
    <3>1. i # p /\ iprog'[i] = iprog[i] /\ iprog[i] \in Progs
      BY <1>0, <1>7, <2>1 DEF TypeR
    <3>2. CASE p \in Interps
      BY <1>0, <1>5, <2>1, <3>1, <3>2 DEF InPlace
    <3>3. CASE p \notin Interps
      BY <1>0, <1>5, <3>1, <3>3 DEF Procs
    <3> QED
      BY <3>1, <3>2, <3>3
  <2>2. ASSUME NEW q \in Progs, In(q, runq')
        PROVE  state'[q] \in {"ready", "exiting"} /\ \A i \in Interps : iprog'[i] # q
    <3>1. CASE q = m
      BY <1>0, <1>7, <2>1, <2>2, <3>1
    <3>2. CASE q # m
      BY <1>0, <1>6, <1>7, <2>1, <2>2, <3>2 DEF InPlace
    <3> QED
      BY <3>1, <3>2
  <2>3. ASSUME NEW q \in Progs, state'[q] = "ready" PROVE In(q, runq')
    BY <1>6, <1>7, <2>3 DEF InPlace
  <2>4. ASSUME NEW q \in Progs, state'[q] = "release" PROVE \E i \in Interps : iprog'[i] = q
    <3>1. q # m /\ state[q] = "release"
      BY <1>7, <2>4
    <3>2. PICK i \in Interps : iprog[i] = q
      BY <3>1 DEF InPlace
    <3>3. i # p
      BY <1>5, <3>1, <3>2
    <3> QED
      BY <1>7, <3>2, <3>3
  <2>5. ASSUME NEW i \in Interps, iprog'[i] # None
        PROVE  /\ state'[iprog'[i]] \in {"release", "exiting"}
               /\ pc'[i] \in Out \cup {"halt"}
               /\ \A j \in Interps : iprog'[j] = iprog'[i] => j = i
    BY <1>0, <1>7, <1>8, <2>1, <2>5 DEF InPlace
  <2> QED
    BY <1>6, <2>2, <2>3, <2>4, <2>5 DEF InPlace
<1>10. Deleting'
  <2>1. ASSUME NEW q \in Progs, Gone(q) PROVE Gone(q)'
    <3>1. q # m
      BY <1>5, <2>1, DisSchedAssumption DEF Gone, Procs
    <3>2. \A i \in Interps : iprog'[i] # q
      BY <1>0, <1>7, <2>1 DEF Gone
    <3> QED
      BY <1>6, <1>7, <2>1, <3>1, <3>2 DEF Gone
  <2>2. ASSUME NEW x \in Procs PROVE pc[x] \in Out \cup {"run", "in", "halt"} => pc'[x] \in Out \cup {"run", "in", "halt"}
    BY <1>8 DEF Inside
  <2> QED
    BY <1>0, <1>1, <2>1, <2>2 DEF Deleting, TypeR
<1> QED
  BY <1>9, <1>10

\* Whom p in the VM finds on the run queue, nobody is deleting.
LEMMA NobodyDeletes ==
    ASSUME Sched, InPlace, Deleting, NEW p \in Procs, pc[p] \in InRun, NEW q \in Progs,
           ~Gone(q), \A i \in Interps : iprog[i] # q
    PROVE  \A x \in Procs \ {p} : doing[x] # q
<1> SUFFICES ASSUME NEW x \in Procs \ {p}, doing[x] = q PROVE FALSE
  OBVIOUS
<1>0. RunInv /\ Halts /\ pc # Halt /\ None \notin Progs
  BY DisSchedAssumption DEF Sched
<1>1. /\ pc[x] \in Out \cup {"run", "in", "halt"}
      /\ x \in Interps /\ r[x] = q
  BY <1>0 DEF Deleting
<1>2. Has(p) /\ pc[x] # "halt"
  BY <1>0 DEF Has, Holder, InRun, Halts
<1>3. pc[x] \notin Running
  BY <1>2, HolderAlone
<1>4. pc[x] \in Out
  BY <1>1, <1>2, <1>3 DEF Running
<1>5. iprog[x] = q
  BY <1>0, <1>1, <1>4 DEF RunInv, MineInv
<1> QED
  BY <1>1, <1>5

LEMMA SaveKept ==
    ASSUME Sched, InPlace, Deleting, NEW p \in Procs,
           releaseSave(p) \/ (p \in Interps /\ progexit(p))
    PROVE  InPlace' /\ Deleting'
<1>0. TypeS /\ TypeR /\ PlaceInv /\ MineInv /\ Interps \subseteq Procs /\ None \notin Progs
  BY DisSchedAssumption DEF Sched, RunInv, Procs
<1>1. /\ pc[p] \in InRun /\ doing[p] = None /\ Save(p) /\ UNCHANGED r
  BY DEF releaseSave, progexit, Inside, InRun
<1>2. InPlace' /\ \A q \in Progs : Gone(q) => Gone(q)'
  <2>1. runq' = Tail(runq) /\ pc' = [pc EXCEPT ![p] = "rel"]
    BY <1>1 DEF Save
  <2>2. Distinct(runq')
    BY <1>1, <2>1, AtHead
  <2>3. \A x \in Progs : state'[x] = IF x \in {} THEN "exiting"
                                  ELSE IF x = Head(runq) THEN "release" ELSE state[x]
    BY <1>1 DEF Save
  <2>5. \A x \in Progs : In(x, runq') <=> In(x, Tail(runq)) /\ x \notin {}
    BY <2>1
  <2>6. {} \in SUBSET Progs /\ Head(runq) \notin {} /\ \A i \in Interps : iprog[i] \notin {}
    OBVIOUS
  <2>4. \A i \in Interps : iprog'[i] = IF i = p THEN Head(runq) ELSE iprog[i]
    BY <1>1 DEF Save
  <2> QED
    BY <1>1, <2>1, <2>2, <2>3, <2>4, <2>5, <2>6, OutKept
<1>3. pc'[p] = "rel" /\ \A x \in Procs : x # p => pc'[x] = pc[x]
  BY <1>0, <1>1 DEF TypeS, Save
<1>4. CASE releaseSave(p)
  <2>1. UNCHANGED doing
    BY <1>4 DEF releaseSave
  <2> QED
    BY <1>0, <1>1, <1>2, <1>3, <2>1 DEF Deleting, TypeR, Out
<1>5. CASE p \in Interps /\ progexit(p)
  <2>1. PICK h : h = r[p]
    OBVIOUS
  <2>2. h = Head(runq) /\ h \in Progs /\ In(h, runq)
    BY <1>1, <1>5, <2>1, AtHead
  <2>3. doing'[p] = h /\ \A x \in Procs : x # p => doing'[x] = doing[x]
    BY <1>0, <1>5, <2>2 DEF progexit, TypeR
  <2>4. \A x \in Procs \ {p} : doing[x] # h
    <3>1. ~Gone(h) /\ \A i \in Interps : iprog[i] # h
      BY <2>2 DEF Gone, InPlace
    <3> QED
      BY <1>1, <2>2, <3>1, NobodyDeletes
  <2>5. ASSUME NEW x \in Procs, doing'[x] # None
        PROVE  /\ pc'[x] \in Out \cup {"run", "in", "halt"}
               /\ Gone(doing[x])' \/ (x \in Interps /\ r'[x] = doing'[x])
               /\ \A y \in Procs : doing'[y] = doing'[x] => y = x
    <3>1. CASE x = p
      BY <1>1, <1>3, <1>5, <2>1, <2>3, <2>4, <3>1 DEF Out
    <3>2. CASE x # p
      <4>1. doing'[x] = doing[x] /\ doing[x] \in Progs
        BY <1>0, <2>3, <2>5, <3>2 DEF TypeR
      <4>2. /\ pc[x] \in Out \cup {"run", "in", "halt"}
            /\ Gone(doing[x]) \/ (x \in Interps /\ r[x] = doing[x])
            /\ \A y \in Procs : doing[y] = doing[x] => y = x
        BY <2>5, <4>1 DEF Deleting
      <4>3. Gone(doing[x]) => Gone(doing[x])'
        <5> SUFFICES ASSUME NEW d \in Progs, d = doing[x], Gone(d) PROVE Gone(doing[x])'
          BY <4>1
        <5>1. Gone(d)'
          BY <1>2
        <5> QED
          BY <4>1, <5>1 DEF Gone
      <4>4. \A y \in Procs : doing'[y] = doing'[x] => y = x
        BY <2>3, <2>4, <3>2, <4>1, <4>2
      <4> QED
        BY <1>1, <1>3, <3>2, <4>1, <4>2, <4>3, <4>4
    <3> QED
      BY <3>1, <3>2
  <2> QED
    BY <1>2, <2>5 DEF Deleting
<1> QED
  BY <1>4, <1>5

LEMMA KillprogKept ==
    ASSUME Sched, InPlace, Deleting, NEW p \in Procs, NEW q \in Progs, killprog(p, q)
    PROVE  InPlace' /\ Deleting'
<1>0. TypeS /\ TypeR /\ Interps \subseteq Procs /\ None \notin Progs
  BY DisSchedAssumption DEF Sched, RunInv, Procs
<1>1. /\ pc[p] \in InRun /\ doing[p] = None /\ q # Head(runq) /\ UNCHANGED r
      /\ pc' = [pc EXCEPT ![p] = "rel"] /\ doing' = [doing EXCEPT ![p] = q]
      /\ state[q] \in {"blocked", "ready"}
  BY DEF killprog, InVM, Inside, InRun
<1>2. /\ Distinct(runq')
      /\ \A x \in Progs : In(x, runq') <=> In(x, Tail(runq)) /\ x \notin {q}
  <2>1. /\ Tail(runq) \in Seq(Progs) /\ Distinct(Tail(runq))
        /\ \A x \in Progs : In(x, Tail(runq)) <=> In(x, runq) /\ x # Head(runq)
    BY <1>1, AtHead
  <2>2. CASE state[q] = "blocked" /\ runq' = Tail(runq)
    <3>1. ~In(q, runq)
      BY <2>2 DEF InPlace
    <3> QED
      BY <2>1, <2>2, <3>1
  <2>3. ASSUME NEW n \in 1 .. Len(runq) - 1, Tail(runq)[n] = q, runq' = RemoveAt(Tail(runq), n)
        PROVE  /\ Distinct(runq')
               /\ \A x \in Progs : In(x, runq') <=> In(x, Tail(runq)) /\ x \notin {q}
    <3>1. n \in 1 .. Len(Tail(runq))
      BY <1>1, <2>3, AtHead, TailFacts
    <3> QED
      BY <2>1, <2>3, <3>1, RemoveAtDistinct
  <2> QED
    BY <2>2, <2>3 DEF killprog
<1>3. \A i \in Interps : iprog[i] # q
  BY <1>0, <1>1 DEF InPlace
<1>4. InPlace' /\ \A x \in Progs : Gone(x) \/ x \in {q} => Gone(x)'
  <2>1. \A x \in Progs : state'[x] = IF x \in {q} THEN "exiting"
                                  ELSE IF x = Head(runq) THEN "release" ELSE state[x]
    BY DEF killprog
  <2>2. \A i \in Interps : iprog'[i] = IF i = p THEN Head(runq) ELSE iprog[i]
    BY DEF killprog
  <2>3. {q} \in SUBSET Progs /\ Head(runq) \notin {q} /\ \A i \in Interps : iprog[i] \notin {q}
    BY <1>1, <1>3
  <2> QED
    BY <1>1, <1>2, <2>1, <2>2, <2>3, OutKept
<1>5. \A x \in Procs \ {p} : doing[x] # q
  <2>1. ~Gone(q)
    BY <1>1 DEF Gone
  <2> QED
    BY <1>1, <1>3, <2>1, NobodyDeletes
<1>6. pc'[p] = "rel" /\ \A x \in Procs : x # p => pc'[x] = pc[x]
  BY <1>0, <1>1 DEF TypeS
<1>7. doing'[p] = q /\ \A x \in Procs : x # p => doing'[x] = doing[x]
  BY <1>0, <1>1 DEF TypeR
<1>8. ASSUME NEW x \in Procs, doing'[x] # None
      PROVE  /\ pc'[x] \in Out \cup {"run", "in", "halt"}
             /\ Gone(doing[x])' \/ (x \in Interps /\ r'[x] = doing'[x])
             /\ \A y \in Procs : doing'[y] = doing'[x] => y = x
  <2>1. CASE x = p
    <3>1. Gone(q)'
      BY <1>4
    <3>2. Gone(doing[x])'
      BY <1>7, <2>1, <3>1 DEF Gone
    <3> QED
      BY <1>5, <1>6, <1>7, <2>1, <3>2 DEF Out
  <2>2. CASE x # p
    <3>1. doing'[x] = doing[x] /\ doing[x] \in Progs
      BY <1>0, <1>7, <1>8, <2>2 DEF TypeR
    <3>2. /\ pc[x] \in Out \cup {"run", "in", "halt"}
          /\ Gone(doing[x]) \/ (x \in Interps /\ r[x] = doing[x])
          /\ \A y \in Procs : doing[y] = doing[x] => y = x
      BY <1>8, <3>1 DEF Deleting
    <3>3. Gone(doing[x]) => Gone(doing[x])'
      <4> SUFFICES ASSUME NEW d \in Progs, d = doing[x], Gone(d) PROVE Gone(doing[x])'
        BY <3>1
      <4>1. Gone(d)'
        BY <1>4
      <4> QED
        BY <3>1, <4>1 DEF Gone
    <3>4. \A y \in Procs : doing'[y] = doing'[x] => y = x
      BY <1>5, <1>7, <2>2, <3>1, <3>2
    <3> QED
      BY <1>1, <1>6, <2>2, <3>1, <3>2, <3>3, <3>4
  <2> QED
    BY <2>1, <2>2
<1> QED
  BY <1>4, <1>8 DEF Deleting

\* p in the VM makes an end of a Prog, or stops it, or starts it again.
LEMMA DelprogKept ==
    ASSUME Sched, InPlace, Deleting, NEW p \in Procs, delprog(p)
    PROVE  InPlace' /\ Deleting'
<1>0. TypeS /\ TypeR /\ Interps \cup Clients = Procs /\ Interps \cap Clients = {}
        /\ Progs \cap Procs = {} /\ None \notin Progs
  BY DisSchedAssumption DEF Sched, RunInv, Procs
<1>1. PICK h, d : h = Head(runq) /\ d = doing[p]
  OBVIOUS
<1>2. /\ pc[p] \in InRun /\ d \in Progs /\ UNCHANGED iprog
      /\ state' = [state EXCEPT ![d] = "dead"] /\ doing' = [doing EXCEPT ![p] = None]
  BY <1>0, <1>1 DEF delprog, Inside, InRun, TypeR
<1>3. /\ In(h, runq) /\ Distinct(Tail(runq))
      /\ \A x \in Progs : In(x, Tail(runq)) <=> In(x, runq) /\ x # h
      /\ p \in Interps => h = r[p] /\ h \in Progs /\ iprog[p] = None
      /\ p \in Clients => h = p
  BY <1>1, <1>2, AtHead
\* The one that is deleted is at the head, or it is gone.
<1>4. d # h => Gone(d)
  BY <1>0, <1>1, <1>2, <1>3 DEF Deleting
<1>5. \A i \in Interps : iprog[i] # d
  BY <1>2, <1>3, <1>4 DEF InPlace, Gone
<1>6. /\ Distinct(runq')
      /\ \A x \in Progs : In(x, runq') <=> In(x, runq) /\ x # d
  <2>1. CASE d = h
    <3>1. runq' = Tail(runq)
      BY <1>1, <2>1 DEF delprog
    <3> QED
      BY <1>3, <2>1, <3>1
  <2>2. CASE d # h
    <3>1. runq' = runq /\ ~In(d, runq) /\ Distinct(runq)
      BY <1>1, <1>4, <2>2 DEF delprog, Gone, InPlace
    <3> QED
      BY <3>1
  <2> QED
    BY <2>1, <2>2
<1>7. /\ \A x \in Procs : x # p => doing'[x] = doing[x]
      /\ doing'[p] = None /\ state'[d] = "dead"
      /\ \A x \in Progs : x # d => state'[x] = state[x]
  BY <1>0, <1>2 DEF TypeR
<1>8. \A x \in Procs : x # p => pc'[x] \in {pc[x], "halt"}
  <2>1. pc' = Halt \/ pc' = [pc EXCEPT ![p] = "loop"] \/ pc' = pc
    BY DEF delprog
  <2> QED
    BY <1>0, <2>1 DEF Halt, TypeS
<1>9. \A i \in Interps : i # p => r'[i] = r[i]
  <2>1. r' = [r EXCEPT ![p] = None] \/ r' = r
    BY DEF delprog
  <2> QED
    BY <1>0, <2>1 DEF TypeR
<1>10. InPlace'
  <2>1. ASSUME NEW q \in Progs, In(q, runq')
        PROVE  state'[q] \in {"ready", "exiting"} /\ \A i \in Interps : iprog'[i] # q
    BY <1>2, <1>6, <1>7, <2>1 DEF InPlace
  <2>2. ASSUME NEW q \in Progs
        PROVE  /\ state'[q] = "ready" => In(q, runq')
               /\ state'[q] = "release" => \E i \in Interps : iprog'[i] = q
    BY <1>2, <1>6, <1>7 DEF InPlace
  <2>3. ASSUME NEW i \in Interps, iprog'[i] # None
        PROVE  /\ state'[iprog'[i]] \in {"release", "exiting"}
               /\ pc'[i] \in Out \cup {"halt"}
               /\ \A j \in Interps : iprog'[j] = iprog'[i] => j = i
    <3>1. iprog[i] \in Progs /\ iprog[i] # d /\ i # p /\ iprog'[i] = iprog[i]
      BY <1>0, <1>2, <1>3, <1>5, <2>3 DEF TypeR
    <3>2. /\ state[iprog[i]] \in {"release", "exiting"} /\ pc[i] \in Out \cup {"halt"}
          /\ \A j \in Interps : iprog[j] = iprog[i] => j = i
      BY <3>1, <2>3 DEF InPlace
    <3>3. pc'[i] \in Out \cup {"halt"}
      BY <1>0, <1>8, <3>1, <3>2
    <3> QED
      BY <1>2, <1>7, <3>1, <3>2, <3>3
  <2> QED
    BY <1>6, <2>1, <2>2, <2>3 DEF InPlace
<1>11. ASSUME NEW x \in Procs, doing'[x] # None
       PROVE  /\ pc'[x] \in Out \cup {"run", "in", "halt"}
              /\ Gone(doing[x])' \/ (x \in Interps /\ r'[x] = doing'[x])
              /\ \A y \in Procs : doing'[y] = doing'[x] => y = x
  <2>1. x # p /\ doing'[x] = doing[x] /\ doing[x] \in Progs
    BY <1>0, <1>7, <1>11 DEF TypeR
  <2>2. /\ pc[x] \in Out \cup {"run", "in", "halt"}
        /\ Gone(doing[x]) \/ (x \in Interps /\ r[x] = doing[x])
        /\ \A y \in Procs : doing[y] = doing[x] => y = x
    BY <1>11, <2>1 DEF Deleting
  <2>3. Gone(doing[x]) => Gone(doing[x])'
    <3>1. doing[x] # d
      BY <1>1, <2>1, <2>2
    <3> QED
      BY <1>2, <1>6, <1>7, <2>1, <3>1 DEF Gone
  <2>4. \A y \in Procs : doing'[y] = doing'[x] => y = x
    BY <1>0, <1>7, <2>1, <2>2
  <2> QED
    BY <1>8, <1>9, <2>1, <2>2, <2>3, <2>4
<1> QED
  BY <1>10, <1>11 DEF Deleting

\* The Prog at the head blocks, or is killed; p starts q, or kills it while it is out.
LEMMA StateKept ==
    ASSUME Sched, InPlace, Deleting, NEW p \in Procs,
           \/ p \in Interps /\ (Block(p) \/ killSelf(p))
           \/ \E q \in Progs : addrun(p, q) \/ killReleased(p, q)
    PROVE  InPlace' /\ Deleting'
<1>0. TypeS /\ TypeR /\ Interps \subseteq Procs /\ None \notin Progs
  BY DisSchedAssumption DEF Sched, RunInv, Procs
<1>1. /\ pc[p] \in InRun /\ doing[p] = None /\ UNCHANGED <<iprog, doing>>
      /\ pc' = pc \/ pc' = [pc EXCEPT ![p] = "loop"]
      /\ r' = r \/ r' = [r EXCEPT ![p] = None]
  BY DEF Block, killSelf, addrun, killReleased, InVM, Inside, InRun, Goto, locals
<1>2. /\ \A x \in Procs : x # p => pc'[x] = pc[x]
      /\ \A x \in Interps : x # p => r'[x] = r[x]
      /\ p \in Interps => iprog[p] = None
  <2>1. p \in Interps => iprog[p] = None
    BY <1>1, AtHead
  <2> QED
    BY <1>0, <1>1, <2>1 DEF TypeS, TypeR
\* q is the Prog whose state changes.
<1> DEFINE Others(q) ==
              /\ \A x \in Progs : x # q => state'[x] = state[x]
              /\ \A x \in Progs : x # q => (In(x, runq') <=> In(x, runq))
              /\ Distinct(runq') /\ ~Gone(q)
           Itself(q) ==
              \/ state'[q] = "ready" /\ In(q, runq') /\ \A i \in Interps : iprog[i] # q
              \/ state'[q] = "blocked" /\ ~In(q, runq') /\ \A i \in Interps : iprog[i] # q
              \/ state'[q] = "exiting" /\ In(q, runq') /\ \A i \in Interps : iprog[i] # q
              \/ state'[q] = "exiting" /\ ~In(q, runq') /\ \E i \in Interps : iprog[i] = q
<1>3. \E q \in Progs : Others(q) /\ Itself(q)
  <2>1. CASE p \in Interps /\ (Block(p) \/ killSelf(p))
    <3>1. PICK h : h = Head(runq)
      OBVIOUS
    <3>2. /\ h \in Progs /\ In(h, runq) /\ Distinct(Tail(runq)) /\ Distinct(runq)
          /\ \A x \in Progs : In(x, Tail(runq)) <=> In(x, runq) /\ x # h
      BY <1>1, <2>1, <3>1, AtHead DEF InPlace
    <3>3. ~Gone(h) /\ \A i \in Interps : iprog[i] # h
      BY <3>2 DEF Gone, InPlace
    <3>4. CASE Block(p)
      <4>1. state' = [state EXCEPT ![h] = "blocked"] /\ runq' = Tail(runq)
        BY <3>1, <3>4 DEF Block
      <4> QED
        BY <1>0, <3>2, <3>3, <4>1 DEF TypeR
    <3>5. CASE killSelf(p)
      <4>1. state' = [state EXCEPT ![h] = "exiting"] /\ runq' = runq
        BY <3>1, <3>5 DEF killSelf
      <4> QED
        BY <1>0, <3>2, <3>3, <4>1 DEF TypeR
    <3> QED
      BY <2>1, <3>4, <3>5
  <2>2. ASSUME NEW q \in Progs, addrun(p, q)
        PROVE  /\ \A x \in Progs : x # q => state'[x] = state[x] /\ (In(x, runq') <=> In(x, runq))
               /\ Distinct(runq') /\ ~Gone(q) /\ state'[q] = "ready" /\ In(q, runq')
               /\ \A i \in Interps : iprog[i] # q
    <3>1. /\ state[q] \in {"blocked", "dead"} /\ runq' = Append(runq, q)
          /\ state' = [state EXCEPT ![q] = "ready"]
      BY <2>2 DEF addrun
    <3>2. runq \in Seq(Progs \cup Clients) /\ Distinct(runq) /\ ~In(q, runq)
      BY <1>1, <3>1, AtHead DEF InPlace
    <3>3. Distinct(runq') /\ \A x \in Progs \cup Clients : In(x, runq') <=> In(x, runq) \/ x = q
      BY <3>1, <3>2, JoinQueue
    <3>4. \A i \in Interps : iprog[i] # q
      BY <1>0, <3>1 DEF InPlace
    <3> QED
      BY <1>0, <3>1, <3>3, <3>4 DEF TypeR, Gone
  <2>3. ASSUME NEW q \in Progs, killReleased(p, q)
        PROVE  /\ \A x \in Progs : x # q => state'[x] = state[x] /\ (In(x, runq') <=> In(x, runq))
               /\ Distinct(runq') /\ ~Gone(q) /\ state'[q] = "exiting" /\ ~In(q, runq')
               /\ \E i \in Interps : iprog[i] = q
    <3>1. /\ state[q] = "release" /\ runq' = runq /\ state' = [state EXCEPT ![q] = "exiting"]
      BY <2>3 DEF killReleased
    <3>2. ~In(q, runq) /\ Distinct(runq) /\ \E i \in Interps : iprog[i] = q
      BY <3>1 DEF InPlace
    <3> QED
      BY <1>0, <3>1, <3>2 DEF TypeR, Gone
  <2> QED
    BY <2>1, <2>2, <2>3
<1>4. PICK q \in Progs : Others(q) /\ Itself(q)
  BY <1>3
<1> HIDE DEF Others, Itself
<1>5. /\ \A x \in Progs : x # q => state'[x] = state[x]
      /\ \A x \in Progs : x # q => (In(x, runq') <=> In(x, runq))
      /\ Distinct(runq') /\ ~Gone(q) /\ iprog' = iprog
  BY <1>1, <1>4 DEF Others
<1>6. InPlace'
  <2>1. ASSUME NEW x \in Progs
        PROVE  /\ In(x, runq') => state'[x] \in {"ready", "exiting"} /\ \A i \in Interps : iprog'[i] # x
               /\ state'[x] = "ready" => In(x, runq')
               /\ state'[x] = "release" => \E i \in Interps : iprog'[i] = x
    <3>1. CASE x = q
      BY <1>1, <1>4, <3>1 DEF Itself
    <3>2. CASE x # q
      <4>1. state'[x] = state[x] /\ (In(x, runq') <=> In(x, runq)) /\ iprog' = iprog
        BY <1>5, <3>2
      <4>2. /\ In(x, runq) => state[x] \in {"ready", "exiting"} /\ \A i \in Interps : iprog[i] # x
            /\ state[x] = "ready" => In(x, runq)
            /\ state[x] = "release" => \E i \in Interps : iprog[i] = x
        BY DEF InPlace
      <4> QED
        BY <4>1, <4>2
    <3> QED
      BY <3>1, <3>2
  <2>2. ASSUME NEW i \in Interps, iprog'[i] # None
        PROVE  /\ state'[iprog'[i]] \in {"release", "exiting"}
               /\ pc'[i] \in Out \cup {"halt"}
               /\ \A j \in Interps : iprog'[j] = iprog'[i] => j = i
    <3>1. iprog[i] \in Progs /\ i # p /\ iprog'[i] = iprog[i]
      BY <1>0, <1>1, <1>2, <2>2 DEF TypeR
    <3>2. /\ state[iprog[i]] \in {"release", "exiting"} /\ pc[i] \in Out \cup {"halt"}
          /\ \A j \in Interps : iprog[j] = iprog[i] => j = i
      BY <3>1, <2>2 DEF InPlace
    <3>3. state'[iprog[i]] \in {"release", "exiting"}
      <4>1. CASE iprog[i] = q
        BY <1>4, <4>1 DEF Itself
      <4>2. CASE iprog[i] # q
        BY <1>5, <3>1, <3>2, <4>2
      <4> QED
        BY <4>1, <4>2
    <3> QED
      BY <1>0, <1>1, <1>2, <3>1, <3>2, <3>3
  <2> QED
    BY <1>5, <2>1, <2>2 DEF InPlace
<1>7. ASSUME NEW x \in Progs, Gone(x) PROVE Gone(x)'
  <2>1. x # q /\ state'[x] = state[x] /\ (In(x, runq') <=> In(x, runq)) /\ iprog' = iprog
    BY <1>7, <1>5
  <2> QED
    BY <1>7, <2>1 DEF Gone
<1>8. Deleting'
  BY <1>0, <1>1, <1>2, <1>7 DEF Deleting, TypeR
<1> QED
  BY <1>6, <1>8

LEMMA QuantumKept ==
    ASSUME Sched, InPlace, Deleting, NEW i \in Interps, Quantum(i) \/ handler(i)
    PROVE  InPlace' /\ Deleting'
<1>0. TypeS /\ TypeR /\ i \in Procs
  BY DEF Sched, RunInv, Procs
<1>1. /\ pc[i] \in InRun /\ doing[i] = None
      /\ pc' = [pc EXCEPT ![i] = "loop"] \/ pc' = [pc EXCEPT ![i] = "handled"]
      /\ r' = [r EXCEPT ![i] = None] /\ UNCHANGED <<state, iprog, doing>>
  BY DEF Quantum, handler, Goto, InRun
<1>2. PICK h : h = Head(runq)
  OBVIOUS
<1>3. /\ h = r[i] /\ h \in Progs /\ iprog[i] = None /\ In(h, runq)
      /\ Tail(runq) \in Seq(Progs) /\ Distinct(Tail(runq))
      /\ \A x \in Progs : In(x, Tail(runq)) <=> In(x, runq) /\ x # h
  BY <1>0, <1>1, <1>2, AtHead
<1>4. runq' = Append(Tail(runq), h) \/ runq' = runq
  BY <1>2, <1>3 DEF Quantum, handler
<1>5. ASSUME runq' = Append(Tail(runq), h)
      PROVE  Distinct(runq') /\ \A x \in Progs : In(x, runq') <=> In(x, runq)
  <2>1. Distinct(runq') /\ \A x \in Progs : In(x, runq') <=> In(x, Tail(runq)) \/ x = h
    BY <1>3, <1>5, JoinQueue
  <2> QED
    BY <1>3, <2>1
<1>6. Distinct(runq') /\ \A x \in Progs : In(x, runq') <=> In(x, runq)
  BY <1>4, <1>5 DEF InPlace
<1>7. \A j \in Interps : iprog[j] # None => pc'[j] \in Out \cup {"halt"}
  BY <1>0, <1>1, <1>3 DEF InPlace, TypeS, Procs
<1>8. \A p \in Procs : doing[p] # None => pc'[p] \in Out \cup {"run", "in", "halt"}
  BY <1>0, <1>1 DEF Deleting, TypeS
<1>9. \A j \in Interps : doing[j] # None => r'[j] = r[j]
  BY <1>0, <1>1 DEF TypeR
<1> QED
  BY <1>1, <1>6, <1>7, <1>8, <1>9, QuietKept

\* A kproc waits for the VM, or is in vmachine between two Progs.
LEMMA WaitKept ==
    ASSUME Sched, InPlace, Deleting, NEW p \in Procs,
           \/ acquireQueue(p) \/ acquireWakeup(p) \/ releaseHand(p)
           \/ p \in Interps /\ Advance(p)
    PROVE  InPlace' /\ Deleting'
<1>0. TypeS /\ TypeR /\ PlaceInv /\ Interps \subseteq Procs
  BY DEF Sched, RunInv, Procs
<1>1. UNCHANGED <<runq, state, iprog, doing>>
  BY DEF acquireQueue, acquireWakeup, releaseHand, Advance, startup, startupGranted,
         SleepPass, SleepBlock, SleepWoken, iyield, iyieldGranted, Dispatch, RunHead,
         restart, progs, locals
<1>2. /\ \A i \in Interps : iprog[i] # None => pc'[i] \in Out \cup {"halt"}
      /\ \A x \in Procs : doing[x] # None => pc'[x] \in Out \cup {"run", "in", "halt"}
      /\ \A i \in Interps : doing[i] # None => r'[i] = r[i]
  <2>0. /\ \A i \in Interps : iprog[i] # None => pc[i] \in Out \cup {"halt"}
        /\ \A x \in Procs : doing[x] # None => pc[x] \in Out \cup {"run", "in", "halt"}
    BY DEF InPlace, Deleting
  <2>1. CASE acquireQueue(p) \/ acquireWakeup(p)
    <3>1. UNCHANGED r /\ \E n \in Out : pc' = [pc EXCEPT ![p] = n]
      BY <2>1 DEF acquireQueue, acquireWakeup, Goto, locals, Out
    <3>2. PICK n \in Out : pc' = [pc EXCEPT ![p] = n]
      BY <3>1
    <3>3. \A x \in Procs : pc'[x] = pc[x] \/ pc'[x] \in Out
      BY <1>0, <3>2 DEF TypeS
    <3> QED
      BY <1>0, <2>0, <3>1, <3>3
  <2>2. CASE releaseHand(p)
    <3>1. UNCHANGED r
      BY <2>2 DEF releaseHand, locals
    <3>2. \A x \in Procs : pc'[x] = pc[x] \/ pc'[x] \in Out \/ pc[x] = "none"
      <4>1. CASE pc' = [pc EXCEPT ![p] = "out"]
        BY <1>0, <4>1 DEF TypeS, Out
      <4>2. ASSUME NEW i \in Interps, pc[i] = "none",
                   pc' = [pc EXCEPT ![p] = "out", ![i] = "startup"]
            PROVE  \A x \in Procs : pc'[x] = pc[x] \/ pc'[x] \in Out \/ pc[x] = "none"
        BY <1>0, <4>2 DEF TypeS, Out
      <4> QED
        BY <2>2, <4>1, <4>2 DEF releaseHand
    <3> QED
      BY <1>0, <2>0, <3>1, <3>2 DEF Out
  <2>3. CASE p \in Interps /\ Advance(p)
    <3>1. /\ pc[p] \in {"startup", "parked", "loop", "asleep", "dispatch", "yielded", "handled"}
          /\ r' = r \/ r' = [r EXCEPT ![p] = Head(runq)]
          /\ \E n \in Labels : pc' = [pc EXCEPT ![p] = n]
      <4>1. CASE startup(p) \/ startupGranted(p) \/ SleepPass(p) \/ restart(p)
        BY <4>1 DEF startup, startupGranted, SleepPass, restart, Goto, Labels, locals
      <4>2. CASE SleepBlock(p) \/ SleepWoken(p) \/ iyield(p)
        BY <4>2 DEF SleepBlock, SleepWoken, iyield, Goto, Labels, locals
      <4>3. CASE iyieldGranted(p) \/ Dispatch(p)
        BY <4>3 DEF iyieldGranted, Dispatch, RunHead, Goto, Labels
      <4> QED
        BY <2>3, <4>1, <4>2, <4>3 DEF Advance
    <3>2. PICK n \in Labels : pc' = [pc EXCEPT ![p] = n]
      BY <3>1
    <3>3. doing[p] = None /\ iprog[p] = None
      BY <2>0, <2>3, <3>1 DEF Out
    <3>4. \A x \in Procs : x # p => pc'[x] = pc[x]
      BY <1>0, <3>2 DEF TypeS
    <3>5. \A i \in Interps : i # p => r'[i] = r[i]
      BY <1>0, <3>1 DEF TypeR
    <3> QED
      BY <1>0, <2>0, <3>3, <3>4, <3>5
  <2> QED
    BY <2>1, <2>2, <2>3
<1>3. Distinct(runq') /\ \A q \in Progs : In(q, runq') <=> In(q, runq)
  BY <1>1 DEF InPlace
<1> QED
  BY <1>1, <1>2, <1>3, QuietKept

LEMMA HaltsKept == ASSUME TypeS, Halts, [Next]_vars PROVE Halts'
<1>0. Interps \subseteq Procs /\ Halt' = Halt
  BY DEF Procs, Halt
<1>1. CASE pc = Halt
  BY <1>0, <1>1, Halted DEF Halts
<1>2. CASE pc' = Halt
  BY <1>0, <1>2 DEF Halts
<1>3. CASE pc # Halt /\ pc' # Halt
  <2>1. ASSUME NEW p \in Procs, NEW n \in Labels \ {"halt"}, pc' = [pc EXCEPT ![p] = n]
        PROVE  Halts'
    BY <1>3, <2>1 DEF Halts, TypeS
  <2>2. CASE pc' = pc
    BY <1>3, <2>2 DEF Halts
  <2>3. ASSUME NEW p \in Procs, acquire(p) \/ acquireWakeup(p) \/ acquireGranted(p) \/ releaseSave(p)
        PROVE  Halts'
    BY <2>1, <2>3 DEF acquire, acquireIdle, acquireQueue, acquireWakeup, acquireGranted,
                      releaseSave, Save, Goto, Inside, Labels
  <2>4. ASSUME NEW p \in Procs, releaseHand(p) PROVE Halts'
    <3>1. ASSUME NEW i \in Interps, pc' = [pc EXCEPT ![p] = "out", ![i] = "startup"]
          PROVE  Halts'
      BY <1>0, <1>3, <3>1 DEF Halts, TypeS
    <3> QED
      BY <2>1, <2>4, <3>1 DEF releaseHand, Labels
  <2>5. ASSUME NEW p \in Procs, delprog(p) PROVE Halts'
    BY <1>3, <2>1, <2>2, <2>5 DEF delprog, Labels
  <2>6. ASSUME NEW p \in Procs, NEW q \in Progs,
               addrun(p, q) \/ killReleased(p, q) \/ killprog(p, q)
        PROVE  Halts'
    BY <2>1, <2>2, <2>6 DEF addrun, killReleased, killprog, Labels
  <2>7. ASSUME NEW i \in Interps, EndRun(i) \/ killSelf(i) PROVE Halts'
    BY <1>0, <2>1, <2>2, <2>7 DEF EndRun, Quantum, Block, handler, progexit, Save, killSelf, Goto, Labels
  <2>8. ASSUME NEW i \in Interps, Advance(i) PROVE Halts'
    BY <1>0, <2>1, <2>8 DEF Advance, startup, startupGranted, SleepPass, SleepBlock, SleepWoken,
                      iyield, iyieldGranted, Dispatch, RunHead, restart, Goto, Labels
  <2>9. CASE UNCHANGED vars
    BY <2>2, <2>9 DEF vars
  <2> QED
    BY <2>3, <2>4, <2>5, <2>6, <2>7, <2>8, <2>9 DEF Next, Progress
<1> QED
  BY <1>1, <1>2, <1>3

\* What ProgInOnePlace rests on: the queue, iprog and the Prog's state agree.
PlacesInv == Halts /\ InPlace /\ Deleting

LEMMA PlacesKept ==
    ASSUME TypeS, VMInv, RunInv, PlacesInv, [Next]_vars PROVE PlacesInv'
<1>1. Halts'
  BY HaltsKept DEF PlacesInv
<1>2. CASE pc = Halt
  BY <1>1, <1>2, HaltedAll DEF PlacesInv, InPlace, Deleting, Gone, vars, progs, locals
<1>3. CASE pc # Halt
  <2>0. Sched /\ InPlace /\ Deleting /\ Interps \subseteq Procs
    BY <1>3 DEF Sched, PlacesInv, Procs
  <2>1. ASSUME NEW p \in Procs, acquire(p) \/ Progress(p) \/ releaseSave(p)
        PROVE  InPlace' /\ Deleting'
    BY <2>0, <2>1, ResumeKept, WaitKept, SaveKept, DelprogKept DEF acquire, Progress
  <2>2. ASSUME NEW p \in Procs, NEW q \in Progs,
               addrun(p, q) \/ killReleased(p, q) \/ killprog(p, q)
        PROVE  InPlace' /\ Deleting'
    BY <2>0, <2>2, StateKept, KillprogKept
  <2>3. ASSUME NEW i \in Interps, Advance(i) \/ EndRun(i) \/ killSelf(i)
        PROVE  InPlace' /\ Deleting'
    BY <2>0, <2>3, WaitKept, QuantumKept, StateKept, SaveKept DEF EndRun
  <2>4. CASE UNCHANGED vars
    <3>1. UNCHANGED <<pc, runq, state, iprog, doing, r>>
      BY <2>4 DEF vars, progs, locals
    <3>2. /\ Distinct(runq') /\ \A q \in Progs : In(q, runq') <=> In(q, runq)
          /\ \A i \in Interps : iprog[i] # None => pc'[i] \in Out \cup {"halt"}
          /\ \A p \in Procs : doing[p] # None => pc'[p] \in Out \cup {"run", "in", "halt"}
          /\ \A i \in Interps : doing[i] # None => r'[i] = r[i]
      BY <2>0, <3>1 DEF InPlace, Deleting
    <3>3. InPlace' /\ Deleting'
      BY <2>0, <3>1, <3>2, QuietKept
    <3> QED
      BY <1>1, <3>3 DEF PlacesInv
  <2> QED
    BY <1>1, <1>3, <2>1, <2>2, <2>3, <2>4 DEF Next, PlacesInv
<1> QED
  BY <1>2, <1>3

THEOREM PlacesInvariant == Spec => []PlacesInv
<1>1. ASSUME Init PROVE PlacesInv
  <2>1. PICK i \in Interps, q \in Progs :
          /\ pc = [p \in Procs |-> IF p = i THEN "loop" ELSE IF p \in Clients THEN "out" ELSE "none"]
          /\ runq = <<q>>
          /\ state = [x \in Progs |-> IF x = q THEN "ready" ELSE "dead"]
    BY <1>1 DEF Init
  <2>2. iprog = [j \in Interps |-> None] /\ doing = [p \in Procs |-> None]
    BY <1>1 DEF Init
  <2>3. Distinct(runq) /\ \A x \in Progs : In(x, runq) <=> x = q
    BY <2>1 DEF Distinct, In
  <2>4. Halts
    BY <2>1 DEF Halts
  <2>5. InPlace
    BY <2>1, <2>2, <2>3, DisSchedAssumption DEF InPlace
  <2>6. Deleting
    BY <2>2 DEF Deleting
  <2> QED
    BY <2>4, <2>5, <2>6 DEF PlacesInv
<1> QED
  BY <1>1, PlacesKept, TypeSched, VMInvariant, RunInvariant, PTL DEF Spec

\* ProgInOnePlace: a Prog is on the run queue, with the Interp that is out in its
\* system call, or nowhere, whatever is killed or deleted while delprog has let
\* the VM go half way; its state says which, and one kproc at most deletes it.
THEOREM OnePlace == Spec => []ProgInOnePlace
<1>1. ASSUME RunInv, PlacesInv PROVE ProgInOnePlace
  <2>0. InPlace /\ Deleting /\ TypeR /\ None \notin Progs
    BY <1>1, DisSchedAssumption DEF PlacesInv, RunInv
  <2> SUFFICES ASSUME NEW q \in Progs
               PROVE  /\ Cardinality(Places(q)) <= 1
                      /\ state[q] = "ready" => \E n \in 1 .. Len(runq) : runq[n] = q
                      /\ state[q] \in {"blocked", "dead"} => Places(q) = {}
                      /\ state[q] = "release" => \E i \in Interps : iprog[i] = q
                      /\ \A p1, p2 \in Procs : doing[p1] = q /\ doing[p2] = q => p1 = p2
    BY DEF ProgInOnePlace
  <2>1. ASSUME NEW x \in Places(q)
        PROVE  \/ In(q, runq) /\ \E n \in 1 .. Len(runq) : runq[n] = q /\ x = <<"runq", n>>
               \/ \E i \in Interps : iprog[i] = q /\ x = <<"iprog", i>>
    BY <2>1 DEF Places, In
  <2>2. ASSUME NEW x \in Places(q), NEW y \in Places(q) PROVE x = y
    <3>1. CASE In(q, runq)
      <4>1. \A i \in Interps : iprog[i] # q
        BY <2>0, <3>1 DEF InPlace
      <4> QED
        BY <2>0, <2>1, <4>1 DEF InPlace, Distinct
    <3>2. CASE ~In(q, runq)
      BY <2>0, <2>1, <3>2 DEF InPlace
    <3> QED
      BY <3>1, <3>2
  <2>3. Cardinality(Places(q)) <= 1
    <3>1. CASE Places(q) = {}
      BY <3>1, FS_EmptySet
    <3>2. CASE Places(q) # {}
      <4>1. PICK x \in Places(q) : TRUE
        BY <3>2
      <4>2. Places(q) = {x}
        BY <2>2, <4>1
      <4> QED
        BY <4>2, FS_Singleton
    <3> QED
      BY <3>1, <3>2
  <2>4. state[q] \in {"blocked", "dead"} => Places(q) = {}
    <3> SUFFICES ASSUME state[q] \in {"blocked", "dead"}, NEW x \in Places(q) PROVE FALSE
      OBVIOUS
    <3>1. ~In(q, runq) /\ \A i \in Interps : iprog[i] # q
      BY <2>0 DEF InPlace
    <3> QED
      BY <2>1, <3>1
  <2>5. /\ state[q] = "ready" => \E n \in 1 .. Len(runq) : runq[n] = q
        /\ state[q] = "release" => \E i \in Interps : iprog[i] = q
    BY <2>0 DEF InPlace, In
  <2>6. \A p1, p2 \in Procs : doing[p1] = q /\ doing[p2] = q => p1 = p2
    BY <2>0 DEF Deleting
  <2> QED
    BY <2>3, <2>4, <2>5, <2>6
<1> QED
  BY <1>1, RunInvariant, PlacesInvariant, PTL

-----------------------------------------------------------------------------
(* How many Interps there are.                                              *)

\* The Interps that have been made.
Made == {i \in Interps : pc[i] # "none"}

\* One Interp at a time is being made, and the bound holds.
MadeInv == /\ \A i \in Interps : pc[i] = "startup" => creating
           /\ \A i, j \in Interps : pc[i] = "startup" /\ pc[j] = "startup" => i = j
           /\ IsFiniteSet(Made) /\ Cardinality(Made) <= Cardinality(Progs) + 1

\* When release makes an Interp nobody rests or waits for the VM, and so every
\* Interp there is has gone out with a Prog of its own.
LEMMA AllOut ==
    ASSUME Sched, InPlace, MadeInv, NEW p \in Procs, pc[p] = "rel",
           vmq = << >>, idlevmq = << >>, ~creating
    PROVE  IsFiniteSet(Made) /\ Cardinality(Made) <= Cardinality(Progs)
<1>0. /\ TypeS /\ TypeR /\ MineInv /\ PlaceInv /\ SemInv /\ QueueInv /\ OneInv /\ Halts
      /\ pc # Halt /\ Interps \subseteq Procs /\ None \notin Progs
  BY DisSchedAssumption DEF Sched, RunInv, VMInv, Procs
<1>1. ASSUME NEW i \in Interps, pc[i] # "none" PROVE pc[i] \in Out
  <2>1. Has(p)
    BY DEF Has, Holder
  <2>2. i = p \/ ~Has(i)
    BY <1>0, <2>1 DEF OneInv
  <2>3. CASE pc[i] \in Resting \cup Waiting
    <3>1. ~In(i, vmq) /\ ~In(i, idlevmq)
      BY DEF In
    <3>2. sem[i] = 1
      BY <1>0, <2>3, <3>1 DEF QueueInv, SemInv
    <3>3. Has(i)
      BY <2>3, <3>2 DEF Has, Granted, Resting, Waiting
    <3> QED
      BY <2>2, <2>3, <3>3 DEF Resting, Waiting
  <2>4. pc[i] # "startup" /\ pc[i] # "halt" /\ pc[i] \in Labels
    BY <1>0 DEF MadeInv, Halts, TypeS
  <2> QED
    BY <1>1, <2>2, <2>3, <2>4 DEF Labels, Has, Holder, Resting, Waiting, Out
<1> DEFINE f == [i \in Made |-> iprog[i]]
<1>2. f \in Injection(Made, Progs)
  <2>1. \A i \in Made : i \in Interps /\ iprog[i] \in Progs /\ iprog[i] # None
    BY <1>0, <1>1 DEF Made, MineInv
  <2>2. \A i, j \in Made : iprog[i] = iprog[j] => i = j
    BY <2>1 DEF InPlace
  <2>3. f \in [Made -> Progs]
    BY <2>1
  <2>4. IsInjective(f)
    BY <2>2 DEF IsInjective
  <2> QED
    BY <2>3, <2>4 DEF Injection
<1> HIDE DEF f
<1> QED
  BY <1>2, DisSchedFinite, FS_Injection

LEMMA MadeKept ==
    ASSUME TypeS, VMInv, RunInv, PlacesInv, pc # Halt, MadeInv, pc' # Halt, [Next]_vars
    PROVE  MadeInv'
<1>0. /\ Sched /\ InPlace /\ Interps \subseteq Procs /\ TypeS
      /\ Cardinality(Progs) \in Nat
  BY DisSchedFinite, FS_CardinalityType DEF Sched, PlacesInv, Procs
\* The kprocs of old go on.
<1>1. ASSUME NEW p \in Procs, NEW n \in Labels \ {"none", "startup"},
             pc[p] \notin {"none", "startup"}, pc' = [pc EXCEPT ![p] = n], UNCHANGED creating
      PROVE  MadeInv'
  <2>1. \A i \in Procs : /\ pc'[i] = "startup" <=> pc[i] = "startup"
                         /\ pc'[i] = "none" <=> pc[i] = "none"
    BY <1>0, <1>1 DEF TypeS
  <2>2. Made' = Made
    BY <1>0, <2>1 DEF Made
  <2> QED
    BY <1>0, <1>1, <2>1, <2>2 DEF MadeInv
<1>2. ASSUME UNCHANGED <<pc, creating>> PROVE MadeInv'
  BY <1>2 DEF MadeInv, Made
<1> USE DEF Goto, Labels
<1>3. ASSUME NEW p \in Procs, acquire(p) PROVE MadeInv'
  BY <1>1, <1>3 DEF acquire, acquireIdle, acquireQueue, Inside
<1>4. ASSUME NEW p \in Procs, acquireWakeup(p) \/ acquireGranted(p) PROVE MadeInv'
  BY <1>1, <1>4 DEF acquireWakeup, acquireGranted, Inside, sched
<1>5. ASSUME NEW p \in Procs, releaseSave(p) PROVE MadeInv'
  BY <1>1, <1>5 DEF releaseSave, Save, Inside, sched
<1>6. ASSUME NEW p \in Procs, delprog(p) PROVE MadeInv'
  <2>1. UNCHANGED creating /\ pc[p] \notin {"none", "startup"}
    BY <1>6 DEF delprog, Inside, sched
  <2>2. pc' = pc \/ pc' = [pc EXCEPT ![p] = "loop"]
    BY <1>6 DEF delprog
  <2> QED
    BY <1>1, <1>2, <2>1, <2>2
<1>7. ASSUME NEW p \in Procs, NEW q \in Progs,
             addrun(p, q) \/ killReleased(p, q) \/ killprog(p, q)
      PROVE  MadeInv'
  <2>1. UNCHANGED creating /\ pc[p] \notin {"none", "startup"}
    BY <1>7 DEF addrun, killReleased, killprog, InVM, Inside, sched
  <2>2. pc' = pc \/ pc' = [pc EXCEPT ![p] = "rel"]
    BY <1>7 DEF addrun, killReleased, killprog
  <2> QED
    BY <1>1, <1>2, <2>1, <2>2
<1>8. ASSUME NEW i \in Interps, EndRun(i) \/ killSelf(i) PROVE MadeInv'
  <2>1. UNCHANGED creating /\ pc[i] \notin {"none", "startup"}
    BY <1>8 DEF EndRun, Quantum, Block, handler, progexit, killSelf, sched
  <2>2. pc' = pc \/ \E n \in {"loop", "handled", "rel"} : pc' = [pc EXCEPT ![i] = n]
    BY <1>8 DEF EndRun, Quantum, Block, handler, progexit, Save, killSelf
  <2> QED
    BY <1>0, <1>1, <1>2, <2>1, <2>2
<1>9. ASSUME NEW i \in Interps,
             \/ startupGranted(i) \/ SleepPass(i) \/ SleepBlock(i) \/ SleepWoken(i)
             \/ iyield(i) \/ iyieldGranted(i) \/ Dispatch(i) \/ restart(i)
      PROVE  MadeInv'
  <2>1. UNCHANGED creating /\ pc[i] \notin {"none", "startup"}
    BY <1>9 DEF startupGranted, SleepPass, SleepBlock, SleepWoken, iyield, iyieldGranted,
                Dispatch, RunHead, restart, sched
  <2>2. \E n \in Labels \ {"none", "startup"} : pc' = [pc EXCEPT ![i] = n]
    BY <1>9 DEF startupGranted, SleepPass, SleepBlock, SleepWoken, iyield, iyieldGranted,
                Dispatch, RunHead, restart
  <2> QED
    BY <1>0, <1>1, <2>1, <2>2
\* The one that was being made is there.
<1>10. ASSUME NEW i \in Interps, startup(i) PROVE MadeInv'
  <2>1. /\ pc[i] = "startup" /\ pc'[i] \in {"loop", "parked"}
        /\ \A j \in Interps : j # i => pc'[j] = pc[j]
    BY <1>0, <1>10 DEF startup, TypeS
  <2>2. \A j \in Interps : pc'[j] # "startup"
    BY <2>1 DEF MadeInv
  <2>3. Made' = Made
    BY <2>1 DEF Made
  <2> QED
    BY <2>2, <2>3 DEF MadeInv
<1>11. ASSUME NEW p \in Procs, releaseHand(p) PROVE MadeInv'
  <2>1. CASE UNCHANGED creating /\ pc' = [pc EXCEPT ![p] = "out"]
    BY <1>1, <1>11, <2>1 DEF releaseHand
  <2>2. ASSUME NEW i \in Interps, pc[i] = "none", pc' = [pc EXCEPT ![p] = "out", ![i] = "startup"],
               vmq = << >>, idlevmq = << >>, ~creating, creating'
        PROVE  MadeInv'
    <3>1. pc[p] = "rel"
      BY <1>11 DEF releaseHand
    <3>2. IsFiniteSet(Made) /\ Cardinality(Made) <= Cardinality(Progs)
      BY <1>0, <2>2, <3>1, AllOut
    <3>3. /\ pc'[i] = "startup" /\ p # i /\ pc'[p] = "out"
          /\ \A j \in Interps : j # i /\ j # p => pc'[j] = pc[j]
      BY <1>0, <2>2, <3>1 DEF TypeS
    <3>4. Made' = Made \cup {i} /\ i \notin Made
      BY <2>2, <3>1, <3>3 DEF Made
    <3>5. IsFiniteSet(Made') /\ Cardinality(Made') = Cardinality(Made) + 1
      BY <3>2, <3>4, FS_AddElement
    <3>6. Cardinality(Made) \in Nat
      BY <3>2, FS_CardinalityType
    <3>7. \A j \in Interps : pc'[j] = "startup" => j = i
      BY <2>2, <3>3 DEF MadeInv
    <3>8. Cardinality(Made') <= Cardinality(Progs) + 1
      BY <1>0, <3>2, <3>5, <3>6
    <3>9. IsFiniteSet(Made)' /\ (Cardinality(Made) <= Cardinality(Progs) + 1)'
      BY <3>5, <3>8
    <3> QED
      BY <2>2, <3>7, <3>9 DEF MadeInv
  <2>3. CASE creating /\ creating' /\ pc' = [pc EXCEPT ![p] = "out"]
    BY <2>1, <2>3
  <2> QED
    BY <1>11, <2>1, <2>2, <2>3 DEF releaseHand
<1>12. CASE UNCHANGED vars
  BY <1>2, <1>12 DEF vars, sched
<1> QED
  BY <1>3, <1>4, <1>5, <1>6, <1>7, <1>8, <1>9, <1>10, <1>11, <1>12 DEF Next, Progress, Advance

\* InterpBound: Interps are made on demand and never go away, and yet release
\* makes one only when each there is is out with a Prog of its own.
THEOREM BoundKept == Spec => []InterpBound
<1> DEFINE I == pc # Halt => MadeInv
<1>1. ASSUME Init PROVE I
  <2>1. PICK i \in Interps :
          pc = [p \in Procs |-> IF p = i THEN "loop" ELSE IF p \in Clients THEN "out" ELSE "none"]
    BY <1>1 DEF Init
  <2>2. Made = {i} /\ \A j \in Interps : pc[j] # "startup"
    BY <2>1, DisSchedAssumption DEF Made, Procs
  <2>3. IsFiniteSet(Made) /\ Cardinality(Made) = 1
    BY <2>2, FS_Singleton
  <2> QED
    BY <2>2, <2>3, DisSchedFinite, FS_CardinalityType DEF MadeInv
<1>2. TypeS /\ VMInv /\ RunInv /\ PlacesInv /\ I /\ [Next]_vars => I'
  <2>1. Halt' = Halt
    BY DEF Halt
  <2> QED
    BY <2>1, Halted, MadeKept
<1>3. I => InterpBound
  BY DEF MadeInv, Made, InterpBound
<1> QED
  BY <1>1, <1>2, <1>3, TypeSched, VMInvariant, RunInvariant, PlacesInvariant, PTL DEF Spec
=============================================================================
