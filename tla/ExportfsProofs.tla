---------------------------- MODULE ExportfsProofs ----------------------------
(* Proofs, for any number of connections, slaves and messages, about the 9P *)
(* server: where an Exq can be, and what follows for its memory, for the    *)
(* kills and for the answers.                                               *)
EXTENDS Exportfs, QueueLemmas, FiniteSetTheorems

-----------------------------------------------------------------------------
(* Types.  That references are naturals takes more, and comes last.         *)

Typed == /\ spc \in [Slaves -> SlaveLabels] /\ epc \in [Exports -> ExportLabels]
         /\ cur \in [Exports -> Msgs \cup {None}]
         /\ job \in [Slaves -> Msgs \cup {None}] /\ fq \in [Slaves -> Msgs \cup {None}]
         /\ killed \subseteq Slaves \cup {None}
         /\ q \in [Msgs -> Exq]
         /\ head \in Seq(Msgs) /\ tail \in Msgs \cup {None} /\ exql \in Slaves \cup {None}
         /\ qwait \in Slaves \cup {None} /\ qwaitq \in Seq(Slaves)
         /\ rwait \in Slaves \cup {None}
         /\ work \in [Exports -> Seq(Msgs)] /\ fsl \in [Exports -> BOOLEAN]
         /\ got \in Seq(Msgs) /\ answered \in [Msgs -> Nat] /\ cancelled \subseteq Msgs

\* An Exq keeps its type whichever of its members are assigned.
LEMMA ExqFields ==
    ASSUME NEW x \in Exq
    PROVE  /\ x.st \in {"unread", "live", "freed"} /\ x.export \in Exports \cup {None}
           /\ x.type \in {"T", "Tflush"}
           /\ x.tag \in Tags \cup {None} /\ x.oldtag \in Tags \cup {None}
           /\ x.busy \in BOOLEAN /\ x.finished \in BOOLEAN /\ x.shut \in BOOLEAN
           /\ x.err \in BOOLEAN /\ x.flush \in Seq(Msgs) /\ x.slave \in Slaves \cup {None}
BY DEF Exq

LEMMA FreeTyped ==
    ASSUME NEW x \in [Msgs -> Exq], NEW F PROVE FreeAll(F, x) \in [Msgs -> Exq]
<1>1. ASSUME NEW y \in Exq, NEW f \in Seq(Msgs)
      PROVE  [y EXCEPT !.st = "freed", !.flush = f] \in Exq
  BY DEF Exq
<1>2. \A m \in Msgs : x[m] \in Exq
  OBVIOUS
<1>3. << >> \in Seq(Msgs)
  OBVIOUS
<1> QED
  BY <1>1, <1>2, <1>3 DEF FreeAll

LEMMA FreeFields ==
    ASSUME NEW x \in [Msgs -> Exq], NEW F, NEW m \in Msgs
    PROVE  /\ m \notin F => FreeAll(F, x)[m] = x[m]
           /\ m \in F => /\ FreeAll(F, x)[m].st = "freed" /\ FreeAll(F, x)[m].flush = << >>
                         /\ FreeAll(F, x)[m].export = x[m].export
                         /\ FreeAll(F, x)[m].type = x[m].type
                         /\ FreeAll(F, x)[m].tag = x[m].tag
                         /\ FreeAll(F, x)[m].oldtag = x[m].oldtag
                         /\ FreeAll(F, x)[m].busy = x[m].busy
                         /\ FreeAll(F, x)[m].finished = x[m].finished
                         /\ FreeAll(F, x)[m].shut = x[m].shut
                         /\ FreeAll(F, x)[m].err = x[m].err
                         /\ FreeAll(F, x)[m].slave = x[m].slave
BY DEF FreeAll, Exq

\* qunlock, by one that has the lock.
LEMMA QunlockTyped ==
    ASSUME Typed, NEW s \in Slaves, NEW next \in SlaveLabels, qunlockQwait(s, next)
    PROVE  /\ spc' \in [Slaves -> SlaveLabels] /\ qwait' \in Slaves \cup {None}
           /\ qwaitq' \in Seq(Slaves)
<1>1. /\ spc \in [Slaves -> SlaveLabels] /\ qwaitq \in Seq(Slaves)
      /\ "sleep" \in SlaveLabels
  BY DEF Typed, SlaveLabels
<1>2. CASE qwaitq # << >>
  <2>1. Head(qwaitq) \in Slaves /\ Tail(qwaitq) \in Seq(Slaves)
    BY <1>1, <1>2, TailFacts
  <2>2. /\ qwait' = Head(qwaitq) /\ qwaitq' = Tail(qwaitq)
        /\ spc' = [spc EXCEPT ![s] = next, ![Head(qwaitq)] = "sleep"]
    BY <1>2 DEF qunlockQwait
  <2> QED
    BY <1>1, <2>1, <2>2
<1>3. CASE qwaitq = << >>
  BY <1>1, <1>3 DEF qunlockQwait
<1> QED
  BY <1>2, <1>3

LEMMA ReplyTyped ==
    ASSUME Typed, NEW m \in Msgs, exreply(m)
    PROVE  got' \in Seq(Msgs) /\ answered' \in [Msgs -> Nat] /\ cancelled' \subseteq Msgs
BY DEF Typed, exreply, Pending

\* The members of an Exq that a step of a slave's own assigns.
LEMMA NextFlushTyped ==
    ASSUME Typed, NEW s \in Slaves, job[s] \in Msgs, NEW x \in [Msgs -> Exq], NextFlush(s, x)
    PROVE  /\ fq' \in [Slaves -> Msgs \cup {None}] /\ q' \in [Msgs -> Exq]
           /\ spc' \in [Slaves -> SlaveLabels]
<1> DEFINE m == job[s]
<1>0. x[m] \in Exq /\ x[m].flush \in Seq(Msgs)
  BY DEF Exq
<1>1. CASE x[m].flush # << >> /\ ~x[m].shut
  <2>1. Head(x[m].flush) \in Msgs /\ Tail(x[m].flush) \in Seq(Msgs)
    BY <1>0, <1>1, TailFacts
  <2>2. /\ fq' = [fq EXCEPT ![s] = Head(x[m].flush)]
        /\ q' = [x EXCEPT ![m].flush = Tail(x[m].flush)]
        /\ spc' = [spc EXCEPT ![s] = "freply"]
    BY <1>1 DEF NextFlush
  <2>3. [x[m] EXCEPT !.flush = Tail(x[m].flush)] \in Exq
    BY <1>0, <2>1 DEF Exq
  <2>4. q' \in [Msgs -> Exq]
    BY <2>2, <2>3
  <2> QED
    BY <2>1, <2>2, <2>4 DEF Typed, SlaveLabels
<1>2. CASE ~(x[m].flush # << >> /\ ~x[m].shut)
  <2>1. /\ q' = [x EXCEPT ![m].finished = TRUE]
        /\ spc' = [spc EXCEPT ![s] = "unlink"] /\ fq' = fq
    BY <1>2, Zenon DEF NextFlush
  <2>2. q' \in [Msgs -> Exq]
    BY <1>0, <2>1 DEF Exq
  <2> QED
    BY <2>1, <2>2 DEF Typed, SlaveLabels
<1> QED
  BY <1>1, <1>2

-----------------------------------------------------------------------------
(* What a kproc is doing and what it has in hand.                           *)

AtMsg == {"queue", "flushq", "flushw", "reply"}
AfterLink == {"call", "called", "reply", "replied", "freply", "unlink"}
AtJob == AfterLink \cup {"link"}

InHand == /\ \A e \in Exports : cur[e] # None <=> epc[e] \in AtMsg
          /\ \A s \in Slaves : job[s] # None <=> spc[s] \in AtJob
          /\ \A s \in Slaves : fq[s] # None <=> spc[s] = "freply"
          /\ \A s \in Slaves : exql = s <=> spc[s] = "link"

Idlers == /\ \A s \in Slaves : rwait = s => spc[s] = "asleep"
          /\ \A s \in Slaves : In(s, qwaitq) => spc[s] = "queued"
          /\ Distinct(qwaitq)

Base == Typed /\ InHand /\ Idlers

\* The slave s goes from one label to another; one that has no request may go
\* to where it has none either.
Idle(x) == spc'[x] = spc[x] \/ (spc[x] \notin AtJob /\ spc'[x] \notin AtJob)

LEMMA QunlockEffect ==
    ASSUME Base, NEW s \in Slaves, NEW next \in SlaveLabels, next # "queued",
           qunlockQwait(s, next), spc[s] # "queued", spc[s] # "asleep"
    PROVE  /\ spc'[s] = next
           /\ \A x \in Slaves : x # s => spc'[x] = spc[x] \/ (spc[x] = "queued" /\ spc'[x] = "sleep")
           /\ \A x \in Slaves : In(x, qwaitq') => spc'[x] = "queued"
           /\ Distinct(qwaitq')
<1>1. /\ spc \in [Slaves -> SlaveLabels] /\ qwaitq \in Seq(Slaves)
      /\ \A x \in Slaves : In(x, qwaitq) => spc[x] = "queued"
      /\ Distinct(qwaitq)
  BY DEF Base, Typed, Idlers
<1>2. CASE qwaitq # << >>
  <2> DEFINE h == Head(qwaitq)
  <2>1. /\ h \in Slaves /\ In(h, qwaitq) /\ Distinct(Tail(qwaitq))
        /\ \A x \in Slaves : In(x, Tail(qwaitq)) <=> In(x, qwaitq) /\ x # h
    BY <1>1, <1>2, TailFacts, LeaveQueue
  <2>2. qwaitq' = Tail(qwaitq) /\ spc' = [spc EXCEPT ![s] = next, ![h] = "sleep"]
    BY <1>2 DEF qunlockQwait
  <2> HIDE DEF h
  <2>3. h # s /\ spc[h] = "queued"
    BY <1>1, <2>1
  <2>4. spc'[s] = next /\ spc'[h] = "sleep" /\ \A x \in Slaves : x # s /\ x # h => spc'[x] = spc[x]
    BY <1>1, <2>1, <2>2, <2>3
  <2>5. \A x \in Slaves : In(x, qwaitq') => spc'[x] = "queued"
    <3> SUFFICES ASSUME NEW x \in Slaves, In(x, qwaitq') PROVE spc'[x] = "queued"
      OBVIOUS
    <3>1. In(x, qwaitq) /\ x # h
      BY <2>1, <2>2
    <3>2. spc[x] = "queued" /\ x # s
      BY <1>1, <3>1
    <3> QED
      BY <2>4, <3>1, <3>2
  <2> QED
    BY <2>1, <2>2, <2>3, <2>4, <2>5
<1>3. CASE qwaitq = << >>
  BY <1>1, <1>3 DEF qunlockQwait, In, Distinct
<1> QED
  BY <1>2, <1>3

\* The slaves that wait for the lock or for work are those that did, when no
\* other comes.
LEMMA IdlersKept ==
    ASSUME Base, NEW s, UNCHANGED <<qwaitq, rwait>>, spc[s] \notin {"queued", "asleep"},
           \A x \in Slaves : x # s => spc'[x] = spc[x]
    PROVE  Idlers'
BY DEF Base, Idlers

LEMMA InHandKept ==
    ASSUME Base, UNCHANGED <<cur, epc, job, fq, exql>>, \A x \in Slaves : Idle(x)
    PROVE  InHand'
BY DEF Base, InHand, Idle, AtJob, AfterLink

LEMMA LastTyped == \A s \in Seq(Msgs), m \in Msgs : <<m>> \o s \in Seq(Msgs)
BY PushQueue

\* exportproc and its connection.
LEMMA ReadBase ==
    ASSUME Base, NEW e \in Exports, NEW m \in Msgs, NEW next \in {"queue", "reply", "flushq"},
           NEW type \in {"T", "Tflush"}, NEW tag \in Tags, NEW oldtag \in Tags \cup {None},
           read(e, m, next, type, tag, oldtag)
    PROVE  Base'
<1>0. Typed /\ InHand /\ Idlers
  BY DEF Base
<1>1. /\ epc[e] = "read" /\ epc' = [epc EXCEPT ![e] = next]
      /\ cur' = [cur EXCEPT ![e] = m]
      /\ q' = [q EXCEPT ![m].st = "live", ![m].export = e, ![m].type = type,
                        ![m].tag = tag, ![m].oldtag = oldtag]
      /\ got' = Append(got, m)
      /\ UNCHANGED <<spc, job, fq, killed, head, tail, exql, qwait, qwaitq, rwait,
                     work, fsl, answered, cancelled>>
  BY DEF read, egoto, queue, idlers
<1>2. got' \in Seq(Msgs)
  BY <1>0, <1>1, AppendInSeq DEF Typed
<1>3. q' \in [Msgs -> Exq]
  <2> DEFINE z == [q[m] EXCEPT !.st = "live", !.export = e, !.type = type,
                               !.tag = tag, !.oldtag = oldtag]
  <2>1. q[m] \in Exq /\ q \in [Msgs -> Exq]
    BY <1>0 DEF Typed
  <2>2. z \in Exq
    BY <2>1 DEF Exq
  <2>3. q' = [q EXCEPT ![m] = z]
    BY <1>1, <2>1
  <2> HIDE DEF z
  <2> QED
    BY <2>1, <2>2, <2>3
<1>4. Typed'
  BY <1>0, <1>1, <1>2, <1>3 DEF Typed, ExportLabels
<1>5. InHand'
  BY <1>0, <1>1, ExportfsAssumption DEF InHand, AtMsg, Typed
<1>6. Idlers'
  BY <1>0, <1>1 DEF Idlers
<1> QED
  BY <1>4, <1>5, <1>6 DEF Base

LEMMA EnqueueBase == ASSUME Base, NEW e \in Exports, enqueue(e) PROVE Base'
<1>0. Typed /\ InHand /\ Idlers
  BY DEF Base
<1>1. /\ epc[e] = "queue" /\ epc' = [epc EXCEPT ![e] = "spawn"]
      /\ head' = IF head = << >> THEN <<cur[e]>>
                 ELSE IF tail = Last(head) THEN Append(head, cur[e]) ELSE head
      /\ tail' = cur[e] /\ cur' = [cur EXCEPT ![e] = None]
      /\ UNCHANGED <<spc, job, fq, killed, q, exql, qwait, qwaitq, rwait, work, fsl,
                     got, answered, cancelled>>
  BY DEF enqueue, egoto, idlers, exports, history
<1>2. cur[e] \in Msgs
  BY <1>0, <1>1 DEF InHand, AtMsg, Typed
<1>3. head' \in Seq(Msgs)
  <2>1. <<cur[e]>> \in Seq(Msgs) /\ Append(head, cur[e]) \in Seq(Msgs)
    BY <1>0, <1>2, AppendInSeq DEF Typed
  <2> QED
    BY <1>0, <1>1, <2>1 DEF Typed
<1>4. Typed'
  BY <1>0, <1>1, <1>2, <1>3 DEF Typed, ExportLabels
<1>5. InHand'
  BY <1>0, <1>1 DEF InHand, AtMsg, Typed
<1>6. Idlers'
  BY <1>0, <1>1 DEF Idlers
<1> QED
  BY <1>4, <1>5, <1>6 DEF Base

LEMMA WakeBase ==
    ASSUME Base, NEW e \in Exports, spawn(e) \/ wakeup(e) \/ hangup(e) \/ exportExfree(e)
    PROVE  Base' /\ \A x \in Slaves : Idle(x)
<1>0. Typed /\ InHand /\ Idlers
  BY DEF Base
<1>1. UNCHANGED <<cur, job, fq, killed, q, head, tail, exql, qwait, qwaitq, work, fsl,
                  got, answered, cancelled>>
  BY DEF spawn, wakeup, hangup, exportExfree, queue, idlers, exports, history
<1>2. PICK to \in ExportLabels : epc' = [epc EXCEPT ![e] = to] /\ to \notin AtMsg /\ epc[e] \notin AtMsg
  BY DEF spawn, wakeup, hangup, exportExfree, egoto, AtMsg, ExportLabels
<1>3. /\ spc' \in [Slaves -> SlaveLabels]
      /\ \A x \in Slaves : \/ spc'[x] = spc[x]
                           \/ spc[x] = "none" /\ spc'[x] = "idle"
                           \/ spc[x] = "asleep" /\ spc'[x] = "take" /\ rwait = x /\ rwait' = None
  <2>1. CASE spawn(e)
    BY <1>0, <2>1 DEF spawn, sgoto, Typed, SlaveLabels
  <2>2. CASE wakeup(e)
    <3>1. /\ spc' = [s \in Slaves |-> IF s = rwait THEN "take" ELSE spc[s]] /\ rwait' = None
      BY <2>2 DEF wakeup
    <3> QED
      BY <1>0, <3>1 DEF Typed, SlaveLabels, Idlers
  <2>3. CASE hangup(e) \/ exportExfree(e)
    BY <1>0, <2>3 DEF hangup, exportExfree, Typed
  <2> QED
    BY <2>1, <2>2, <2>3
<1>4. rwait' = rwait \/ rwait' = None
  BY DEF spawn, wakeup, hangup, exportExfree, idlers
<1>5. Typed'
  BY <1>0, <1>1, <1>2, <1>3, <1>4 DEF Typed
<1>6. \A x \in Slaves : Idle(x)
  BY <1>3 DEF Idle, AtJob, AfterLink
<1>7. InHand'
  BY <1>0, <1>1, <1>2, <1>6 DEF InHand, Idle, AtJob, AfterLink, Typed
<1>8. Idlers'
  <2>1. \A s \in Slaves : rwait' = s => spc'[s] = "asleep"
    BY <1>0, <1>3, <1>4, ExportfsAssumption DEF Idlers
  <2> QED
    BY <1>0, <1>1, <1>3, <2>1 DEF Idlers
<1> QED
  BY <1>5, <1>6, <1>7, <1>8 DEF Base

\* The first of those that exflushed finds.
LEMMA First ==
    ASSUME NEW F \in SUBSET Nat, F # {}, NEW n, n = CHOOSE i \in F : \A k \in F : i <= k
    PROVE  n \in F /\ \A k \in F : n <= k
BY Least

\* The request of e with the tag t, in a list of Exqs.
Wanted(e, t, m) == q[m].export = e /\ q[m].tag = t

LEMMA QueueFound ==
    ASSUME Base, NEW e \in Exports, exflushedQueue(e)
    PROVE  \/ /\ \A i \in 1 .. Len(head) : ~Wanted(e, q[cur[e]].oldtag, head[i])
              /\ epc' = [epc EXCEPT ![e] = "flushw"]
              /\ UNCHANGED <<head, q, ref>>
           \/ \E n \in 1 .. Len(head) :
                 /\ Wanted(e, q[cur[e]].oldtag, head[n])
                 /\ head' = RemoveAt(head, n)
                 /\ q' = FreeAll(Freed(head[n]), q)
                 /\ exfree(e, Cardinality(Freed(head[n])))
                 /\ epc' = [epc EXCEPT ![e] = "reply"]
<1> DEFINE found == {n \in 1 .. Len(head) : q[head[n]].export = e /\ q[head[n]].tag = q[cur[e]].oldtag}
           n == CHOOSE n \in found : \A k \in found : n <= k
<1>1. IF found # {}
      THEN /\ head' = RemoveAt(head, n)
           /\ q' = FreeAll(Freed(head[n]), q)
           /\ exfree(e, Cardinality(Freed(head[n])))
           /\ epc' = [epc EXCEPT ![e] = "reply"]
      ELSE /\ epc' = [epc EXCEPT ![e] = "flushw"]
           /\ UNCHANGED <<head, q, ref>>
  BY Zenon DEF exflushedQueue
<1>2. found # {} => n \in found
  <2>1. found \in SUBSET Nat
    OBVIOUS
  <2> HIDE DEF found
  <2> QED
    BY <2>1, First
<1>3. n \in found => n \in 1 .. Len(head) /\ Wanted(e, q[cur[e]].oldtag, head[n])
  BY DEF Wanted
<1>4. found = {} => \A i \in 1 .. Len(head) : ~Wanted(e, q[cur[e]].oldtag, head[i])
  BY DEF Wanted
<1> HIDE DEF found, n
<1> QED
  BY <1>1, <1>2, <1>3, <1>4

LEMMA WorkFound ==
    ASSUME Base, NEW e \in Exports, exflushedWork(e)
    PROVE  \/ /\ \A i \in 1 .. Len(work[e]) : q[work[e][i]].tag # q[cur[e]].oldtag
              /\ epc' = [epc EXCEPT ![e] = "reply"]
              /\ UNCHANGED <<cur, killed, q, fsl>>
           \/ \E n \in 1 .. Len(work[e]) :
                 /\ q[work[e][n]].tag = q[cur[e]].oldtag
                 /\ \A i \in 1 .. Len(work[e]) : q[work[e][i]].tag = q[cur[e]].oldtag => n <= i
                 /\ \/ /\ q[work[e][n]].finished
                       /\ fsl' = [fsl EXCEPT ![e] = TRUE]
                       /\ epc' = [epc EXCEPT ![e] = "reply"]
                       /\ UNCHANGED <<cur, killed, q>>
                    \/ /\ ~q[work[e][n]].finished
                       /\ q' = [q EXCEPT ![work[e][n]].flush = Append(@, cur[e])]
                       /\ killed' = IF q[work[e][n]].busy THEN killed \cup {q[work[e][n]].slave}
                                                          ELSE killed
                       /\ epc' = [epc EXCEPT ![e] = "read"]
                       /\ cur' = [cur EXCEPT ![e] = None]
                       /\ UNCHANGED fsl
<1> DEFINE found == {n \in 1 .. Len(work[e]) : q[work[e][n]].tag = q[cur[e]].oldtag}
           n == CHOOSE n \in found : \A k \in found : n <= k
           m == work[e][n]
<1>0. ASSUME NEW x,
             IF q[x].busy THEN swiproc({q[x].slave}) ELSE UNCHANGED <<killed, swipend>>
      PROVE  killed' = IF q[x].busy THEN killed \cup {q[x].slave} ELSE killed
  BY <1>0 DEF swiproc
<1>1. \/ /\ found = {}
         /\ epc' = [epc EXCEPT ![e] = "reply"]
         /\ UNCHANGED <<cur, killed, q, fsl>>
      \/ /\ found # {} /\ q[m].finished
         /\ fsl' = [fsl EXCEPT ![e] = TRUE]
         /\ epc' = [epc EXCEPT ![e] = "reply"]
         /\ UNCHANGED <<cur, killed, q>>
      \/ /\ found # {} /\ ~q[m].finished
         /\ q' = [q EXCEPT ![m].flush = Append(@, cur[e])]
         /\ killed' = IF q[m].busy THEN killed \cup {q[m].slave} ELSE killed
         /\ epc' = [epc EXCEPT ![e] = "read"]
         /\ cur' = [cur EXCEPT ![e] = None]
         /\ UNCHANGED fsl
  BY <1>0, Zenon DEF exflushedWork
<1>2. found # {} => n \in found /\ \A k \in found : n <= k
  <2>1. found \in SUBSET Nat
    OBVIOUS
  <2> HIDE DEF found
  <2> QED
    BY <2>1, First
<1>3. /\ n \in found => n \in 1 .. Len(work[e]) /\ q[work[e][n]].tag = q[cur[e]].oldtag
      /\ \A i \in 1 .. Len(work[e]) : q[work[e][i]].tag = q[cur[e]].oldtag => i \in found
  OBVIOUS
<1> HIDE DEF found, n
<1> QED
  BY <1>1, <1>2, <1>3

\* The other steps of exportproc leave the slaves where they are.
LEMMA ExportBase ==
    ASSUME Base, NEW e \in Exports,
           exflushedQueue(e) \/ exflushedWork(e) \/ ereply(e) \/ exshutdownQueue(e) \/ exshutdownWork(e)
    PROVE  Base'
<1>0. Typed /\ InHand /\ Idlers
  BY DEF Base
<1>1. UNCHANGED <<spc, job, fq, tail, exql, qwait, qwaitq, rwait, got>>
  BY DEF exflushedQueue, exflushedWork, ereply, exshutdownQueue, exshutdownWork, queue,
         idlers, exreply, history
<1>2. PICK to \in ExportLabels : epc' = [epc EXCEPT ![e] = to]
  BY Zenon DEF exflushedQueue, exflushedWork, ereply, exshutdownQueue, exshutdownWork, egoto,
         ExportLabels
<1>3. /\ cur' = cur /\ (epc'[e] \in AtMsg <=> epc[e] \in AtMsg)
      \/ /\ cur' = [cur EXCEPT ![e] = None] /\ epc'[e] \notin AtMsg
  BY <1>0 DEF exflushedQueue, exflushedWork, ereply, exshutdownQueue, exshutdownWork, egoto,
         AtMsg, Typed
<1>4. head' \in Seq(Msgs)
  <2>1. CASE exflushedQueue(e)
    <3>1. head' = head \/ \E n \in 1 .. Len(head) : head' = RemoveAt(head, n)
      BY <2>1, QueueFound
    <3> QED
      BY <1>0, <3>1, RemoveAtFacts DEF Typed
  <2>2. CASE exshutdownQueue(e)
    <3>1. \E D : head' = Without(head, D)
      BY <2>2 DEF exshutdownQueue
    <3> QED
      BY <1>0, <3>1, WithoutFacts DEF Typed
  <2>3. CASE ~exflushedQueue(e) /\ ~exshutdownQueue(e)
    BY <1>0, <2>3 DEF exflushedWork, ereply, exshutdownWork, queue, Typed
  <2> QED
    BY <2>1, <2>2, <2>3
<1>5. q' \in [Msgs -> Exq]
  <2>1. q \in [Msgs -> Exq]
    BY <1>0 DEF Typed
  <2>2. ASSUME NEW F, q' = FreeAll(F, q) PROVE q' \in [Msgs -> Exq]
    BY <2>1, <2>2, FreeTyped
  <2>3. CASE exflushedQueue(e)
    <3>1. q' = q \/ \E F : q' = FreeAll(F, q)
      BY <2>3, Zenon DEF exflushedQueue
    <3> QED
      BY <2>1, <2>2, <3>1
  <2>4. CASE ereply(e) \/ exshutdownQueue(e)
    BY <2>2, <2>4, Zenon DEF ereply, exshutdownQueue
  <2>5. CASE exflushedWork(e)
    <3>1. cur[e] \in Msgs
      BY <1>0, <2>5 DEF exflushedWork, InHand, AtMsg, Typed
    <3>2. q' = q \/ \E m : q' = [q EXCEPT ![m].flush = Append(@, cur[e])]
      BY <2>5, Zenon DEF exflushedWork
    <3>3. ASSUME NEW m, q' = [q EXCEPT ![m].flush = Append(@, cur[e])] PROVE q' \in [Msgs -> Exq]
      <4>1. CASE m \in Msgs
        <5>1. q[m] \in Exq /\ q[m].flush \in Seq(Msgs)
          BY <2>1, <4>1, ExqFields
        <5>2. Append(q[m].flush, cur[e]) \in Seq(Msgs)
          BY <3>1, <5>1, AppendInSeq
        <5>3. [q[m] EXCEPT !.flush = Append(q[m].flush, cur[e])] \in Exq
          BY <5>1, <5>2 DEF Exq
        <5> QED
          BY <2>1, <3>3, <4>1, <5>3
      <4>2. CASE m \notin Msgs
        BY <2>1, <3>3, <4>2
      <4> QED
        BY <4>1, <4>2
    <3> QED
      BY <2>1, <3>2, <3>3
  <2>6. CASE exshutdownWork(e)
    <3>1. \E M : q' = [m \in Msgs |-> IF m \in M THEN [q[m] EXCEPT !.shut = TRUE] ELSE q[m]]
      BY <2>6 DEF exshutdownWork
    <3>2. \A m \in Msgs : [q[m] EXCEPT !.shut = TRUE] \in Exq
      BY <2>1 DEF Exq
    <3> QED
      BY <2>1, <3>1, <3>2
  <2> QED
    BY <2>3, <2>4, <2>5, <2>6
<1>6. killed' \subseteq Slaves \cup {None}
  <2>1. \A m \in Msgs : q[m].slave \in Slaves \cup {None}
    BY <1>0, ExqFields DEF Typed
  <2>2. \A n \in 1 .. Len(work[e]) : work[e][n] \in Msgs
    BY <1>0 DEF Typed
  <2>3. CASE exflushedWork(e)
    <3>1. \/ killed' = killed
          \/ \E n \in 1 .. Len(work[e]) : killed' = killed \cup {q[work[e][n]].slave}
      BY <2>3, WorkFound
    <3> QED
      BY <1>0, <2>1, <2>2, <3>1 DEF Typed
  <2>4. CASE exshutdownWork(e)
    <3>1. \A m \in ToSet(work[e]) : m \in Msgs
      BY <2>2 DEF ToSet
    <3>2. killed' = killed \cup {q[m].slave : m \in ToSet(work[e])}
      BY <2>4 DEF exshutdownWork, swiproc
    <3> QED
      BY <1>0, <2>1, <3>1, <3>2 DEF Typed
  <2>5. CASE exflushedQueue(e) \/ ereply(e) \/ exshutdownQueue(e)
    BY <1>0, <2>5 DEF exflushedQueue, ereply, exshutdownQueue, Typed
  <2> QED
    BY <2>3, <2>4, <2>5
<1>7. work' \in [Exports -> Seq(Msgs)] /\ fsl' \in [Exports -> BOOLEAN]
  <2>1. work' = work \/ work' = [work EXCEPT ![e] = << >>]
    BY DEF exflushedQueue, exflushedWork, ereply, exshutdownQueue, exshutdownWork
  <2>2. fsl' = fsl \/ fsl' = [fsl EXCEPT ![e] = TRUE]
    BY Zenon DEF exflushedQueue, exflushedWork, ereply, exshutdownQueue, exshutdownWork
  <2>3. << >> \in Seq(Msgs)
    OBVIOUS
  <2> QED
    BY <1>0, <2>1, <2>2, <2>3 DEF Typed
<1>8. answered' \in [Msgs -> Nat] /\ cancelled' \subseteq Msgs
  <2>1. CASE ereply(e)
    <3>1. cur[e] \in Msgs
      BY <1>0, <2>1 DEF ereply, egoto, InHand, AtMsg, Typed
    <3> QED
      BY <1>0, <2>1, <3>1, ReplyTyped DEF ereply
  <2>2. CASE ~ereply(e)
    BY <1>0, <2>2 DEF exflushedQueue, exflushedWork, exshutdownQueue, exshutdownWork, history, Typed
  <2> QED
    BY <2>1, <2>2
<1>9. Typed'
  BY <1>0, <1>1, <1>2, <1>3, <1>4, <1>5, <1>6, <1>7, <1>8 DEF Typed
<1>10. InHand'
  BY <1>0, <1>1, <1>2, <1>3 DEF InHand, Typed
<1>11. Idlers'
  BY <1>0, <1>1 DEF Idlers
<1> QED
  BY <1>9, <1>10, <1>11 DEF Base

\* The slaves.
LEMMA WaitBase ==
    ASSUME Base, NEW s \in Slaves,
           qlockQwait(s) \/ SleepRwait(s) \/ (take(s) /\ head = << >>)
    PROVE  Base' /\ \A x \in Slaves : Idle(x)
<1>0. Typed /\ InHand /\ Idlers /\ spc \in [Slaves -> SlaveLabels]
  BY DEF Base, Typed
<1>1. /\ UNCHANGED <<epc, cur, job, fq, q, head, tail, exql, work, fsl, got, answered, cancelled>>
      /\ killed' \subseteq killed
  BY DEF qlockQwait, SleepRwait, take, queue, exports, history
<1>2. spc[s] \in {"idle", "sleep", "take"}
  BY DEF qlockQwait, SleepRwait, take, sgoto
<1>3. CASE qlockQwait(s)
  <2>1. /\ UNCHANGED rwait /\ spc[s] = "idle"
        /\ \/ /\ qwait' = s
              /\ spc' = [spc EXCEPT ![s] = "sleep"]
              /\ UNCHANGED qwaitq
           \/ /\ qwaitq' = Append(qwaitq, s)
              /\ spc' = [spc EXCEPT ![s] = "queued"]
              /\ UNCHANGED qwait
    BY <1>3 DEF qlockQwait, sgoto
  <2>2. /\ Append(qwaitq, s) \in Seq(Slaves) /\ ~In(s, qwaitq)
        /\ Distinct(Append(qwaitq, s))
        /\ \A x \in Slaves : In(x, Append(qwaitq, s)) <=> In(x, qwaitq) \/ x = s
    <3>1. ~In(s, qwaitq)
      BY <1>0, <2>1 DEF Idlers
    <3> QED
      BY <1>0, <3>1, AppendInSeq, JoinQueue DEF Typed, Idlers
  <2>3. spc' \in [Slaves -> SlaveLabels] /\ \A x \in Slaves : x # s => spc'[x] = spc[x]
    BY <1>0, <2>1 DEF SlaveLabels
  <2>4. Typed'
    BY <1>0, <1>1, <2>1, <2>2, <2>3 DEF Typed
  <2>5. \A x \in Slaves : Idle(x)
    BY <1>0, <2>1, <2>3 DEF Idle, AtJob, AfterLink
  <2>6. Idlers'
    BY <1>0, <2>1, <2>2, <2>3 DEF Idlers
  <2> QED
    BY <1>1, <2>4, <2>5, <2>6, InHandKept DEF Base
<1>4. CASE qunlockQwait(s, "idle") /\ UNCHANGED rwait /\ spc[s] \in {"sleep", "take"}
  <2>1. "idle" \in SlaveLabels
    BY DEF SlaveLabels
  <2>2. /\ spc'[s] = "idle"
        /\ \A x \in Slaves : x # s => spc'[x] = spc[x] \/ (spc[x] = "queued" /\ spc'[x] = "sleep")
        /\ \A x \in Slaves : In(x, qwaitq') => spc'[x] = "queued"
        /\ Distinct(qwaitq')
    BY <1>4, <2>1, QunlockEffect
  <2>3. Typed'
    BY <1>0, <1>1, <1>4, <2>1, QunlockTyped DEF Typed
  <2>4. \A x \in Slaves : Idle(x)
    BY <1>4, <2>2 DEF Idle, AtJob, AfterLink
  <2>5. Idlers'
    BY <1>0, <1>4, <2>2 DEF Idlers
  <2> QED
    BY <1>1, <2>3, <2>4, <2>5, InHandKept DEF Base
<1>5. CASE /\ spc' = [spc EXCEPT ![s] = IF head # << >> THEN "take" ELSE "asleep"]
           /\ rwait' = IF head # << >> THEN rwait ELSE s
           /\ UNCHANGED <<qwait, qwaitq>> /\ spc[s] = "sleep"
  <2>1. /\ spc' = [spc EXCEPT ![s] = IF head # << >> THEN "take" ELSE "asleep"]
        /\ rwait' = IF head # << >> THEN rwait ELSE s
        /\ UNCHANGED <<qwait, qwaitq>> /\ spc[s] = "sleep"
    BY <1>5
  <2>2. spc' \in [Slaves -> SlaveLabels] /\ \A x \in Slaves : x # s => spc'[x] = spc[x]
    BY <1>0, <2>1 DEF SlaveLabels
  <2>3. Typed'
    BY <1>0, <1>1, <2>1, <2>2 DEF Typed
  <2>4. \A x \in Slaves : Idle(x)
    BY <1>0, <2>1, <2>2 DEF Idle, AtJob, AfterLink
  <2>5. Idlers'
    BY <1>0, <2>1, <2>2 DEF Idlers
  <2> QED
    BY <1>1, <2>3, <2>4, <2>5, InHandKept DEF Base
<1> QED
  BY <1>3, <1>4, <1>5 DEF SleepRwait, take

LEMMA TakeBase ==
    ASSUME Base, NEW s \in Slaves, take(s), head # << >>
    PROVE  /\ Base'
           /\ spc'[s] = "link" /\ job' = [job EXCEPT ![s] = Head(head)]
           /\ \A x \in Slaves : x # s => Idle(x)
<1>0. Typed /\ InHand /\ Idlers /\ spc \in [Slaves -> SlaveLabels]
  BY DEF Base, Typed
<1>1. /\ spc[s] = "take" /\ exql = None
      /\ qunlockQwait(s, "link")
      /\ head' = Tail(head) /\ exql' = s /\ job' = [job EXCEPT ![s] = Head(head)]
      /\ UNCHANGED <<epc, cur, fq, killed, q, tail, rwait, work, fsl, got, answered, cancelled>>
  BY DEF take, exports, history
<1>2. "link" \in SlaveLabels
  BY DEF SlaveLabels
<1>3. /\ spc'[s] = "link"
      /\ \A x \in Slaves : x # s => spc'[x] = spc[x] \/ (spc[x] = "queued" /\ spc'[x] = "sleep")
      /\ \A x \in Slaves : In(x, qwaitq') => spc'[x] = "queued"
      /\ Distinct(qwaitq')
  BY <1>1, <1>2, QunlockEffect
<1>4. Head(head) \in Msgs /\ Tail(head) \in Seq(Msgs)
  BY <1>0, TailFacts DEF Typed
<1>5. Typed'
  BY <1>0, <1>1, <1>2, <1>4, QunlockTyped DEF Typed
<1>6. InHand'
  <2>1. \A x \in Slaves : x # s => job'[x] = job[x] /\ exql # x /\ spc[x] # "link"
    BY <1>0, <1>1, ExportfsAssumption DEF InHand, Typed
  <2>2. job'[s] = Head(head) /\ Head(head) # None /\ fq[s] = None
    BY <1>0, <1>1, <1>4, ExportfsAssumption DEF InHand, Typed
  <2>3. \A e \in Exports : cur'[e] # None <=> epc'[e] \in AtMsg
    BY <1>0, <1>1 DEF InHand
  <2>4. \A x \in Slaves : job'[x] # None <=> spc'[x] \in AtJob
    BY <1>0, <1>3, <2>1, <2>2 DEF InHand, AtJob, AfterLink
  <2>5. \A x \in Slaves : fq'[x] # None <=> spc'[x] = "freply"
    BY <1>0, <1>1, <1>3, <2>2 DEF InHand
  <2>6. \A x \in Slaves : exql' = x <=> spc'[x] = "link"
    BY <1>1, <1>3, <2>1
  <2> QED
    BY <2>3, <2>4, <2>5, <2>6 DEF InHand
<1>7. Idlers'
  BY <1>0, <1>1, <1>3 DEF Idlers
<1>8. \A x \in Slaves : x # s => Idle(x)
  BY <1>3 DEF Idle, AtJob, AfterLink
<1> QED
  BY <1>1, <1>3, <1>5, <1>6, <1>7, <1>8 DEF Base

\* A step of a slave with a request in hand, that keeps it in hand.
LEMMA WorkBase ==
    ASSUME Base, NEW s \in Slaves, spc[s] \in AtJob,
           UNCHANGED <<epc, cur, job, head, tail, qwait, qwaitq, rwait, fsl, got>>,
           NEW to \in AfterLink, spc' = [spc EXCEPT ![s] = to],
           exql' = IF spc[s] = "link" THEN None ELSE exql,
           \/ to # "freply" /\ fq' = [fq EXCEPT ![s] = None]
           \/ to # "freply" /\ spc[s] # "freply" /\ fq' = fq
           \/ to = "freply" /\ \E f \in Msgs : fq' = [fq EXCEPT ![s] = f],
           killed' \subseteq killed, q' \in [Msgs -> Exq],
           work' \in [Exports -> Seq(Msgs)],
           answered' \in [Msgs -> Nat], cancelled' \subseteq Msgs
    PROVE  Base'
<1>0. Typed /\ InHand /\ Idlers /\ spc \in [Slaves -> SlaveLabels]
  BY DEF Base, Typed
<1>1. to \in SlaveLabels /\ to \in AtJob /\ to # "link"
  BY DEF SlaveLabels, AtJob, AfterLink
<1>2. /\ spc'[s] = to /\ \A x \in Slaves : x # s => spc'[x] = spc[x] /\ fq'[x] = fq[x]
      /\ fq'[s] # None <=> to = "freply"
      /\ fq' \in [Slaves -> Msgs \cup {None}]
  <2>1. PICK f \in Msgs \cup {None} : fq' = [fq EXCEPT ![s] = f] /\ (f # None <=> to = "freply")
    <3>1. CASE to # "freply" /\ spc[s] # "freply" /\ fq' = fq
      <4>1. fq[s] = None /\ fq = [fq EXCEPT ![s] = None]
        BY <1>0, <3>1 DEF Typed, InHand
      <4> QED
        BY <3>1, <4>1
    <3> QED
      BY <3>1, ExportfsAssumption
  <2> QED
    BY <1>0, <2>1 DEF Typed
<1>3. Typed'
  BY <1>0, <1>1, <1>2 DEF Typed
<1>4. InHand'
  <2>1. \A x \in Slaves : job[x] # None <=> spc'[x] \in AtJob
    BY <1>0, <1>1, <1>2 DEF InHand
  <2>2. \A x \in Slaves : fq'[x] # None <=> spc'[x] = "freply"
    BY <1>0, <1>2 DEF InHand
  <2>3. \A x \in Slaves : exql' = x <=> spc'[x] = "link"
    BY <1>0, <1>1, <1>2, ExportfsAssumption DEF InHand
  <2> QED
    BY <1>0, <2>1, <2>2, <2>3 DEF InHand
<1>5. Idlers'
  <2>1. spc[s] \notin {"queued", "asleep"}
    BY DEF AtJob, AfterLink
  <2> QED
    BY <1>2, <2>1, IdlersKept
<1> QED
  BY <1>3, <1>4, <1>5 DEF Base

\* What the steps of a slave with a request do to it.
LEMMA LinkEffect ==
    ASSUME Base, NEW s \in Slaves, link(s), NEW m, m = job[s], q[m].export # None
    PROVE  /\ Base' /\ m \in Msgs /\ q[m].export \in Exports
           /\ spc[s] = "link" /\ spc' = [spc EXCEPT ![s] = "call"]
           /\ \A x \in Msgs : x # m => q'[x] = q[x]
           /\ q'[m] = [q[m] EXCEPT !.slave = s, !.busy = TRUE]
           /\ work' = [work EXCEPT ![q[m].export] = <<m>> \o work[q[m].export]]
<1>0. Typed /\ InHand /\ spc[s] = "link"
  BY DEF Base, link, sgoto
<1>1. m \in Msgs
  BY <1>0 DEF InHand, AtJob, Typed
<1>2. q[m] \in Exq /\ q \in [Msgs -> Exq] /\ q[m].export \in Exports
  BY <1>0, <1>1, ExqFields DEF Typed
<1>3. /\ spc' = [spc EXCEPT ![s] = "call"]
      /\ killed' = killed \ {s}
      /\ q' = [q EXCEPT ![m].slave = s, ![m].busy = TRUE]
      /\ work' = [work EXCEPT ![q[m].export] = <<m>> \o work[q[m].export]]
      /\ exql' = None
      /\ UNCHANGED <<epc, cur, job, fq, head, tail, qwait, qwaitq, rwait, fsl, got, answered, cancelled>>
  BY DEF link, sgoto, idlers, history
<1>4. [q[m] EXCEPT !.slave = s, !.busy = TRUE] \in Exq
  BY <1>2 DEF Exq
<1>5. q' = [q EXCEPT ![m] = [q[m] EXCEPT !.slave = s, !.busy = TRUE]]
  BY <1>1, <1>2, <1>3
<1>6. q' \in [Msgs -> Exq]
  BY <1>1, <1>2, <1>4, <1>5
<1>7. work' \in [Exports -> Seq(Msgs)]
  BY <1>0, <1>1, <1>2, <1>3, LastTyped DEF Typed
<1>8. "call" \in AfterLink /\ spc[s] \in AtJob
  BY <1>0 DEF AfterLink, AtJob
<1>9. answered' \in [Msgs -> Nat] /\ cancelled' \subseteq Msgs
  BY <1>0, <1>3 DEF Typed
<1>10. Base'
  BY <1>0, <1>3, <1>6, <1>7, <1>8, <1>9, WorkBase
<1>11. /\ q'[m] = [q[m] EXCEPT !.slave = s, !.busy = TRUE]
       /\ \A x \in Msgs : x # m => q'[x] = q[x]
  BY <1>1, <1>2, <1>5
<1> QED
  BY <1>0, <1>1, <1>2, <1>3, <1>10, <1>11

LEMMA FcallEffect ==
    ASSUME Base, NEW s \in Slaves, (\E err \in BOOLEAN : fcallReturns(s, err)),
           NEW m, m = job[s]
    PROVE  /\ Base' /\ m \in Msgs
           /\ spc[s] = "call" /\ spc' = [spc EXCEPT ![s] = "called"]
           /\ killed' \subseteq killed
           /\ \A x \in Msgs : x # m => q'[x] = q[x]
           /\ \E err \in BOOLEAN : q'[m] = [q[m] EXCEPT !.err = err]
           /\ UNCHANGED <<epc, cur, job, fq, head, exql, work, ref, got, answered, cancelled>>
<1>0. Typed /\ InHand /\ spc[s] = "call"
  BY DEF Base, fcallReturns, sgoto
<1>1. m \in Msgs
  BY <1>0 DEF InHand, AtJob, AfterLink, Typed
<1>2. q[m] \in Exq /\ q \in [Msgs -> Exq]
  BY <1>0, <1>1 DEF Typed
<1>3. /\ spc' = [spc EXCEPT ![s] = "called"]
      /\ killed' \subseteq killed
      /\ UNCHANGED <<epc, cur, job, fq, head, tail, exql, qwait, qwaitq, rwait, work, fsl,
                     ref, got, answered, cancelled>>
  BY DEF fcallReturns, Interrupted, sgoto, idlers, history, queue, exports
<1>4. PICK err \in BOOLEAN : q' = [q EXCEPT ![m].err = err]
  BY DEF fcallReturns
<1>5. [q[m] EXCEPT !.err = err] \in Exq
  BY <1>2 DEF Exq
<1>6. q' \in [Msgs -> Exq]
  BY <1>1, <1>2, <1>4, <1>5
<1>7. "called" \in AfterLink /\ spc[s] \in AtJob
  BY <1>0 DEF AfterLink, AtJob
<1>8. /\ answered' \in [Msgs -> Nat] /\ cancelled' \subseteq Msgs
      /\ work' \in [Exports -> Seq(Msgs)]
  BY <1>0, <1>3 DEF Typed
<1>9. Base'
  BY <1>0, <1>3, <1>6, <1>7, <1>8, WorkBase
<1>10. /\ q'[m] = [q[m] EXCEPT !.err = err]
       /\ \A x \in Msgs : x # m => q'[x] = q[x]
  BY <1>1, <1>2, <1>4
<1> QED
  BY <1>0, <1>1, <1>3, <1>9, <1>10

\* complete and nextFlush end in one of three ways: the request is answered,
\* the next flush is, or there is nothing more to answer.
ToReply(s, m) == /\ spc[s] = "called" /\ ~q[m].shut /\ (q[m].flush = << >> \/ ~q[m].err)
                 /\ spc' = [spc EXCEPT ![s] = "reply"] /\ fq' = fq
                 /\ q'[m] = [q[m] EXCEPT !.busy = FALSE]

ToFlush(s, m) == /\ spc[s] \in {"called", "replied"}
                 /\ q[m].flush # << >> /\ ~q[m].shut
                 /\ spc[s] = "called" => q[m].err
                 /\ spc' = [spc EXCEPT ![s] = "freply"]
                 /\ fq' = [fq EXCEPT ![s] = Head(q[m].flush)]
                 /\ q'[m] = [q[m] EXCEPT !.busy = (spc[s] = "replied" /\ @), !.flush = Tail(@)]

ToUnlink(s, m) == /\ spc[s] \in {"called", "replied"}
                  /\ IF spc[s] = "called" THEN q[m].shut ELSE q[m].flush = << >> \/ q[m].shut
                  /\ spc' = [spc EXCEPT ![s] = "unlink"] /\ fq' = fq
                  /\ q'[m] = [q[m] EXCEPT !.busy = (spc[s] = "replied" /\ @), !.finished = TRUE]

LEMMA NextFlushEffect ==
    ASSUME Base, NEW s \in Slaves, spc[s] \in {"called", "replied"}, NEW m, m = job[s],
           NEW x, NextFlush(s, x),
           x = [q EXCEPT ![m].busy = (spc[s] = "replied" /\ @)],
           spc[s] = "called" => q[m].shut \/ (q[m].flush # << >> /\ q[m].err)
    PROVE  /\ ToFlush(s, m) \/ ToUnlink(s, m)
           /\ m \in Msgs /\ q' \in [Msgs -> Exq]
           /\ \A y \in Msgs : y # m => q'[y] = q[y]
<1>0. Typed /\ InHand
  BY DEF Base
<1>1. m \in Msgs /\ q \in [Msgs -> Exq] /\ q[m] \in Exq
  BY <1>0 DEF InHand, AtJob, AfterLink, Typed
<1>2. /\ q[m].busy \in BOOLEAN /\ q[m].shut \in BOOLEAN /\ q[m].err \in BOOLEAN
      /\ q[m].flush \in Seq(Msgs)
  BY <1>1, ExqFields
<1> DEFINE b == spc[s] = "replied" /\ q[m].busy
           z == [q[m] EXCEPT !.busy = b]
<1>3. z \in Exq
  BY <1>1, <1>2 DEF Exq
<1>4. /\ x = [q EXCEPT ![m] = z] /\ x[m] = z /\ x \in [Msgs -> Exq]
      /\ \A y \in Msgs : y # m => x[y] = q[y]
  BY <1>1, <1>3
<1>5. x[m].flush = q[m].flush /\ x[m].shut = q[m].shut
  BY <1>1, <1>4 DEF Exq
<1>6. job[s] \in Msgs
  BY <1>1
<1>7. q' \in [Msgs -> Exq]
  BY <1>4, <1>6, NextFlushTyped DEF Base
<1>8. CASE q[m].flush # << >> /\ ~q[m].shut
  <2>1. /\ fq' = [fq EXCEPT ![s] = Head(q[m].flush)]
        /\ q' = [x EXCEPT ![m].flush = Tail(@)]
        /\ spc' = [spc EXCEPT ![s] = "freply"]
    BY <1>5, <1>8 DEF NextFlush
  <2>2. /\ q'[m] = [z EXCEPT !.flush = Tail(q[m].flush)]
        /\ \A y \in Msgs : y # m => q'[y] = x[y]
    BY <1>1, <1>4, <1>5, <2>1
  <2>3. q'[m] = [q[m] EXCEPT !.busy = b, !.flush = Tail(@)]
    BY <1>1, <2>2 DEF Exq
  <2>4. spc[s] = "called" => q[m].err
    BY <1>8
  <2> QED
    BY <1>1, <1>4, <1>7, <1>8, <2>1, <2>2, <2>3, <2>4 DEF ToFlush
<1>9. CASE ~(q[m].flush # << >> /\ ~q[m].shut)
  <2>1. /\ fq' = fq
        /\ q' = [x EXCEPT ![m].finished = TRUE]
        /\ spc' = [spc EXCEPT ![s] = "unlink"]
    BY <1>5, <1>9, Zenon DEF NextFlush
  <2>2. /\ q'[m] = [z EXCEPT !.finished = TRUE]
        /\ \A y \in Msgs : y # m => q'[y] = x[y]
    BY <1>1, <1>4, <2>1
  <2>3. q'[m] = [q[m] EXCEPT !.busy = b, !.finished = TRUE]
    BY <1>1, <2>2 DEF Exq
  <2>4. IF spc[s] = "called" THEN q[m].shut ELSE q[m].flush = << >> \/ q[m].shut
    BY <1>9
  <2> QED
    BY <1>1, <1>4, <1>7, <1>9, <2>1, <2>2, <2>3, <2>4 DEF ToUnlink
<1> QED
  BY <1>8, <1>9

LEMMA AnswerEffect ==
    ASSUME Base, NEW s \in Slaves, complete(s) \/ nextFlush(s), NEW m, m = job[s]
    PROVE  /\ Base' /\ m \in Msgs
           /\ ToReply(s, m) \/ ToFlush(s, m) \/ ToUnlink(s, m)
           /\ killed' \subseteq killed /\ (spc[s] = "called" => killed' = killed \ {s})
           /\ \A x \in Msgs : x # m => q'[x] = q[x]
           /\ UNCHANGED <<epc, cur, job, head, exql, work, ref, got, answered, cancelled>>
<1>0. Typed /\ InHand
  BY DEF Base
<1>1. m \in Msgs /\ q \in [Msgs -> Exq] /\ q[m] \in Exq
  BY <1>0 DEF InHand, AtJob, AfterLink, Typed, complete, nextFlush
<1>2. /\ q[m].busy \in BOOLEAN /\ q[m].shut \in BOOLEAN /\ q[m].err \in BOOLEAN
      /\ q[m].flush \in Seq(Msgs)
  BY <1>1, ExqFields
<1>3. /\ killed' \subseteq killed /\ (spc[s] = "called" => killed' = killed \ {s})
      /\ UNCHANGED <<epc, cur, job, head, tail, exql, qwait, qwaitq, rwait, work, fsl, ref,
                     got, answered, cancelled>>
  BY Zenon DEF complete, nextFlush, queue, idlers, exports, history
<1>4. spc[s] \in {"called", "replied"}
  BY DEF complete, nextFlush
<1>5. /\ ToReply(s, m) \/ ToFlush(s, m) \/ ToUnlink(s, m)
      /\ q' \in [Msgs -> Exq]
      /\ \A x \in Msgs : x # m => q'[x] = q[x]
  <2>1. CASE spc[s] = "called" /\ ~q[m].shut /\ (q[m].flush = << >> \/ ~q[m].err)
    <3>1. /\ q' = [q EXCEPT ![m].busy = FALSE]
          /\ spc' = [spc EXCEPT ![s] = "reply"] /\ fq' = fq
      BY <2>1 DEF complete, nextFlush
    <3>2. [q[m] EXCEPT !.busy = FALSE] \in Exq
      BY <1>1 DEF Exq
    <3> QED
      BY <1>1, <2>1, <3>1, <3>2 DEF ToReply
  <2>2. CASE ~(spc[s] = "called" /\ ~q[m].shut /\ (q[m].flush = << >> \/ ~q[m].err))
    <3>0. spc[s] = "called" => q[m].shut \/ (q[m].flush # << >> /\ q[m].err)
      BY <1>2, <2>2
    <3>1. CASE spc[s] = "called"
      <4>1. NextFlush(s, [q EXCEPT ![m].busy = FALSE])
        BY <2>2, <3>1 DEF complete, nextFlush
      <4>2. [q EXCEPT ![m].busy = FALSE] = [q EXCEPT ![m].busy = (spc[s] = "replied" /\ @)]
        BY <3>1
      <4> QED
        BY <1>4, <3>0, <4>1, <4>2, NextFlushEffect
    <3>2. CASE spc[s] = "replied"
      <4>1. NextFlush(s, q)
        BY <3>2 DEF complete, nextFlush
      <4> DEFINE x == [q EXCEPT ![m].busy = (spc[s] = "replied" /\ @)]
      <4>2. x = [q EXCEPT ![m] = [q[m] EXCEPT !.busy = q[m].busy]]
        BY <1>1, <1>2, <3>2
      <4>3. [q[m] EXCEPT !.busy = q[m].busy] = q[m]
        BY <1>1 DEF Exq
      <4>4. q = x
        BY <1>1, <4>2, <4>3
      <4> HIDE DEF x
      <4>5. q = [q EXCEPT ![m].busy = (spc[s] = "replied" /\ @)]
        BY <4>4 DEF x
      <4> QED
        BY <1>4, <3>0, <4>1, <4>5, NextFlushEffect
    <3> QED
      BY <1>4, <3>1, <3>2
  <2> QED
    BY <2>1, <2>2
<1>6. \E to \in AfterLink :
         /\ spc' = [spc EXCEPT ![s] = to]
         /\ \/ to # "freply" /\ spc[s] # "freply" /\ fq' = fq
            \/ to = "freply" /\ \E f \in Msgs : fq' = [fq EXCEPT ![s] = f]
  <2>1. ToFlush(s, m) => Head(q[m].flush) \in Msgs
    BY <1>2, TailFacts DEF ToFlush
  <2> QED
    BY <1>4, <1>5, <2>1 DEF ToReply, ToFlush, ToUnlink, AfterLink
<1>7. /\ answered' \in [Msgs -> Nat] /\ cancelled' \subseteq Msgs
      /\ work' \in [Exports -> Seq(Msgs)]
  BY <1>0, <1>3 DEF Typed
<1>8. spc[s] \in AtJob /\ spc[s] # "link"
  BY <1>4 DEF AtJob, AfterLink
<1>9. Base'
  BY <1>3, <1>5, <1>6, <1>7, <1>8, WorkBase
<1> QED
  BY <1>1, <1>3, <1>5, <1>9

LEMMA SendEffect ==
    ASSUME Base, NEW s \in Slaves, reply(s) \/ freply(s)
    PROVE  /\ Base' /\ job[s] \in Msgs
           /\ spc' = [spc EXCEPT ![s] = "replied"]
           /\ \/ /\ spc[s] = "reply" /\ exreply(job[s])
                 /\ UNCHANGED <<fq, q, ref>>
              \/ /\ spc[s] = "freply" /\ fq[s] \in Msgs /\ exreply(fq[s])
                 /\ fq' = [fq EXCEPT ![s] = None]
                 /\ q' = FreeAll({fq[s]}, q)
                 /\ exfree(q[fq[s]].export, 1)
           /\ killed' \subseteq killed
           /\ UNCHANGED <<epc, cur, job, head, exql, work, got>>
<1>0. Typed /\ InHand
  BY DEF Base
<1>1. /\ spc' = [spc EXCEPT ![s] = "replied"]
      /\ killed' \subseteq killed
      /\ UNCHANGED <<epc, cur, job, head, tail, exql, qwait, qwaitq, rwait, work, fsl, got>>
  BY DEF reply, freply, Interrupted, sgoto, queue, idlers, exports, exreply
<1>2. \/ /\ spc[s] = "reply" /\ exreply(job[s])
         /\ UNCHANGED <<fq, q, ref>>
      \/ /\ spc[s] = "freply" /\ exreply(fq[s])
         /\ fq' = [fq EXCEPT ![s] = None]
         /\ q' = FreeAll({fq[s]}, q)
         /\ exfree(q[fq[s]].export, 1)
  BY DEF reply, freply, sgoto, exports
<1>3. job[s] \in Msgs /\ (spc[s] = "freply" => fq[s] \in Msgs)
  BY <1>0, <1>2 DEF InHand, AtJob, AfterLink, Typed
<1>4. q' \in [Msgs -> Exq]
  <2>1. q \in [Msgs -> Exq]
    BY <1>0 DEF Typed
  <2>2. FreeAll({fq[s]}, q) \in [Msgs -> Exq]
    BY <2>1, FreeTyped
  <2> QED
    BY <1>2, <2>1, <2>2
<1>5. answered' \in [Msgs -> Nat] /\ cancelled' \subseteq Msgs
  BY <1>0, <1>2, <1>3, ReplyTyped
<1>6. /\ "replied" \in AfterLink /\ spc[s] \in AtJob /\ spc[s] # "link"
      /\ work' \in [Exports -> Seq(Msgs)]
  BY <1>0, <1>1, <1>2 DEF AtJob, AfterLink, Typed
<1>7. \/ fq' = [fq EXCEPT ![s] = None]
      \/ spc[s] # "freply" /\ fq' = fq
  BY <1>2
<1>8. Base'
  BY <1>1, <1>4, <1>5, <1>6, <1>7, WorkBase
<1> QED
  BY <1>1, <1>2, <1>3, <1>8

LEMMA UnlinkEffect ==
    ASSUME Base, NEW s \in Slaves, unlink(s), NEW m, m = job[s], q[m].export # None
    PROVE  /\ Base' /\ m \in Msgs /\ q[m].export \in Exports
           /\ spc[s] = "unlink" /\ spc' = [spc EXCEPT ![s] = "idle"]
           /\ job' = [job EXCEPT ![s] = None] /\ killed' = killed \ {s}
           /\ q' = FreeAll(Freed(m), q)
           /\ work' = [work EXCEPT ![q[m].export] = Without(work[q[m].export], {m})]
           /\ exfree(q[m].export, Cardinality(Freed(m)))
           /\ UNCHANGED <<epc, cur, fq, head, exql, got, answered, cancelled>>
<1>0. Typed /\ InHand /\ Idlers /\ spc[s] = "unlink"
  BY DEF Base, unlink, sgoto
<1>1. m \in Msgs /\ q[m].export \in Exports
  BY <1>0, ExqFields DEF InHand, AtJob, AfterLink, Typed
<1>2. /\ spc' = [spc EXCEPT ![s] = "idle"]
      /\ job' = [job EXCEPT ![s] = None] /\ killed' = killed \ {s}
      /\ q' = FreeAll(Freed(m), q)
      /\ work' = [work EXCEPT ![q[m].export] = Without(work[q[m].export], {m})]
      /\ exfree(q[m].export, Cardinality(Freed(m)))
      /\ UNCHANGED <<epc, cur, fq, head, tail, exql, qwait, qwaitq, rwait, fsl, got, answered,
                     cancelled>>
  BY DEF unlink, sgoto, queue, idlers, history
<1>3. work' \in [Exports -> Seq(Msgs)]
  BY <1>0, <1>1, <1>2, WithoutFacts DEF Typed
<1>4. q' \in [Msgs -> Exq]
  BY <1>0, <1>2, FreeTyped DEF Typed
<1>5. Typed'
  BY <1>0, <1>2, <1>3, <1>4 DEF Typed, SlaveLabels
<1>6. InHand'
  BY <1>0, <1>2 DEF InHand, AtJob, AfterLink, Typed
<1>7. Idlers'
  BY <1>0, <1>2, IdlersKept DEF Typed
<1> QED
  BY <1>0, <1>1, <1>2, <1>5, <1>6, <1>7 DEF Base

-----------------------------------------------------------------------------
(* Where an Exq is, until it is freed.  One that no slave has put on the    *)
(* work list yet is in one place: it is the message exportproc is at, or on *)
(* the list of exq, or in the hands of the slave that links it, or among    *)
(* the flushes of a request in progress, or the flush that is answered.     *)

\* No slave has been at it.
New(m) == /\ q[m].st = "live" /\ q[m].export # None /\ q[m].slave = None
          /\ q[m].flush = << >>
          /\ ~q[m].busy /\ ~q[m].finished /\ ~q[m].shut /\ ~q[m].err
          /\ answered[m] = 0

Unread == \A m \in Msgs :
    q[m].st = "unread" => /\ q[m].export = None /\ q[m].slave = None
                          /\ q[m].tag = None /\ q[m].oldtag = None
                          /\ q[m].flush = << >>
                          /\ ~q[m].busy /\ ~q[m].finished /\ ~q[m].shut /\ ~q[m].err
                          /\ answered[m] = 0

AtCur(e) ==
    cur[e] # None => /\ New(cur[e]) /\ q[cur[e]].export = e
                     /\ ~In(cur[e], head)
                     /\ epc[e] = "queue" => q[cur[e]].type = "T"
                     /\ epc[e] \in {"flushq", "flushw"} => q[cur[e]].type = "Tflush"

OnHead == /\ Distinct(head)
          /\ \A m \in Msgs : In(m, head) => New(m) /\ q[m].type = "T"

AtLink(s) ==
    spc[s] = "link" => /\ New(job[s]) /\ q[job[s]].type = "T"
                       /\ ~In(job[s], head)
                       /\ \A e \in Exports : cur[e] # job[s]

AtWork(s) ==
    spc[s] \in AfterLink =>
        /\ q[job[s]].st = "live" /\ q[job[s]].type = "T"
        /\ q[job[s]].slave = s /\ q[job[s]].export # None
        /\ q[job[s]].busy <=> spc[s] \in {"call", "called"}
        /\ q[job[s]].finished <=> spc[s] = "unlink"
        /\ spc[s] \in {"call", "called", "reply"} => answered[job[s]] = 0
        /\ q[job[s]].shut \/ In(job[s], work[q[job[s]].export])

\* A flush that waits is where the request that it flushes can answer it.
FlushOf(f, m) == /\ New(f) /\ q[f].type = "Tflush"
                 /\ q[f].export = q[m].export /\ q[f].oldtag = q[m].tag
                 /\ \A e \in Exports : cur[e] # f

AtFlush(s) ==
    fq[s] # None => /\ FlushOf(fq[s], job[s])
                    /\ \A x \in Slaves : fq[x] = fq[s] => x = s

OnFlush(m) ==
    /\ Distinct(q[m].flush)
    /\ q[m].flush # << >> => q[m].slave # None /\ job[q[m].slave] = m
    /\ \A f \in Msgs : In(f, q[m].flush) =>
          /\ FlushOf(f, m)
          /\ \A s \in Slaves : fq[s] # f
          /\ \A n \in Msgs : In(f, q[n].flush) => n = m

\* The work list holds what slaves are at.
OnWork(e) ==
    /\ Distinct(work[e])
    /\ \A m \in Msgs : In(m, work[e]) =>
          /\ q[m].export = e /\ ~q[m].shut
          /\ q[m].slave # None /\ job[q[m].slave] = m

\* What exshutdown has done.
Shutting(e) ==
    /\ epc[e] \in {"shutw", "exfree", "done"} =>
          /\ \A m \in Msgs : In(m, head) => q[m].export # e
          /\ \A s \in Slaves : spc[s] = "link" => q[job[s]].export # e
    /\ epc[e] \in {"exfree", "done"} => work[e] = << >>

Placed == /\ Unread /\ OnHead
          /\ \A e \in Exports : AtCur(e) /\ OnWork(e) /\ Shutting(e)
          /\ \A s \in Slaves : AtLink(s) /\ AtWork(s) /\ AtFlush(s)
          /\ \A m \in Msgs : OnFlush(m)
          /\ \A m \in Msgs : q[m].shut => q[m].export \in Exports /\ epc[q[m].export] \in {"exfree", "done"}

Inv == Base /\ Placed

\* Steps that leave the requests where they are.
LEMMA PassPlaced ==
    ASSUME Inv, UNCHANGED <<cur, job, fq, q, head, work, answered>>,
           \A x \in Slaves : Idle(x),
           \A e \in Exports : /\ epc'[e] \in AtMsg => epc'[e] = epc[e]
                              /\ epc'[e] \in {"shutw", "exfree", "done"} =>
                                     epc[e] \in {"shutw", "exfree", "done"}
                              /\ epc'[e] \in {"exfree", "done"} <=> epc[e] \in {"exfree", "done"}
    PROVE  Placed'
<1>0. Placed /\ Typed
  BY DEF Inv, Base
<1>1. \A x \in Slaves : spc'[x] \in AtJob => spc'[x] = spc[x]
  BY DEF Idle
<1>2. Unread' /\ OnHead'
  BY <1>0 DEF Placed, Unread, OnHead, New
<1>3. ASSUME NEW e \in Exports PROVE AtCur(e)' /\ OnWork(e)' /\ Shutting(e)'
  BY <1>0, <1>1 DEF Placed, AtCur, OnWork, Shutting, New, AtMsg, AtJob
<1>4. ASSUME NEW s \in Slaves PROVE AtLink(s)' /\ AtWork(s)' /\ AtFlush(s)'
  BY <1>0, <1>1 DEF Placed, AtLink, AtWork, AtFlush, FlushOf, New, AtJob, AfterLink
<1>5. ASSUME NEW m \in Msgs PROVE OnFlush(m)'
  BY <1>0 DEF Placed, OnFlush, FlushOf, New
<1>6. ASSUME NEW m \in Msgs, q'[m].shut
      PROVE  q'[m].export \in Exports /\ epc'[q'[m].export] \in {"exfree", "done"}
  BY <1>0, <1>6 DEF Placed
<1> QED
  BY <1>2, <1>3, <1>4, <1>5, <1>6 DEF Placed

\* exportproc reads a message, that nothing knows of.
\* A message that has not been read is nowhere.
LEMMA UnreadApart ==
    ASSUME Inv, NEW m \in Msgs, q[m].st = "unread"
    PROVE  /\ ~In(m, head)
           /\ \A s \in Slaves : job[s] # m /\ fq[s] # m
           /\ \A x \in Exports : cur[x] # m /\ ~In(m, work[x])
           /\ \A x \in Msgs : ~In(m, q[x].flush)
<1>0. Base /\ Typed /\ Placed /\ InHand /\ m # None
  BY ExportfsAssumption DEF Inv, Base
<1>1. ~New(m) /\ q[m].slave = None
  BY <1>0 DEF New, Placed, Unread
<1>2. ~In(m, head) /\ \A x \in Exports : cur[x] # m
  BY <1>0, <1>1 DEF Placed, OnHead, AtCur
<1>3. \A s \in Slaves : fq[s] # m
  BY <1>0, <1>1 DEF Placed, AtFlush, FlushOf
<1>4. \A x \in Msgs : ~In(m, q[x].flush)
  BY <1>0, <1>1 DEF Placed, OnFlush, FlushOf
<1>5. \A s \in Slaves : job[s] # m
  BY <1>0, <1>1 DEF Placed, AtLink, AtWork, InHand, AtJob
<1>6. \A x \in Exports : ~In(m, work[x])
  BY <1>0, <1>1 DEF Placed, OnWork
<1> QED
  BY <1>2, <1>3, <1>4, <1>5, <1>6

LEMMA ReadPlaced ==
    ASSUME Inv, NEW e \in Exports, NEW m \in Msgs, NEW next \in {"queue", "reply", "flushq"},
           NEW type \in {"T", "Tflush"}, NEW tag \in Tags, NEW oldtag \in Tags \cup {None},
           read(e, m, next, type, tag, oldtag),
           next = "queue" => type = "T", next = "flushq" => type = "Tflush"
    PROVE  Placed'
<1>0. Base /\ Typed /\ Placed /\ InHand
  BY DEF Inv, Base
<1>1. /\ epc[e] = "read" /\ q[m].st = "unread"
      /\ UNCHANGED <<spc, job, fq, head, work, answered>>
  BY DEF read, egoto, queue
<1>2. m \in Msgs /\ q \in [Msgs -> Exq] /\ q[m] \in Exq /\ m # None /\ e # None
  BY <1>0, ExportfsAssumption DEF Typed
<1>3. /\ q'[m].st = "live" /\ q'[m].export = e /\ q'[m].type = type
      /\ q'[m].slave = q[m].slave /\ q'[m].flush = q[m].flush
      /\ q'[m].busy = q[m].busy /\ q'[m].finished = q[m].finished
      /\ q'[m].shut = q[m].shut /\ q'[m].err = q[m].err
      /\ \A x \in Msgs : x # m => q'[x] = q[x]
  <2>1. q' = [q EXCEPT ![m].st = "live", ![m].export = e, ![m].type = type,
                       ![m].tag = tag, ![m].oldtag = oldtag]
    BY DEF read
  <2> QED
    BY <1>2, <2>1 DEF Exq
<1>4. /\ q[m].slave = None /\ q[m].flush = << >>
      /\ ~q[m].busy /\ ~q[m].finished /\ ~q[m].shut /\ ~q[m].err /\ answered[m] = 0
  BY <1>0, <1>1 DEF Placed, Unread
<1>5. /\ ~In(m, head)
      /\ \A s \in Slaves : job[s] # m /\ fq[s] # m
      /\ \A x \in Exports : cur[x] # m /\ ~In(m, work[x])
      /\ \A x \in Msgs : ~In(m, q[x].flush)
  BY <1>1, UnreadApart
<1>6. /\ cur'[e] = m /\ \A x \in Exports : x # e => cur'[x] = cur[x]
      /\ epc'[e] = next /\ \A x \in Exports : x # e => epc'[x] = epc[x]
  <2>1. epc' = [epc EXCEPT ![e] = next] /\ cur' = [cur EXCEPT ![e] = m]
    BY DEF read, egoto
  <2> QED
    BY <1>0, <2>1 DEF Typed
<1>7. \A x \in Slaves : job[x] # None => job[x] \in Msgs /\ q'[job[x]] = q[job[x]]
  BY <1>0, <1>3, <1>5 DEF Typed
<1>8. \A x \in Slaves : fq[x] # None => fq[x] \in Msgs /\ q'[fq[x]] = q[fq[x]] /\ job[x] # None
  BY <1>0, <1>3, <1>5 DEF Typed, InHand, AtJob, AfterLink
<1>9. \A x \in Slaves : spc[x] \in AtJob => job[x] # None
  BY <1>0 DEF InHand
<1>10. Unread' /\ OnHead'
  <2>1. Unread'
    BY <1>0, <1>1, <1>3 DEF Placed, Unread
  <2>2. OnHead'
    BY <1>0, <1>1, <1>3, <1>5 DEF Placed, OnHead, New
  <2> QED
    BY <2>1, <2>2
<1>11. ASSUME NEW x \in Exports PROVE AtCur(x)'
  <2>1. CASE x = e
    BY <1>1, <1>2, <1>3, <1>4, <1>5, <1>6, <2>1 DEF New, AtCur
  <2>2. CASE x # e
    <3>1. cur[x] # None => cur[x] \in Msgs /\ cur[x] # m
      BY <1>0, <1>5 DEF Typed
    <3> QED
      BY <1>0, <1>1, <1>3, <1>6, <2>2, <3>1 DEF Placed, AtCur, New
  <2> QED
    BY <2>1, <2>2
<1>12. ASSUME NEW x \in Exports PROVE OnWork(x)'
  BY <1>0, <1>1, <1>3, <1>5 DEF Placed, OnWork
<1>13. ASSUME NEW x \in Exports PROVE Shutting(x)'
  <2>1. \A s \in Slaves : spc[s] = "link" => job[s] # None
    BY <1>9 DEF AtJob
  <2>2. Shutting(x)
    BY <1>0 DEF Placed
  <2>3. epc'[x] \in {"shutw", "exfree", "done"} => epc'[x] = epc[x]
    BY <1>6
  <2>4. \A y \in Msgs : In(y, head) => q'[y] = q[y]
    BY <1>3, <1>5
  <2> QED
    BY <1>1, <1>7, <2>1, <2>2, <2>3, <2>4 DEF Shutting
<1>14. ASSUME NEW x \in Slaves PROVE AtLink(x)' /\ AtWork(x)' /\ AtFlush(x)'
  <2>1. AtLink(x) /\ AtWork(x) /\ AtFlush(x)
    BY <1>0 DEF Placed
  <2>2. AtLink(x)'
    BY <1>1, <1>5, <1>6, <1>7, <1>9, <2>1 DEF AtLink, New, AtJob
  <2>3. AtWork(x)'
    BY <1>1, <1>7, <1>9, <2>1 DEF AtWork, AtJob
  <2>4. AtFlush(x)'
    BY <1>1, <1>5, <1>6, <1>7, <1>8, <2>1 DEF AtFlush, FlushOf, New
  <2> QED
    BY <2>2, <2>3, <2>4
<1>15. ASSUME NEW x \in Msgs PROVE OnFlush(x)'
  <2>0. OnFlush(x)
    BY <1>0 DEF Placed
  <2>1. \A y \in Msgs : q'[y].flush = q[y].flush /\ q'[y].slave = q[y].slave
    BY <1>3
  <2>2. ASSUME NEW f \in Msgs, In(f, q[x].flush) PROVE FlushOf(f, x)'
    <3>1. f # m /\ x # m
      BY <1>4, <1>5, <2>2 DEF In
    <3>2. FlushOf(f, x)
      BY <2>0, <2>2 DEF OnFlush
    <3> QED
      BY <1>1, <1>3, <1>6, <3>1, <3>2 DEF FlushOf, New
  <2> QED
    BY <1>1, <2>0, <2>1, <2>2 DEF OnFlush
<1>16. ASSUME NEW x \in Msgs, q'[x].shut
       PROVE  q'[x].export \in Exports /\ epc'[q'[x].export] \in {"exfree", "done"}
  BY <1>0, <1>1, <1>3, <1>4, <1>6, <1>16 DEF Placed
<1> QED
  BY <1>10, <1>11, <1>12, <1>13, <1>14, <1>15, <1>16 DEF Placed

\* Exqs are freed that nothing leads to any more.
LEMMA FreedPlaced ==
    ASSUME Inv, NEW F \in SUBSET Msgs, q' = FreeAll(F, q),
           \A m \in Msgs : m \notin F => answered'[m] = answered[m],
           \A m \in F : q[m].st # "unread",
           Distinct(head'), \A m \in Msgs : In(m, head') => In(m, head) /\ m \notin F,
           \A e \in Exports :
               /\ cur'[e] = None \/ (cur'[e] = cur[e] /\ cur[e] \notin F)
               /\ cur'[e] # None => /\ epc'[e] = "queue" => epc[e] = "queue"
                                    /\ epc'[e] \in {"flushq", "flushw"} => epc[e] \in {"flushq", "flushw"}
               /\ Distinct(work'[e])
               /\ work[e] = << >> => work'[e] = << >>
               /\ \A m \in Msgs : In(m, work'[e]) => In(m, work[e]) /\ m \notin F
               /\ \A m \in Msgs : In(m, work[e]) /\ m \notin F => In(m, work'[e])
               /\ epc'[e] \in {"exfree", "done"} <=> epc[e] \in {"exfree", "done"}
               /\ epc'[e] \in {"shutw", "exfree", "done"} =>
                     \/ epc[e] \in {"shutw", "exfree", "done"}
                     \/ /\ \A m \in Msgs : In(m, head') => q[m].export # e
                        /\ \A s \in Slaves : spc[s] = "link" => q[job[s]].export # e,
           \A s \in Slaves :
               /\ spc'[s] \in AtJob =>
                     /\ job'[s] = job[s] /\ job[s] \notin F
                     /\ spc'[s] = spc[s] \/ (spc[s] = "freply" /\ spc'[s] = "replied")
               /\ job'[s] = job[s] \/ job[s] \in F
               /\ fq'[s] = None \/ (fq'[s] = fq[s] /\ fq[s] \notin F),
           \A m \in Msgs : m \notin F => \A f \in F : ~In(f, q[m].flush),
           Base'
    PROVE  Placed'
<1>0. Base /\ Typed /\ Placed /\ InHand
  BY DEF Inv, Base
<1>1. q \in [Msgs -> Exq]
  BY <1>0 DEF Typed
<1>2. \A m \in Msgs : m \notin F => q'[m] = q[m] /\ answered'[m] = answered[m]
  BY <1>1, FreeFields
<1>3. \A m \in F : /\ q'[m].st = "freed" /\ q'[m].flush = << >> /\ q'[m].export = q[m].export
                   /\ q'[m].shut = q[m].shut
  BY <1>1, FreeFields
<1>4. \A x \in Slaves : spc[x] \in AtJob => job[x] # None /\ job[x] \in Msgs
  BY <1>0 DEF InHand, Typed
<1>5. \A x \in Slaves : fq[x] # None => fq[x] \in Msgs /\ spc[x] = "freply"
  BY <1>0 DEF InHand, Typed
<1>6. \A x \in Slaves : spc'[x] \in AtJob => spc[x] \in AtJob
  BY DEF AtJob, AfterLink
<1>7. \A x \in Slaves : fq'[x] # None => spc'[x] = "freply"
  BY DEF Base, InHand
<1>10. Unread' /\ OnHead'
  <2>1. Unread'
    BY <1>0, <1>2, <1>3 DEF Placed, Unread
  <2>2. OnHead'
    BY <1>0, <1>2 DEF Placed, OnHead, New
  <2> QED
    BY <2>1, <2>2
<1>11. ASSUME NEW x \in Exports PROVE AtCur(x)'
  <2>1. CASE cur'[x] = None
    BY <2>1 DEF AtCur
  <2>2. CASE cur'[x] # None
    <3>1. cur'[x] = cur[x] /\ cur[x] \in Msgs /\ cur[x] \notin F
      BY <1>0, <2>2 DEF Typed
    <3>2. /\ epc'[x] = "queue" => epc[x] = "queue"
          /\ epc'[x] \in {"flushq", "flushw"} => epc[x] \in {"flushq", "flushw"}
          /\ ~In(cur[x], head) => ~In(cur[x], head')
      BY <2>2, <3>1
    <3>3. AtCur(x)
      BY <1>0 DEF Placed
    <3> QED
      BY <1>2, <2>2, <3>1, <3>2, <3>3 DEF AtCur, New
  <2> QED
    BY <2>1, <2>2
<1>12. ASSUME NEW x \in Exports PROVE OnWork(x)'
  <2>1. Distinct(work'[x])
    OBVIOUS
  <2>2. ASSUME NEW m \in Msgs, In(m, work'[x])
        PROVE  /\ q'[m].export = x /\ ~q'[m].shut
               /\ q'[m].slave # None /\ job'[q'[m].slave] = m
    <3>1. In(m, work[x]) /\ m \notin F
      BY <2>2
    <3>2. /\ q[m].export = x /\ ~q[m].shut
          /\ q[m].slave # None /\ job[q[m].slave] = m
      BY <1>0, <3>1 DEF Placed, OnWork
    <3>3. q[m].slave \in Slaves
      BY <1>1, <3>2, ExqFields
    <3> QED
      BY <1>2, <3>1, <3>2, <3>3
  <2> QED
    BY <2>1, <2>2 DEF OnWork
<1>13. ASSUME NEW x \in Exports PROVE Shutting(x)'
  <2>1. Shutting(x)
    BY <1>0 DEF Placed
  <2>2. \A m \in Msgs : In(m, head') => In(m, head) /\ q'[m] = q[m]
    BY <1>2
  <2>3. \A s \in Slaves : spc'[s] = "link" => /\ spc[s] = "link" /\ job'[s] = job[s]
                                              /\ q'[job[s]] = q[job[s]]
    BY <1>2, <1>4 DEF AtJob
  <2>4. epc'[x] \in {"exfree", "done"} => work'[x] = << >>
    BY <2>1 DEF Shutting
  <2>5. ASSUME epc'[x] \in {"shutw", "exfree", "done"}
        PROVE  /\ \A m \in Msgs : In(m, head') => q'[m].export # x
               /\ \A s \in Slaves : spc'[s] = "link" => q'[job'[s]].export # x
    <3>1. CASE epc[x] \in {"shutw", "exfree", "done"}
      BY <2>1, <2>2, <2>3, <3>1 DEF Shutting
    <3>2. CASE epc[x] \notin {"shutw", "exfree", "done"}
      BY <2>2, <2>3, <2>5, <3>2
    <3> QED
      BY <3>1, <3>2
  <2> QED
    BY <2>4, <2>5 DEF Shutting
<1>14. ASSUME NEW x \in Slaves PROVE AtLink(x)' /\ AtWork(x)' /\ AtFlush(x)'
  <2>1. AtLink(x) /\ AtWork(x) /\ AtFlush(x)
    BY <1>0 DEF Placed
  <2>2. \A y \in Exports : cur'[y] = None \/ cur'[y] = cur[y]
    OBVIOUS
  <2>3. AtLink(x)'
    <3> SUFFICES ASSUME spc'[x] = "link" PROVE AtLink(x)'
      BY DEF AtLink
    <3>1. /\ spc[x] = "link" /\ job'[x] = job[x] /\ job[x] \in Msgs /\ job[x] # None
          /\ q'[job[x]] = q[job[x]] /\ answered'[job[x]] = answered[job[x]]
      BY <1>2, <1>4 DEF AtJob
    <3>2. ~In(job[x], head')
      BY <2>1, <3>1 DEF AtLink
    <3> QED
      BY <2>1, <2>2, <3>1, <3>2 DEF AtLink, New
  <2>4. AtWork(x)'
    <3> SUFFICES ASSUME spc'[x] \in AfterLink PROVE AtWork(x)'
      BY DEF AtWork
    <3>1. /\ spc[x] \in AfterLink /\ job'[x] = job[x] /\ job[x] \in Msgs
          /\ q'[job[x]] = q[job[x]] /\ answered'[job[x]] = answered[job[x]]
          /\ job[x] \notin F
          /\ spc'[x] = spc[x] \/ (spc[x] = "freply" /\ spc'[x] = "replied")
      BY <1>2, <1>4 DEF AtJob, AfterLink
    <3>2. q[job[x]].export \in Exports
      BY <1>1, <2>1, <3>1, ExqFields DEF AtWork
    <3>3. In(job[x], work[q[job[x]].export]) => In(job[x], work'[q[job[x]].export])
      BY <3>1, <3>2
    <3> QED
      BY <2>1, <3>1, <3>3 DEF AtWork
  <2>5. AtFlush(x)'
    <3> SUFFICES ASSUME fq'[x] # None PROVE AtFlush(x)'
      BY DEF AtFlush
    <3>1. /\ fq'[x] = fq[x] /\ fq[x] \in Msgs
          /\ q'[fq[x]] = q[fq[x]] /\ answered'[fq[x]] = answered[fq[x]]
      BY <1>2, <1>5
    <3>2. job'[x] = job[x] /\ q'[job[x]] = q[job[x]]
      BY <1>2, <1>4, <1>7 DEF AtJob, AfterLink
    <3>3. FlushOf(fq[x], job[x]) /\ fq[x] # None /\ \A y \in Slaves : fq[y] = fq[x] => y = x
      BY <2>1, <3>1 DEF AtFlush
    <3>4. \A y \in Slaves : fq'[y] = fq[x] => y = x
      BY <3>3
    <3>5. \A y \in Exports : cur'[y] # fq[x]
      BY <2>2, <3>3 DEF FlushOf
    <3> QED
      BY <3>1, <3>2, <3>3, <3>4, <3>5 DEF AtFlush, FlushOf, New
  <2> QED
    BY <2>3, <2>4, <2>5
<1>15. ASSUME NEW x \in Msgs PROVE OnFlush(x)'
  <2>0. OnFlush(x)
    BY <1>0 DEF Placed
  <2>1. CASE x \in F
    BY <1>3, <2>1 DEF OnFlush, In, Distinct
  <2>2. CASE x \notin F
    <3>1. q'[x] = q[x]
      BY <1>2, <2>2
    <3>2. q[x].flush # << >> => q[x].slave \in Slaves
      BY <1>1, <2>0, ExqFields DEF OnFlush
    <3>3. q'[x].flush # << >> => q'[x].slave # None /\ job'[q'[x].slave] = x
      BY <2>0, <2>2, <3>1, <3>2 DEF OnFlush
    <3>4. ASSUME NEW f \in Msgs, In(f, q[x].flush)
          PROVE  /\ FlushOf(f, x)'
                 /\ \A s \in Slaves : fq'[s] # f
                 /\ \A n \in Msgs : In(f, q'[n].flush) => n = x
      <4>1. f \notin F /\ q'[f] = q[f] /\ answered'[f] = answered[f] /\ f # None
        BY <1>2, <2>2, <3>4, ExportfsAssumption
      <4>2. FlushOf(f, x) /\ \A s \in Slaves : fq[s] # f
        BY <2>0, <3>4 DEF OnFlush
      <4>3. \A y \in Exports : cur'[y] # f
        BY <4>1, <4>2 DEF FlushOf
      <4>4. \A n \in Msgs : In(f, q'[n].flush) => In(f, q[n].flush)
        BY <1>2, <1>3 DEF In
      <4>5. \A n \in Msgs : In(f, q[n].flush) => n = x
        BY <2>0, <3>4 DEF OnFlush
      <4> QED
        BY <3>1, <4>1, <4>2, <4>3, <4>4, <4>5 DEF FlushOf, New
    <3> QED
      BY <2>0, <3>1, <3>3, <3>4 DEF OnFlush
  <2> QED
    BY <2>1, <2>2
<1>16. ASSUME NEW x \in Msgs, q'[x].shut
       PROVE  q'[x].export \in Exports /\ epc'[q'[x].export] \in {"exfree", "done"}
  BY <1>0, <1>2, <1>3, <1>16 DEF Placed
<1> QED
  BY <1>10, <1>11, <1>12, <1>13, <1>14, <1>15, <1>16 DEF Placed

\* Of those that are in one place, what is at hand in another is not.
LEMMA Apart ==
    ASSUME Inv
    PROVE  /\ \A m \in Msgs : New(m) => /\ \A s \in Slaves : spc[s] \in AfterLink => job[s] # m
                                        /\ \A e \in Exports : ~In(m, work[e])
           /\ \A e \in Exports : cur[e] # None =>
                 /\ \A x \in Exports : cur[x] = cur[e] => x = e
                 /\ \A s \in Slaves : (spc[s] \in AtJob => job[s] # cur[e]) /\ fq[s] # cur[e]
                 /\ \A m \in Msgs : ~In(cur[e], q[m].flush)
           /\ \A m \in Msgs : In(m, head) =>
                 /\ \A e \in Exports : cur[e] # m
                 /\ \A s \in Slaves : (spc[s] \in AtJob => job[s] # m) /\ fq[s] # m
                 /\ \A n \in Msgs : ~In(m, q[n].flush)
           /\ \A s \in Slaves : spc[s] \in AtJob =>
                 /\ q[job[s]].type = "T" /\ job[s] \in Msgs
                 /\ \A x \in Slaves : spc[x] \in AtJob /\ job[x] = job[s] => x = s
<1>0. Base /\ Typed /\ Placed /\ InHand
  BY DEF Inv, Base
<1>1. \A m \in Msgs : New(m) => /\ \A s \in Slaves : spc[s] \in AfterLink => job[s] # m
                                /\ \A e \in Exports : ~In(m, work[e])
  <2> SUFFICES ASSUME NEW m \in Msgs, New(m)
               PROVE  /\ \A s \in Slaves : spc[s] \in AfterLink => job[s] # m
                      /\ \A e \in Exports : ~In(m, work[e])
    OBVIOUS
  <2>1. q[m].slave = None
    BY DEF New
  <2> QED
    BY <1>0, <2>1, ExportfsAssumption DEF Placed, AtWork, OnWork
<1>2. \A s \in Slaves : spc[s] \in AtJob <=> spc[s] = "link" \/ spc[s] \in AfterLink
  BY DEF AtJob
<1>3. ASSUME NEW e \in Exports, cur[e] # None
      PROVE  /\ \A x \in Exports : cur[x] = cur[e] => x = e
             /\ \A s \in Slaves : (spc[s] \in AtJob => job[s] # cur[e]) /\ fq[s] # cur[e]
             /\ \A m \in Msgs : ~In(cur[e], q[m].flush)
  <2>1. cur[e] \in Msgs /\ New(cur[e])
    BY <1>0, <1>3 DEF Placed, AtCur, Typed
  <2>2. \A x \in Exports : cur[x] = cur[e] => x = e
    BY <1>0, <1>3 DEF Placed, AtCur
  <2>3. \A s \in Slaves : spc[s] \in AtJob => job[s] # cur[e]
    BY <1>0, <1>1, <1>2, <2>1 DEF Placed, AtLink
  <2>4. \A s \in Slaves : fq[s] # cur[e]
    BY <1>0, <1>3 DEF Placed, AtFlush, FlushOf
  <2>5. \A m \in Msgs : ~In(cur[e], q[m].flush)
    BY <1>0, <2>1 DEF Placed, OnFlush, FlushOf
  <2> QED
    BY <2>2, <2>3, <2>4, <2>5
<1>4. ASSUME NEW m \in Msgs, In(m, head)
      PROVE  /\ \A e \in Exports : cur[e] # m
             /\ \A s \in Slaves : (spc[s] \in AtJob => job[s] # m) /\ fq[s] # m
             /\ \A n \in Msgs : ~In(m, q[n].flush)
  <2>1. New(m) /\ q[m].type = "T"
    BY <1>0, <1>4 DEF Placed, OnHead
  <2>2. \A e \in Exports : cur[e] # m
    BY <1>0, <1>4, ExportfsAssumption DEF Placed, AtCur
  <2>3. \A s \in Slaves : spc[s] \in AtJob => job[s] # m
    BY <1>0, <1>1, <1>2, <1>4, <2>1 DEF Placed, AtLink
  <2>4. \A s \in Slaves : fq[s] # m
    BY <1>0, <2>1, ExportfsAssumption DEF Placed, AtFlush, FlushOf
  <2>5. \A n \in Msgs : ~In(m, q[n].flush)
    BY <1>0, <2>1 DEF Placed, OnFlush, FlushOf
  <2> QED
    BY <2>2, <2>3, <2>4, <2>5
<1>5. ASSUME NEW s \in Slaves, spc[s] \in AtJob
      PROVE  /\ q[job[s]].type = "T" /\ job[s] \in Msgs
             /\ \A x \in Slaves : spc[x] \in AtJob /\ job[x] = job[s] => x = s
  <2>1. q[job[s]].type = "T" /\ job[s] \in Msgs
    BY <1>0, <1>2, <1>5 DEF Placed, AtLink, AtWork, InHand, Typed
  <2>2. ASSUME NEW x \in Slaves, spc[x] \in AtJob, job[x] = job[s] PROVE x = s
    <3>1. CASE spc[s] \in AfterLink
      <4>1. spc[x] \in AfterLink
        BY <1>0, <1>1, <1>2, <2>1, <2>2, <3>1 DEF Placed, AtLink
      <4> QED
        BY <1>0, <2>2, <3>1, <4>1 DEF Placed, AtWork
    <3>2. CASE spc[s] = "link"
      <4>1. spc[x] = "link"
        BY <1>0, <1>1, <1>2, <2>1, <2>2, <3>2 DEF Placed, AtLink
      <4> QED
        BY <1>0, <3>2, <4>1 DEF InHand
    <3> QED
      BY <1>2, <1>5, <3>1, <3>2
  <2> QED
    BY <2>1, <2>2
<1> QED
  BY <1>1, <1>3, <1>4, <1>5

LEMMA FlushedPlaced ==
    ASSUME Inv, NEW e \in Exports, exflushedQueue(e) PROVE Placed'
<1>0. Base /\ Typed /\ Placed /\ InHand /\ epc[e] = "flushq"
  BY DEF Inv, Base, exflushedQueue
<1>1. UNCHANGED <<spc, cur, job, fq, work, answered>>
  BY DEF exflushedQueue, history
<1>2. CASE epc' = [epc EXCEPT ![e] = "flushw"] /\ UNCHANGED <<head, q>>
  <2>1. epc'[e] = "flushw" /\ \A x \in Exports : x # e => epc'[x] = epc[x]
    BY <1>0, <1>2 DEF Typed
  <2>2. Unread' /\ OnHead'
    BY <1>0, <1>1, <1>2 DEF Placed, Unread, OnHead, New
  <2>3. ASSUME NEW x \in Exports PROVE AtCur(x)' /\ OnWork(x)' /\ Shutting(x)'
    <3>1. AtCur(x) /\ OnWork(x) /\ Shutting(x)
      BY <1>0 DEF Placed
    <3>2. AtCur(x)'
      BY <1>0, <1>1, <1>2, <2>1, <3>1 DEF AtCur, New
    <3>3. OnWork(x)' /\ Shutting(x)'
      BY <1>0, <1>1, <1>2, <2>1, <3>1 DEF OnWork, Shutting
    <3> QED
      BY <3>2, <3>3
  <2>4. ASSUME NEW s \in Slaves PROVE AtLink(s)' /\ AtWork(s)' /\ AtFlush(s)'
    BY <1>0, <1>1, <1>2 DEF Placed, AtLink, AtWork, AtFlush, FlushOf, New
  <2>5. ASSUME NEW m \in Msgs PROVE OnFlush(m)'
    BY <1>0, <1>1, <1>2 DEF Placed, OnFlush, FlushOf, New
  <2>6. ASSUME NEW m \in Msgs, q'[m].shut
        PROVE  q'[m].export \in Exports /\ epc'[q'[m].export] \in {"exfree", "done"}
    BY <1>0, <1>2, <2>1, <2>6 DEF Placed
  <2> QED
    BY <2>2, <2>3, <2>4, <2>5, <2>6 DEF Placed
<1>3. CASE \E n \in 1 .. Len(head) :
              /\ head' = RemoveAt(head, n)
              /\ q' = FreeAll(Freed(head[n]), q)
              /\ epc' = [epc EXCEPT ![e] = "reply"]
  <2>1. PICK n \in 1 .. Len(head) : /\ head' = RemoveAt(head, n)
                                    /\ q' = FreeAll(Freed(head[n]), q)
                                    /\ epc' = [epc EXCEPT ![e] = "reply"]
    BY <1>3
  <2> DEFINE m == head[n]
  <2>2. m \in Msgs /\ In(m, head)
    BY <1>0 DEF In, Typed
  <2>3. New(m)
    BY <1>0, <2>2 DEF Placed, OnHead
  <2>4. Freed(m) = {m}
    <3>1. q[m].flush = << >>
      BY <2>3 DEF New
    <3> QED
      BY <3>1 DEF Freed, ToSet
  <2>5. Distinct(head') /\ \A x \in Msgs : In(x, head') => In(x, head) /\ x # m
    BY <1>0, <2>1, RemoveAtDistinct DEF Placed, OnHead, Typed
  <2>6. epc'[e] = "reply" /\ \A x \in Exports : x # e => epc'[x] = epc[x]
    BY <1>0, <2>1 DEF Typed
  <2>7. q' = FreeAll({m}, q) /\ q[m].st = "live"
    BY <2>1, <2>3, <2>4 DEF New
  <2>8. Base'
    BY <1>0, ExportBase
  <2> HIDE DEF m
  <2>9. \A x \in Exports : cur[x] # m /\ ~In(m, work[x])
    BY <2>2, <2>3, Apart
  <2>10. \A s \in Slaves : (spc[s] \in AtJob => job[s] # m) /\ fq[s] # m
    BY <2>2, Apart
  <2>11. \A x \in Msgs : ~In(m, q[x].flush)
    BY <2>2, Apart
  <2>12. \A x \in Exports : Distinct(work[x])
    BY <1>0 DEF Placed, OnWork
  <2>13. {m} \in SUBSET Msgs
    BY <2>2
  <2> QED
    BY <1>0, <1>1, <2>5, <2>6, <2>7, <2>8, <2>9, <2>10, <2>11, <2>12, <2>13, FreedPlaced
<1> QED
  BY <1>0, <1>2, <1>3, QueueFound

LEMMA ReplyPlaced ==
    ASSUME Inv, NEW e \in Exports, ereply(e) PROVE Placed'
<1>0. Base /\ Typed /\ Placed /\ InHand /\ epc[e] = "reply"
  BY DEF Inv, Base, ereply, egoto
<1> DEFINE m == cur[e]
<1>1. /\ UNCHANGED <<spc, job, fq, head, work>>
      /\ epc' = [epc EXCEPT ![e] = "read"] /\ cur' = [cur EXCEPT ![e] = None]
      /\ q' = FreeAll(Freed(m), q)
      /\ exreply(m)
  BY DEF ereply, egoto, queue
<1>2. m \in Msgs /\ m # None
  BY <1>0 DEF InHand, AtMsg, Typed
<1>3. New(m) /\ ~In(m, head)
  BY <1>0, <1>2 DEF Placed, AtCur
<1>4. Freed(m) = {m}
  <2>1. q[m].flush = << >>
    BY <1>3 DEF New
  <2> QED
    BY <2>1 DEF Freed, ToSet
<1>5. q' = FreeAll({m}, q) /\ q[m].st = "live"
  BY <1>1, <1>3, <1>4 DEF New
<1>6. \A x \in Msgs : x # m => answered'[x] = answered[x]
  BY <1>0, <1>1 DEF exreply, Typed
<1>7. /\ cur'[e] = None /\ epc'[e] = "read"
      /\ \A x \in Exports : x # e => cur'[x] = cur[x] /\ epc'[x] = epc[x] /\ cur[x] # m
  BY <1>0, <1>1, <1>2, Apart DEF Typed
<1>8. Base'
  BY <1>0, ExportBase
<1>9. \A s \in Slaves : (spc[s] \in AtJob => job[s] # m) /\ fq[s] # m
  BY <1>2, Apart
<1>10. \A x \in Msgs : ~In(m, q[x].flush)
  BY <1>2, Apart
<1>11. \A x \in Exports : Distinct(work[x]) /\ ~In(m, work[x])
  BY <1>0, <1>2, <1>3, Apart DEF Placed, OnWork
<1>12. {m} \in SUBSET Msgs /\ Distinct(head)
  BY <1>0, <1>2 DEF Placed, OnHead
<1>13. UNCHANGED <<spc, job, fq, head, work>>
  BY <1>1
<1> HIDE DEF m
<1> QED
  BY <1>0, <1>3, <1>5, <1>6, <1>7, <1>8, <1>9, <1>10, <1>11, <1>12, <1>13, FreedPlaced

LEMMA ShutQueuePlaced ==
    ASSUME Inv, NEW e \in Exports, exshutdownQueue(e) PROVE Placed'
<1>0. Base /\ Typed /\ Placed /\ InHand /\ epc[e] = "shutq" /\ exql = None
  BY DEF Inv, Base, exshutdownQueue, egoto
<1> DEFINE F == {m \in ToSet(head) : q[m].export = e}
<1>1. /\ UNCHANGED <<spc, cur, job, fq, work, answered>>
      /\ epc' = [epc EXCEPT ![e] = "shutw"]
      /\ q' = FreeAll(F, q) /\ head' = Without(head, F)
  BY DEF exshutdownQueue, egoto, history
<1>2. /\ F \in SUBSET Msgs
      /\ \A m \in Msgs : m \in F <=> In(m, head) /\ q[m].export = e
  BY <1>0, ToSetIn DEF Typed, ToSet
<1> HIDE DEF F
<1>3. Distinct(head') /\ \A m \in Msgs : In(m, head') <=> In(m, head) /\ m \notin F
  BY <1>0, <1>1, WithoutFacts DEF Placed, OnHead, Typed
<1>4. \A m \in F : /\ m \in Msgs /\ q[m].st = "live" /\ m # None
                   /\ \A x \in Exports : cur[x] # m /\ ~In(m, work[x])
                   /\ \A s \in Slaves : (spc[s] \in AtJob => job[s] # m) /\ fq[s] # m
                   /\ \A x \in Msgs : ~In(m, q[x].flush)
  <2> SUFFICES ASSUME NEW m \in F
               PROVE  /\ m \in Msgs /\ q[m].st = "live" /\ m # None
                      /\ \A x \in Exports : cur[x] # m /\ ~In(m, work[x])
                      /\ \A s \in Slaves : (spc[s] \in AtJob => job[s] # m) /\ fq[s] # m
                      /\ \A x \in Msgs : ~In(m, q[x].flush)
    OBVIOUS
  <2>1. m \in Msgs /\ In(m, head) /\ m # None
    BY <1>2, ExportfsAssumption
  <2>2. New(m)
    BY <1>0, <2>1 DEF Placed, OnHead
  <2> QED
    BY <2>1, <2>2, Apart DEF New
<1>5. epc'[e] = "shutw" /\ \A x \in Exports : x # e => epc'[x] = epc[x]
  BY <1>0, <1>1 DEF Typed
<1>6. /\ \A m \in Msgs : In(m, head') => q[m].export # e
      /\ \A s \in Slaves : spc[s] # "link"
  <2>1. \A m \in Msgs : In(m, head') => q[m].export # e
    BY <1>2, <1>3
  <2>2. \A s \in Slaves : spc[s] # "link"
    BY <1>0, ExportfsAssumption DEF InHand
  <2> QED
    BY <2>1, <2>2
<1>7. Base'
  BY <1>0, ExportBase
<1>8. \A x \in Exports : Distinct(work[x])
  BY <1>0 DEF Placed, OnWork
<1>9. \A x \in Exports : cur[x] # None => epc[x] \in AtMsg /\ x # e
  BY <1>0 DEF InHand, AtMsg
<1> QED
  BY <1>0, <1>1, <1>2, <1>3, <1>4, <1>5, <1>6, <1>7, <1>8, <1>9, FreedPlaced

LEMMA FreplyPlaced ==
    ASSUME Inv, NEW s \in Slaves, reply(s) \/ freply(s) PROVE Placed'
<1>0. Base /\ Typed /\ Placed /\ InHand
  BY DEF Inv, Base
<1>1. /\ Base' /\ job[s] \in Msgs /\ spc' = [spc EXCEPT ![s] = "replied"]
      /\ UNCHANGED <<epc, cur, job, head, work>>
  BY <1>0, SendEffect
<1>2. spc'[s] = "replied" /\ \A x \in Slaves : x # s => spc'[x] = spc[x]
  BY <1>0, <1>1 DEF Typed
<1>3. CASE spc[s] = "reply" /\ exreply(job[s]) /\ UNCHANGED <<fq, q>>
  <2> DEFINE m == job[s]
  <2>1. \A x \in Msgs : x # m => answered'[x] = answered[x]
    BY <1>0, <1>3 DEF exreply, Typed
  <2>2. spc[s] \in AfterLink /\ spc[s] \in AtJob
    BY <1>3 DEF AtJob, AfterLink
  <2>3. /\ q[m].slave = s /\ ~New(m) /\ q[m].st = "live"
        /\ \A x \in Slaves : x # s /\ spc[x] \in AtJob => job[x] # m
    BY <1>0, <1>1, <2>2, Apart DEF Placed, AtWork
  <2>4. q[m].slave # None
    BY <2>3, ExportfsAssumption
  <2> HIDE DEF m
  <2>5. \A x \in Msgs : New(x) => answered'[x] = answered[x]
    BY <2>1, <2>3
  <2>6. Unread' /\ OnHead'
    BY <1>0, <1>1, <1>3, <2>1, <2>3, <2>5 DEF Placed, Unread, OnHead, New
  <2>7. ASSUME NEW x \in Exports PROVE AtCur(x)' /\ OnWork(x)' /\ Shutting(x)'
    <3>1. AtCur(x) /\ OnWork(x) /\ Shutting(x) /\ (cur[x] # None => cur[x] \in Msgs)
      BY <1>0 DEF Placed, Typed
    <3>2. AtCur(x)'
      <4>1. cur[x] # None => New(cur[x]) /\ answered'[cur[x]] = answered[cur[x]]
        BY <2>5, <3>1 DEF AtCur
      <4> QED
        BY <1>1, <1>3, <3>1, <4>1 DEF AtCur, New
    <3>3. OnWork(x)' /\ Shutting(x)'
      BY <1>1, <1>2, <1>3, <3>1 DEF OnWork, Shutting
    <3> QED
      BY <3>2, <3>3
  <2>8. ASSUME NEW x \in Slaves PROVE AtLink(x)' /\ AtWork(x)' /\ AtFlush(x)'
    <3>1. /\ AtLink(x) /\ AtWork(x) /\ AtFlush(x) /\ (spc[x] \in AtJob => job[x] \in Msgs)
          /\ fq[x] # None => fq[x] \in Msgs
      BY <1>0 DEF Placed, Typed, InHand
    <3>2. AtLink(x)'
      <4>1. spc'[x] = "link" => /\ spc[x] = "link" /\ AtLink(x) /\ New(job[x])
                                /\ answered'[job[x]] = answered[job[x]]
        BY <1>2, <2>5, <3>1 DEF AtLink, AtJob
      <4> QED
        BY <1>1, <1>3, <4>1 DEF AtLink, New
    <3>3. AtWork(x)'
      <4>1. CASE x = s
        BY <1>1, <1>2, <1>3, <2>2, <3>1, <4>1 DEF AtWork
      <4>2. CASE x # s
        <5>1. spc'[x] = spc[x]
          BY <1>2, <4>2
        <5>2. spc[x] \in AfterLink => answered'[job[x]] = answered[job[x]]
          BY <2>1, <2>3, <3>1, <4>2 DEF AtJob
        <5> QED
          BY <1>1, <1>3, <3>1, <5>1, <5>2 DEF AtWork, AfterLink
      <4> QED
        BY <4>1, <4>2
    <3>4. AtFlush(x)'
      <4>1. fq[x] # None => New(fq[x]) /\ answered'[fq[x]] = answered[fq[x]]
        BY <2>5, <3>1 DEF AtFlush, FlushOf
      <4> QED
        BY <1>1, <1>3, <3>1, <4>1 DEF AtFlush, FlushOf, New
    <3> QED
      BY <3>2, <3>3, <3>4
  <2>9. ASSUME NEW x \in Msgs PROVE OnFlush(x)'
    <3>1. OnFlush(x)
      BY <1>0 DEF Placed
    <3>2. ASSUME NEW f \in Msgs, FlushOf(f, x) PROVE FlushOf(f, x)'
      BY <1>1, <1>3, <2>5, <3>2 DEF FlushOf, New
    <3> QED
      BY <1>1, <1>3, <3>1, <3>2 DEF OnFlush
  <2>10. ASSUME NEW x \in Msgs, q'[x].shut
         PROVE  q'[x].export \in Exports /\ epc'[q'[x].export] \in {"exfree", "done"}
    BY <1>0, <1>1, <1>3, <2>10 DEF Placed
  <2> QED
    BY <2>6, <2>7, <2>8, <2>9, <2>10 DEF Placed
<1>4. CASE /\ spc[s] = "freply" /\ fq[s] \in Msgs /\ exreply(fq[s])
           /\ fq' = [fq EXCEPT ![s] = None]
           /\ q' = FreeAll({fq[s]}, q)
  <2> DEFINE f == fq[s]
  <2>1. \A x \in Msgs : x # f => answered'[x] = answered[x]
    BY <1>0, <1>4 DEF exreply, Typed
  <2>2. f \in Msgs /\ f # None
    BY <1>4, ExportfsAssumption
  <2>3. /\ New(f) /\ q[f].type = "Tflush" /\ \A x \in Exports : cur[x] # f
        /\ \A x \in Slaves : fq[x] = f => x = s
    BY <1>0, <2>2 DEF Placed, AtFlush, FlushOf
  <2>4. ~In(f, head) /\ \A x \in Slaves : spc[x] \in AtJob => job[x] # f
    BY <1>0, <2>2, <2>3, Apart DEF Placed, OnHead
  <2>5. \A x \in Exports : ~In(f, work[x]) /\ Distinct(work[x])
    BY <1>0, <2>2, <2>3, Apart DEF Placed, OnWork
  <2>6. \A m \in Msgs : ~In(f, q[m].flush)
    BY <1>0, <2>2 DEF Placed, OnFlush
  <2>7. \A x \in Slaves : fq'[x] = None \/ (fq'[x] = fq[x] /\ fq[x] # f)
    BY <1>0, <1>4, <2>3 DEF Typed
  <2>8. {f} \in SUBSET Msgs /\ q[f].st = "live" /\ Distinct(head)
    BY <1>0, <2>2, <2>3 DEF New, Placed, OnHead
  <2>9. q' = FreeAll({f}, q)
    BY <1>4
  <2> HIDE DEF f
  <2>10. \A x \in Slaves :
            /\ spc'[x] \in AtJob =>
                  /\ job'[x] = job[x] /\ job[x] # f
                  /\ spc'[x] = spc[x] \/ (spc[x] = "freply" /\ spc'[x] = "replied")
            /\ job'[x] = job[x]
    <3>1. spc[s] \in AtJob
      BY <1>4 DEF AtJob, AfterLink
    <3> QED
      BY <1>1, <1>2, <1>4, <2>4, <3>1
  <2> QED
    BY <1>0, <1>1, <2>1, <2>3, <2>4, <2>5, <2>6, <2>7, <2>8, <2>9, <2>10, FreedPlaced
<1> QED
  BY <1>0, <1>3, <1>4, SendEffect

LEMMA UnlinkPlaced ==
    ASSUME Inv, NEW s \in Slaves, unlink(s) PROVE Placed'
<1>0. Base /\ Typed /\ Placed /\ InHand /\ spc[s] = "unlink"
  BY DEF Inv, Base, unlink, sgoto
<1> DEFINE m == job[s]
           F == Freed(m)
<1>1. spc[s] \in AfterLink /\ spc[s] \in AtJob
  BY <1>0 DEF AtJob, AfterLink
<1>2. /\ q[m].st = "live" /\ q[m].type = "T" /\ q[m].slave = s /\ q[m].export # None
      /\ m \in Msgs /\ OnFlush(m)
      /\ \A x \in Slaves : spc[x] \in AtJob /\ job[x] = m => x = s
  BY <1>0, <1>1, Apart DEF Placed, AtWork
<1>3. q[m].flush \in Seq(Msgs)
  BY <1>0, <1>2, ExqFields DEF Typed
<1>4. /\ F \in SUBSET Msgs /\ m \in F
      /\ \A f \in Msgs : f \in F <=> f = m \/ In(f, q[m].flush)
  <2>1. \A f : f \in ToSet(q[m].flush) <=> In(f, q[m].flush)
    BY <1>3, ToSetIn
  <2>2. ToSet(q[m].flush) \subseteq Msgs
    BY <1>3 DEF ToSet
  <2> QED
    BY <1>2, <2>1, <2>2 DEF Freed
<1>5. /\ Base' /\ q[m].export \in Exports
      /\ spc' = [spc EXCEPT ![s] = "idle"]
      /\ job' = [job EXCEPT ![s] = None]
      /\ q' = FreeAll(F, q)
      /\ work' = [work EXCEPT ![q[m].export] = Without(work[q[m].export], {m})]
      /\ UNCHANGED <<epc, cur, fq, head, answered>>
  BY <1>0, <1>2, UnlinkEffect
<1> HIDE DEF F, m
<1>6. /\ spc'[s] = "idle" /\ job'[s] = None
      /\ \A x \in Slaves : x # s => spc'[x] = spc[x] /\ job'[x] = job[x]
  BY <1>0, <1>5 DEF Typed
<1>7. \A f \in F : /\ f \in Msgs /\ f # None /\ f # m => FlushOf(f, m) /\ q[f].type = "Tflush"
                   /\ q[f].st = "live"
  BY <1>2, <1>4, ExportfsAssumption DEF OnFlush, FlushOf, New
<1>8. \A f \in F : /\ ~In(f, head)
                   /\ \A e \in Exports : cur[e] # f
                   /\ \A x \in Slaves : spc[x] \in AtJob /\ x # s => job[x] # f
                   /\ \A x \in Slaves : fq[x] # f
                   /\ \A n \in Msgs : n \notin F => ~In(f, q[n].flush)
                   /\ \A e \in Exports : f # m => ~In(f, work[e])
  <2> SUFFICES ASSUME NEW f \in F
               PROVE  /\ ~In(f, head)
                      /\ \A e \in Exports : cur[e] # f
                      /\ \A x \in Slaves : spc[x] \in AtJob /\ x # s => job[x] # f
                      /\ \A x \in Slaves : fq[x] # f
                      /\ \A n \in Msgs : n \notin F => ~In(f, q[n].flush)
                      /\ \A e \in Exports : f # m => ~In(f, work[e])
    OBVIOUS
  <2>1. CASE f = m
    <3>1. ~New(m)
      BY <1>2, ExportfsAssumption DEF New
    <3>2. m # None /\ m \in Msgs /\ ~In(m, head) /\ \A e \in Exports : cur[e] # m
      BY <1>0, <1>2, <3>1, ExportfsAssumption DEF Placed, OnHead, AtCur
    <3>3. \A x \in Slaves : fq[x] # m
      BY <1>0, <3>1, <3>2 DEF Placed, AtFlush, FlushOf
    <3>4. \A n \in Msgs : ~In(m, q[n].flush)
      BY <1>0, <3>1, <3>2 DEF Placed, OnFlush, FlushOf
    <3> QED
      BY <1>2, <2>1, <3>2, <3>3, <3>4
  <2>2. CASE f # m
    <3>1. f \in Msgs /\ In(f, q[m].flush) /\ FlushOf(f, m) /\ q[f].type = "Tflush" /\ New(f)
      BY <1>2, <1>4, <1>7, <2>2 DEF OnFlush, FlushOf
    <3>2. ~In(f, head) /\ \A x \in Slaves : spc[x] \in AtJob => job[x] # f
      BY <1>0, <3>1, Apart DEF Placed, OnHead
    <3>3. \A e \in Exports : cur[e] # f /\ ~In(f, work[e])
      BY <3>1, Apart DEF FlushOf
    <3>4. /\ \A x \in Slaves : fq[x] # f
          /\ \A n \in Msgs : In(f, q[n].flush) => n = m
      BY <1>2, <3>1 DEF OnFlush
    <3> QED
      BY <1>4, <3>2, <3>3, <3>4
  <2> QED
    BY <2>1, <2>2
<1>9. \A e \in Exports :
         /\ Distinct(work'[e])
         /\ work[e] = << >> => work'[e] = << >>
         /\ \A x \in Msgs : In(x, work'[e]) => In(x, work[e]) /\ x \notin F
         /\ \A x \in Msgs : In(x, work[e]) /\ x \notin F => In(x, work'[e])
  <2> SUFFICES ASSUME NEW e \in Exports
               PROVE  /\ Distinct(work'[e])
                      /\ work[e] = << >> => work'[e] = << >>
                      /\ \A x \in Msgs : In(x, work'[e]) => In(x, work[e]) /\ x \notin F
                      /\ \A x \in Msgs : In(x, work[e]) /\ x \notin F => In(x, work'[e])
    OBVIOUS
  <2>1. OnWork(e) /\ work[e] \in Seq(Msgs)
    BY <1>0 DEF Placed, Typed
  <2>2. CASE e = q[m].export
    <3>1. work'[e] = Without(work[e], {m})
      BY <1>0, <1>5, <2>2 DEF Typed
    <3>2. /\ \A x : In(x, work'[e]) <=> In(x, work[e]) /\ x # m
          /\ Distinct(work'[e]) /\ work'[e] \in Seq(Msgs)
      BY <2>1, <3>1, WithoutFacts DEF OnWork
    <3>3. work[e] = << >> => work'[e] = << >>
      <4>1. ASSUME work[e] = << >>, work'[e] # << >> PROVE FALSE
        <5>1. In(work'[e][1], work'[e])
          BY <3>2, <4>1 DEF In
        <5>2. In(work'[e][1], work[e])
          BY <3>2, <5>1
        <5> QED
          BY <4>1, <5>2 DEF In
      <4> QED
        BY <4>1
    <3> QED
      BY <1>4, <1>8, <3>2, <3>3
  <2>3. CASE e # q[m].export
    <3>1. work'[e] = work[e] /\ ~In(m, work[e])
      BY <1>0, <1>2, <1>5, <2>1, <2>3 DEF Typed, OnWork
    <3> QED
      BY <1>8, <2>1, <3>1 DEF OnWork
  <2> QED
    BY <2>2, <2>3
<1>10. \A x \in Slaves :
          /\ spc'[x] \in AtJob =>
                /\ job'[x] = job[x] /\ job[x] \notin F /\ spc'[x] = spc[x]
          /\ job'[x] = job[x] \/ job[x] \in F
          /\ fq'[x] = fq[x] /\ fq[x] \notin F
  <2>1. spc'[s] \notin AtJob
    BY <1>6 DEF AtJob, AfterLink
  <2>2. job[s] \in F
    BY <1>4 DEF m
  <2> QED
    BY <1>5, <1>6, <1>8, <2>1, <2>2
<1>11. Distinct(head)
  BY <1>0 DEF Placed, OnHead
<1>12. \A x \in Msgs : x \notin F => \A f \in F : ~In(f, q[x].flush)
  BY <1>8
<1>13. \A f \in F : q[f].st # "unread"
  BY <1>7
<1>14. \A x \in Msgs : In(x, head') => In(x, head) /\ x \notin F
  BY <1>5, <1>8
<1>15. \A e \in Exports : cur'[e] = cur[e] /\ cur[e] \notin F /\ epc'[e] = epc[e]
  BY <1>5, <1>8
<1> QED
  BY <1>4, <1>5, <1>9, <1>10, <1>11, <1>12, <1>13, <1>14, <1>15, FreedPlaced

\* The slave s goes on with its request; it may take the first of its flushes.
LEMMA JobPlaced ==
    ASSUME Inv, NEW s \in Slaves, NEW m, m = job[s], spc[s] \in AfterLink,
           spc'[s] \in AfterLink, \A x \in Slaves : x # s => spc'[x] = spc[x],
           UNCHANGED <<epc, cur, job, head, work, answered>>,
           \A x \in Msgs : x # m => q'[x] = q[x],
           q'[m].st = q[m].st, q'[m].type = q[m].type, q'[m].slave = q[m].slave,
           q'[m].export = q[m].export, q'[m].tag = q[m].tag, q'[m].shut = q[m].shut,
           q'[m].busy <=> spc'[s] \in {"call", "called"},
           q'[m].finished <=> spc'[s] = "unlink",
           spc'[s] \in {"call", "called", "reply"} => spc[s] \in {"call", "called", "reply"},
           \/ fq' = fq /\ q'[m].flush = q[m].flush
           \/ /\ q[m].flush # << >> /\ fq'[s] = Head(q[m].flush)
              /\ \A x \in Slaves : x # s => fq'[x] = fq[x]
              /\ q'[m].flush = Tail(q[m].flush)
    PROVE  Placed'
<1>0. Base /\ Typed /\ Placed /\ InHand
  BY DEF Inv, Base
<1>1. spc[s] \in AtJob
  BY DEF AtJob
<1>2. /\ AtWork(s) /\ q[m].st = "live" /\ q[m].type = "T" /\ q[m].slave = s /\ q[m].slave # None
      /\ m \in Msgs /\ OnFlush(m)
      /\ \A x \in Slaves : spc[x] \in AtJob /\ job[x] = m => x = s
  BY <1>0, <1>1, Apart, ExportfsAssumption DEF Placed, AtWork
<1>3. q[m].flush \in Seq(Msgs)
  BY <1>0, <1>2, ExqFields DEF Typed
<1>4. spc'[s] \in AfterLink /\ \A x \in Slaves : x # s => spc'[x] = spc[x]
  OBVIOUS
<1>5. \A x \in Msgs : New(x) => x # m /\ q'[x] = q[x] /\ answered'[x] = answered[x]
  BY <1>2 DEF New
<1>6. /\ UNCHANGED <<epc, cur, job, head, work, answered>>
      /\ \A x \in Msgs : /\ q'[x].export = q[x].export /\ q'[x].type = q[x].type
                         /\ q'[x].shut = q[x].shut /\ q'[x].slave = q[x].slave
                         /\ q'[x].st = q[x].st /\ q'[x].tag = q[x].tag
  OBVIOUS
<1>7. Unread' /\ OnHead'
  <2>1. Unread'
    BY <1>0, <1>2, <1>6 DEF Placed, Unread
  <2>2. OnHead'
    BY <1>0, <1>5, <1>6 DEF Placed, OnHead, New
  <2> QED
    BY <2>1, <2>2
<1>8. ASSUME NEW e \in Exports PROVE AtCur(e)' /\ OnWork(e)' /\ Shutting(e)'
  <2>1. AtCur(e) /\ OnWork(e) /\ Shutting(e) /\ (cur[e] # None => cur[e] \in Msgs)
    BY <1>0 DEF Placed, Typed
  <2>2. AtCur(e)'
    BY <1>5, <1>6, <2>1 DEF AtCur, New
  <2>3. OnWork(e)'
    BY <1>6, <2>1 DEF OnWork
  <2>4. \A x \in Slaves : spc'[x] = "link" => spc[x] = "link" /\ job[x] \in Msgs
    BY <1>0, <1>4 DEF AfterLink, InHand, AtJob, Typed
  <2>5. Shutting(e)'
    BY <1>6, <2>1, <2>4 DEF Shutting
  <2> QED
    BY <2>2, <2>3, <2>5
<1>9. ASSUME NEW x \in Slaves PROVE AtLink(x)' /\ AtWork(x)'
  <2>1. AtLink(x) /\ AtWork(x) /\ (spc[x] \in AtJob => job[x] \in Msgs)
    BY <1>0 DEF Placed, Typed, InHand
  <2>2. AtLink(x)'
    <3>1. spc'[x] = "link" => spc[x] = "link" /\ x # s /\ job[x] \in Msgs
      BY <1>4, <2>1 DEF AfterLink, AtJob
    <3> QED
      BY <1>5, <1>6, <2>1, <3>1 DEF AtLink, New
  <2>3. AtWork(x)'
    <3>1. CASE x = s
      BY <1>2, <1>4, <1>6, <3>1 DEF AtWork
    <3>2. CASE x # s
      <4>1. spc'[x] \in AfterLink => job[x] \in Msgs /\ job[x] # m /\ q'[job[x]] = q[job[x]]
        BY <1>2, <1>4, <2>1, <3>2 DEF AtJob
      <4> QED
        BY <1>4, <1>6, <2>1, <3>2, <4>1 DEF AtWork
    <3> QED
      BY <3>1, <3>2
  <2> QED
    BY <2>2, <2>3
<1>10. ASSUME NEW f \in Msgs, NEW n \in Msgs, FlushOf(f, n) PROVE FlushOf(f, n)'
  BY <1>5, <1>6, <1>10 DEF FlushOf, New
<1>11. ASSUME NEW x \in Msgs, q'[x].shut
       PROVE  q'[x].export \in Exports /\ epc'[q'[x].export] \in {"exfree", "done"}
  BY <1>0, <1>6, <1>11 DEF Placed
<1>12. CASE fq' = fq /\ q'[m].flush = q[m].flush
  <2>1. \A x \in Msgs : q'[x].flush = q[x].flush
    BY <1>12
  <2>2. ASSUME NEW x \in Slaves PROVE AtFlush(x)'
    <3>1. /\ AtFlush(x) /\ (fq[x] # None => fq[x] \in Msgs /\ job[x] \in Msgs)
      BY <1>0 DEF Placed, Typed, InHand, AtJob, AfterLink
    <3>2. fq[x] # None => FlushOf(fq[x], job[x])
      BY <3>1 DEF AtFlush
    <3>3. \A f \in Msgs, n \in Msgs : FlushOf(f, n) => FlushOf(f, n)'
      BY <1>10
    <3>4. \A f \in Msgs, n \in Msgs : FlushOf(f, n)' <=>
             /\ q'[f].st = "live" /\ q'[f].export # None /\ q'[f].slave = None
             /\ q'[f].flush = << >>
             /\ ~q'[f].busy /\ ~q'[f].finished /\ ~q'[f].shut /\ ~q'[f].err
             /\ answered'[f] = 0 /\ q'[f].type = "Tflush"
             /\ q'[f].export = q'[n].export /\ q'[f].oldtag = q'[n].tag
             /\ \A e \in Exports : cur'[e] # f
      BY DEF FlushOf, New
    <3> QED
      BY <1>6, <1>12, <3>1, <3>2, <3>3, <3>4 DEF AtFlush, FlushOf, New
  <2>3. ASSUME NEW x \in Msgs PROVE OnFlush(x)'
    <3>1. OnFlush(x)
      BY <1>0 DEF Placed
    <3> QED
      BY <1>6, <1>10, <1>12, <2>1, <3>1 DEF OnFlush
  <2> QED
    BY <1>7, <1>8, <1>9, <1>11, <2>2, <2>3 DEF Placed
<1>13. CASE /\ q[m].flush # << >> /\ fq'[s] = Head(q[m].flush)
            /\ \A x \in Slaves : x # s => fq'[x] = fq[x]
            /\ q'[m].flush = Tail(q[m].flush)
  <2>0. PICK h \in Msgs : h = Head(q[m].flush)
    BY <1>3, <1>13, TailFacts
  <2>1. /\ In(h, q[m].flush) /\ Distinct(q'[m].flush)
        /\ \A x \in Msgs : In(x, q'[m].flush) <=> In(x, q[m].flush) /\ x # h
    BY <1>2, <1>3, <1>13, <2>0, LeaveQueue DEF OnFlush
  <2>2. fq'[s] = h /\ \A x \in Slaves : x # s => fq'[x] = fq[x]
    BY <1>13, <2>0
  <2>3. /\ FlushOf(h, m) /\ \A x \in Slaves : fq[x] # h
        /\ \A n \in Msgs : In(h, q[n].flush) => n = m
    BY <1>2, <2>1 DEF OnFlush
  <2>4. ASSUME NEW x \in Slaves PROVE AtFlush(x)'
    <3>1. CASE x = s
      <4>1. FlushOf(h, m)'
        BY <1>2, <1>10, <2>1, <2>3
      <4>2. \A y \in Slaves : fq'[y] = h => y = s
        BY <2>2, <2>3
      <4> QED
        BY <1>6, <2>2, <3>1, <4>1, <4>2 DEF AtFlush, FlushOf, New
    <3>2. CASE x # s
      <4>1. /\ AtFlush(x) /\ (fq[x] # None => fq[x] \in Msgs /\ job[x] \in Msgs)
            /\ fq'[x] = fq[x]
        BY <1>0, <2>2, <3>2 DEF Placed, Typed, InHand, AtJob, AfterLink
      <4>2. fq[x] # None => FlushOf(fq[x], job[x])
        BY <4>1 DEF AtFlush
      <4>3. \A f \in Msgs, n \in Msgs : FlushOf(f, n) =>
               /\ q'[f].st = "live" /\ q'[f].export # None /\ q'[f].slave = None
               /\ q'[f].flush = << >>
               /\ ~q'[f].busy /\ ~q'[f].finished /\ ~q'[f].shut /\ ~q'[f].err
               /\ answered'[f] = 0 /\ q'[f].type = "Tflush"
               /\ q'[f].export = q'[n].export /\ q'[f].oldtag = q'[n].tag
               /\ \A e \in Exports : cur'[e] # f
        BY <1>10 DEF FlushOf, New
      <4>4. fq[x] # None => \A y \in Slaves : fq'[y] = fq[x] => y = x
        BY <2>2, <2>3, <3>2, <4>1 DEF AtFlush
      <4> QED
        BY <1>6, <4>1, <4>2, <4>3, <4>4 DEF AtFlush, FlushOf, New
    <3> QED
      BY <3>1, <3>2
  <2>5. \A n \in Msgs : \A f \in Msgs : In(f, q'[n].flush) => In(f, q[n].flush) /\ f # h
    <3>1. \A n \in Msgs : n # m => q'[n].flush = q[n].flush
      BY <1>6
    <3> QED
      BY <2>1, <2>3, <3>1
  <2>6. ASSUME NEW x \in Msgs PROVE OnFlush(x)'
    <3>1. OnFlush(x)
      BY <1>0 DEF Placed
    <3>2. Distinct(q'[x].flush)
      BY <2>1, <3>1 DEF OnFlush
    <3>3. q'[x].flush # << >> => q'[x].slave # None /\ job'[q'[x].slave] = x
      BY <1>2, <1>6, <3>1 DEF OnFlush
    <3>4. ASSUME NEW f \in Msgs, In(f, q'[x].flush)
          PROVE  /\ FlushOf(f, x)'
                 /\ \A y \in Slaves : fq'[y] # f
                 /\ \A n \in Msgs : In(f, q'[n].flush) => n = x
      <4>1. In(f, q[x].flush) /\ f # h
        BY <2>5, <3>4
      <4>2. /\ FlushOf(f, x) /\ \A y \in Slaves : fq[y] # f
            /\ \A n \in Msgs : In(f, q[n].flush) => n = x
        BY <3>1, <4>1 DEF OnFlush
      <4>3. FlushOf(f, x)'
        BY <1>10, <4>2
      <4> QED
        BY <2>2, <2>5, <4>1, <4>2, <4>3
    <3> QED
      BY <3>2, <3>3, <3>4 DEF OnFlush
  <2> QED
    BY <1>7, <1>8, <1>9, <1>11, <2>4, <2>6 DEF Placed
<1> QED
  BY <1>12, <1>13

LEMMA FcallPlaced ==
    ASSUME Inv, NEW s \in Slaves, (\E err \in BOOLEAN : fcallReturns(s, err))
    PROVE  Placed'
<1>0. PICK m : m = job[s]
  OBVIOUS
<1>1. Base /\ Typed /\ Placed /\ q \in [Msgs -> Exq]
  BY DEF Inv, Base, Typed
<1>2. /\ m \in Msgs /\ spc[s] = "call" /\ spc' = [spc EXCEPT ![s] = "called"]
      /\ \A x \in Msgs : x # m => q'[x] = q[x]
      /\ \E err \in BOOLEAN : q'[m] = [q[m] EXCEPT !.err = err]
      /\ UNCHANGED <<epc, cur, job, fq, head, work, answered>>
  <2>1. Base
    BY DEF Inv
  <2>2. m \in Msgs /\ \A x \in Msgs : x # m => q'[x] = q[x]
    BY <1>0, <2>1, FcallEffect
  <2>3. spc[s] = "call" /\ spc' = [spc EXCEPT ![s] = "called"]
    BY <1>0, <2>1, FcallEffect
  <2>4. \E err \in BOOLEAN : q'[m] = [q[m] EXCEPT !.err = err]
    BY <1>0, <2>1, FcallEffect
  <2>5. UNCHANGED <<epc, cur, job, fq, head, work, answered>>
    BY <1>0, <2>1, FcallEffect
  <2> QED
    BY <2>2, <2>3, <2>4, <2>5
<1>3. /\ q'[m].st = q[m].st /\ q'[m].type = q[m].type /\ q'[m].slave = q[m].slave
      /\ q'[m].export = q[m].export /\ q'[m].tag = q[m].tag /\ q'[m].shut = q[m].shut
      /\ q'[m].busy = q[m].busy /\ q'[m].finished = q[m].finished /\ q'[m].flush = q[m].flush
  BY <1>1, <1>2 DEF Exq
<1>4. q[m].busy /\ ~q[m].finished
  BY <1>0, <1>1, <1>2 DEF Placed, AtWork, AfterLink
<1>5. /\ spc[s] \in AfterLink /\ spc'[s] = "called" /\ spc'[s] \in AfterLink
      /\ \A x \in Slaves : x # s => spc'[x] = spc[x]
  BY <1>1, <1>2 DEF AfterLink, Base, Typed
<1>6. /\ q'[m].busy <=> spc'[s] \in {"call", "called"}
      /\ q'[m].finished <=> spc'[s] = "unlink"
      /\ spc'[s] \in {"call", "called", "reply"} => spc[s] \in {"call", "called", "reply"}
      /\ spc[s] \in AfterLink /\ spc'[s] \in AfterLink
      /\ fq' = fq /\ q'[m].flush = q[m].flush
  BY <1>2, <1>3, <1>4, <1>5
<1>7. /\ \A x \in Slaves : x # s => spc'[x] = spc[x]
      /\ \A x \in Msgs : x # m => q'[x] = q[x]
      /\ UNCHANGED <<epc, cur, job, head, work, answered>>
  BY <1>2, <1>5
<1> QED
  BY <1>0, <1>3, <1>6, <1>7, JobPlaced

LEMMA AnswerPlaced ==
    ASSUME Inv, NEW s \in Slaves, complete(s) \/ nextFlush(s)
    PROVE  Placed'
<1> DEFINE m == job[s]
<1>1. Base /\ Typed /\ Placed /\ q \in [Msgs -> Exq]
  BY DEF Inv, Base, Typed
<1>2. /\ m \in Msgs
      /\ ToReply(s, m) \/ ToFlush(s, m) \/ ToUnlink(s, m)
      /\ \A x \in Msgs : x # m => q'[x] = q[x]
      /\ UNCHANGED <<epc, cur, job, head, work, answered>>
  BY <1>1, AnswerEffect
<1>3. q[m] \in Exq
  BY <1>1, <1>2
<1>4. spc[s] \in {"called", "replied"} /\ spc[s] \in AfterLink
  BY <1>2 DEF ToReply, ToFlush, ToUnlink, AfterLink
<1>5. q[m].busy <=> spc[s] = "called"
  BY <1>1, <1>4 DEF Placed, AtWork
<1>6. ~q[m].finished
  BY <1>1, <1>4 DEF Placed, AtWork
<1> HIDE DEF m
<1>10. m = job[s]
  BY DEF m
<1>7. CASE ToReply(s, m)
  <2>1. /\ q'[m].st = q[m].st /\ q'[m].type = q[m].type /\ q'[m].slave = q[m].slave
        /\ q'[m].export = q[m].export /\ q'[m].tag = q[m].tag /\ q'[m].shut = q[m].shut
        /\ q'[m].finished = q[m].finished /\ q'[m].flush = q[m].flush /\ ~q'[m].busy
        /\ fq' = fq /\ spc' = [spc EXCEPT ![s] = "reply"] /\ spc[s] = "called"
    BY <1>3, <1>7 DEF Exq, ToReply
  <2>2. spc'[s] = "reply" /\ spc'[s] \in AfterLink /\ \A x \in Slaves : x # s => spc'[x] = spc[x]
    BY <1>1, <2>1 DEF AfterLink, Typed
  <2>3. UNCHANGED <<epc, cur, job, fq, head, work, answered>>
    BY <1>2, <2>1
  <2> QED
    BY <1>2, <1>4, <1>6, <1>10, <2>1, <2>2, <2>3, JobPlaced
<1>8. CASE ToFlush(s, m)
  <2>1. /\ q'[m].st = q[m].st /\ q'[m].type = q[m].type /\ q'[m].slave = q[m].slave
        /\ q'[m].export = q[m].export /\ q'[m].tag = q[m].tag /\ q'[m].shut = q[m].shut
        /\ q'[m].finished = q[m].finished /\ q'[m].flush = Tail(q[m].flush)
        /\ q'[m].busy = (spc[s] = "replied" /\ q[m].busy)
        /\ spc' = [spc EXCEPT ![s] = "freply"]
        /\ q[m].flush # << >> /\ fq' = [fq EXCEPT ![s] = Head(q[m].flush)]
    BY <1>3, <1>8 DEF Exq, ToFlush
  <2>2. ~q'[m].busy
    BY <1>4, <1>5, <2>1
  <2>3. spc'[s] = "freply" /\ spc'[s] \in AfterLink /\ \A x \in Slaves : x # s => spc'[x] = spc[x]
    BY <1>1, <2>1 DEF AfterLink, Typed
  <2>4. fq'[s] = Head(q[m].flush) /\ \A x \in Slaves : x # s => fq'[x] = fq[x]
    BY <1>1, <2>1 DEF Typed
  <2> QED
    BY <1>2, <1>4, <1>6, <1>10, <2>1, <2>2, <2>3, <2>4, JobPlaced
<1>9. CASE ToUnlink(s, m)
  <2>1. /\ q'[m].st = q[m].st /\ q'[m].type = q[m].type /\ q'[m].slave = q[m].slave
        /\ q'[m].export = q[m].export /\ q'[m].tag = q[m].tag /\ q'[m].shut = q[m].shut
        /\ q'[m].finished /\ q'[m].flush = q[m].flush
        /\ q'[m].busy = (spc[s] = "replied" /\ q[m].busy)
        /\ spc' = [spc EXCEPT ![s] = "unlink"] /\ fq' = fq
    BY <1>3, <1>9 DEF Exq, ToUnlink
  <2>2. ~q'[m].busy
    BY <1>4, <1>5, <2>1
  <2>3. spc'[s] = "unlink" /\ spc'[s] \in AfterLink /\ \A x \in Slaves : x # s => spc'[x] = spc[x]
    BY <1>1, <2>1 DEF AfterLink, Typed
  <2>4. UNCHANGED <<epc, cur, job, fq, head, work, answered>>
    BY <1>2, <2>1
  <2> QED
    BY <1>2, <1>4, <1>10, <2>1, <2>2, <2>3, <2>4, JobPlaced
<1> QED
  BY <1>2, <1>7, <1>8, <1>9

LEMMA EnqueuePlaced == ASSUME Inv, NEW e \in Exports, enqueue(e) PROVE Placed'
<1>0. Base /\ Typed /\ Placed /\ InHand /\ epc[e] = "queue"
  BY DEF Inv, Base, enqueue, egoto
<1>1. PICK m \in Msgs : m = cur[e]
  BY <1>0 DEF InHand, AtMsg, Typed
<1>2. /\ UNCHANGED <<spc, job, fq, q, work, answered>>
      /\ epc'[e] = "spawn" /\ cur'[e] = None
      /\ \A x \in Exports : x # e => epc'[x] = epc[x] /\ cur'[x] = cur[x]
      /\ head' = <<m>> \/ head' = head \/ head' = Append(head, m)
  <2>1. /\ epc' = [epc EXCEPT ![e] = "spawn"] /\ cur' = [cur EXCEPT ![e] = None]
        /\ UNCHANGED <<spc, job, fq, q, work, answered>>
        /\ head' = <<m>> \/ head' = head \/ head' = Append(head, m)
    BY <1>1 DEF enqueue, egoto, exports, history
  <2> QED
    BY <1>0, <2>1 DEF Typed
<1>3. /\ New(m) /\ q[m].type = "T" /\ q[m].export = e /\ ~In(m, head) /\ m # None
  BY <1>0, <1>1, ExportfsAssumption DEF Placed, AtCur
<1>4. /\ \A x \in Exports : x # e => cur[x] # m
      /\ \A s \in Slaves : (spc[s] \in AtJob => job[s] # m) /\ fq[s] # m
      /\ \A x \in Msgs : ~In(m, q[x].flush)
  BY <1>1, <1>3, Apart
<1>5. Distinct(head') /\ \A x \in Msgs : In(x, head') => In(x, head) \/ x = m
  <2>1. Distinct(head) /\ head \in Seq(Msgs)
    BY <1>0 DEF Placed, OnHead, Typed
  <2>2. CASE head' = <<m>>
    BY <2>2 DEF Distinct, In
  <2>3. CASE head' = Append(head, m)
    BY <1>3, <2>1, <2>3, JoinQueue
  <2> QED
    BY <1>2, <2>1, <2>2, <2>3
<1>6. Unread' /\ OnHead'
  BY <1>0, <1>2, <1>3, <1>5 DEF Placed, Unread, OnHead, New
<1>7. ASSUME NEW x \in Exports PROVE AtCur(x)' /\ OnWork(x)' /\ Shutting(x)'
  <2>1. AtCur(x) /\ OnWork(x) /\ Shutting(x) /\ (cur[x] # None => cur[x] \in Msgs)
    BY <1>0 DEF Placed, Typed
  <2>2. AtCur(x)'
    BY <1>2, <1>4, <1>5, <2>1 DEF AtCur, New
  <2>3. OnWork(x)'
    BY <1>2, <2>1 DEF OnWork
  <2>4. Shutting(x)'
    BY <1>2, <1>3, <1>5, <2>1 DEF Shutting
  <2> QED
    BY <2>2, <2>3, <2>4
<1>8. ASSUME NEW s \in Slaves PROVE AtLink(s)' /\ AtWork(s)' /\ AtFlush(s)'
  <2>1. AtLink(s) /\ AtWork(s) /\ AtFlush(s)
    BY <1>0 DEF Placed
  <2>2. AtLink(s)'
    <3>1. spc[s] = "link" => job[s] # m /\ job[s] \in Msgs
      BY <1>0, <1>4 DEF AtJob, InHand, Typed
    <3>2. \A x \in Exports : cur'[x] = None \/ cur'[x] = cur[x]
      BY <1>2
    <3>3. spc[s] = "link" => job[s] # None
      BY <1>0 DEF AtJob, InHand
    <3> QED
      BY <1>2, <1>5, <2>1, <3>1, <3>2, <3>3 DEF AtLink, New
  <2>3. AtWork(s)'
    BY <1>2, <2>1 DEF AtWork
  <2>4. AtFlush(s)'
    BY <1>2, <2>1 DEF AtFlush, FlushOf, New
  <2> QED
    BY <2>2, <2>3, <2>4
<1>9. ASSUME NEW x \in Msgs PROVE OnFlush(x)'
  <2>1. OnFlush(x)
    BY <1>0 DEF Placed
  <2>2. \A f \in Msgs : FlushOf(f, x) => FlushOf(f, x)'
    BY <1>2, ExportfsAssumption DEF FlushOf, New
  <2> QED
    BY <1>2, <2>1, <2>2 DEF OnFlush
<1>10. ASSUME NEW x \in Msgs, q'[x].shut
       PROVE  q'[x].export \in Exports /\ epc'[q'[x].export] \in {"exfree", "done"}
  BY <1>0, <1>2, <1>10 DEF Placed
<1> QED
  BY <1>6, <1>7, <1>8, <1>9, <1>10 DEF Placed

LEMMA TakePlaced == ASSUME Inv, NEW s \in Slaves, take(s), head # << >> PROVE Placed'
<1>0. Base /\ Typed /\ Placed /\ InHand /\ head \in Seq(Msgs) /\ Distinct(head)
  BY DEF Inv, Base, Typed, Placed, OnHead
<1>1. PICK m \in Msgs : m = Head(head)
  BY <1>0, TailFacts
<1>2. /\ UNCHANGED <<epc, cur, fq, q, work, answered>> /\ head' = Tail(head)
  BY DEF take, exports, history
<1>3. /\ spc[s] = "take" /\ spc'[s] = "link" /\ job'[s] = m
      /\ \A x \in Slaves : x # s => Idle(x) /\ job'[x] = job[x]
  BY <1>0, <1>1, TakeBase DEF take, Typed
<1>4. /\ In(m, head) /\ Distinct(head')
      /\ \A x \in Msgs : In(x, head') <=> In(x, head) /\ x # m
  BY <1>0, <1>1, <1>2, LeaveQueue
<1>5. New(m) /\ q[m].type = "T"
  BY <1>0, <1>4 DEF Placed, OnHead
<1>6. \A e \in Exports : cur[e] # m
  BY <1>4, Apart
<1>7. \A x \in Slaves : spc'[x] \in AtJob => x = s \/ (spc'[x] = spc[x] /\ job'[x] = job[x] /\ x # s)
  BY <1>3 DEF Idle
<1>8. Unread' /\ OnHead'
  BY <1>0, <1>2, <1>4 DEF Placed, Unread, OnHead, New
<1>9. ASSUME NEW x \in Exports PROVE AtCur(x)' /\ OnWork(x)' /\ Shutting(x)'
  <2>1. AtCur(x) /\ OnWork(x) /\ Shutting(x) /\ (cur[x] # None => cur[x] \in Msgs)
    BY <1>0 DEF Placed, Typed
  <2>2. AtCur(x)'
    BY <1>2, <1>4, <2>1 DEF AtCur, New
  <2>3. OnWork(x)'
    <3>1. ASSUME NEW y \in Msgs, In(y, work[x]) PROVE job'[q[y].slave] = y
      <4>1. q[y].slave # None /\ job[q[y].slave] = y /\ y # None
        BY <2>1, <3>1, ExportfsAssumption DEF OnWork
      <4>2. q[y].slave \in Slaves
        BY <1>0, <4>1, ExqFields DEF Typed
      <4>3. job[s] = None
        BY <1>0, <1>3 DEF InHand, AtJob, AfterLink
      <4> QED
        BY <1>3, <4>1, <4>2, <4>3
    <3> QED
      BY <1>2, <2>1, <3>1 DEF OnWork
  <2>4. Shutting(x)'
    <3>1. epc[x] \in {"shutw", "exfree", "done"} =>
             /\ q[m].export # x
             /\ \A y \in Slaves : spc'[y] = "link" => q[job'[y]].export # x
      BY <1>3, <1>4, <1>7, <2>1 DEF Shutting, AtJob
    <3> QED
      BY <1>2, <1>4, <2>1, <3>1 DEF Shutting
  <2> QED
    BY <2>2, <2>3, <2>4
<1>10. ASSUME NEW x \in Slaves PROVE AtLink(x)' /\ AtWork(x)' /\ AtFlush(x)'
  <2>1. AtLink(x) /\ AtWork(x) /\ AtFlush(x)
    BY <1>0 DEF Placed
  <2>2. AtLink(x)'
    <3>1. CASE x = s
      BY <1>2, <1>3, <1>4, <1>5, <1>6, <3>1 DEF AtLink, New
    <3>2. CASE x # s
      <4>1. spc'[x] = "link" => spc[x] = "link" /\ job'[x] = job[x] /\ job[x] \in Msgs
        BY <1>0, <1>7, <3>2 DEF AtJob, InHand, Typed
      <4> QED
        BY <1>2, <1>4, <2>1, <4>1 DEF AtLink, New
    <3> QED
      BY <3>1, <3>2
  <2>3. AtWork(x)'
    <3>1. spc'[x] \in AfterLink => spc'[x] = spc[x] /\ job'[x] = job[x]
      BY <1>3, <1>7 DEF AtJob, AfterLink
    <3> QED
      BY <1>2, <2>1, <3>1 DEF AtWork
  <2>4. AtFlush(x)'
    <3>1. fq[x] # None => job'[x] = job[x]
      BY <1>0, <1>3 DEF InHand
    <3> QED
      BY <1>2, <2>1, <3>1 DEF AtFlush, FlushOf, New
  <2> QED
    BY <2>2, <2>3, <2>4
<1>11. ASSUME NEW x \in Msgs PROVE OnFlush(x)'
  <2>1. OnFlush(x)
    BY <1>0 DEF Placed
  <2>2. ASSUME q[x].flush # << >> PROVE job'[q[x].slave] = x
    <3>1. q[x].slave # None /\ job[q[x].slave] = x /\ x # None
      BY <2>1, <2>2, ExportfsAssumption DEF OnFlush
    <3>2. q[x].slave \in Slaves
      BY <1>0, <3>1, ExqFields DEF Typed
    <3>3. job[s] = None
      BY <1>0, <1>3 DEF InHand, AtJob, AfterLink
    <3> QED
      BY <1>3, <3>1, <3>2, <3>3
  <2>3. \A f \in Msgs : FlushOf(f, x) => FlushOf(f, x)'
    BY <1>2 DEF FlushOf, New
  <2> QED
    BY <1>2, <2>1, <2>2, <2>3 DEF OnFlush
<1>12. ASSUME NEW x \in Msgs, q'[x].shut
       PROVE  q'[x].export \in Exports /\ epc'[q'[x].export] \in {"exfree", "done"}
  BY <1>0, <1>2, <1>12 DEF Placed
<1> QED
  BY <1>8, <1>9, <1>10, <1>11, <1>12 DEF Placed

LEMMA LinkPlaced == ASSUME Inv, NEW s \in Slaves, link(s) PROVE Placed'
<1>0. Base /\ Typed /\ Placed /\ InHand /\ spc[s] = "link" /\ spc[s] \in AtJob
  BY DEF Inv, Base, link, sgoto, AtJob
<1>1. PICK m \in Msgs : m = job[s]
  BY <1>0 DEF InHand, Typed
<1>2. New(m) /\ q[m].type = "T" /\ ~In(m, head) /\ \A e \in Exports : cur[e] # m
  BY <1>0, <1>1 DEF Placed, AtLink
<1>3. /\ q[m].export \in Exports /\ spc' = [spc EXCEPT ![s] = "call"]
      /\ work' = [work EXCEPT ![q[m].export] = <<m>> \o work[q[m].export]]
      /\ \A x \in Msgs : x # m => q'[x] = q[x]
      /\ q'[m] = [q[m] EXCEPT !.slave = s, !.busy = TRUE]
  <2>1. q[m].export # None
    BY <1>2 DEF New
  <2>2. q[m].export \in Exports /\ spc' = [spc EXCEPT ![s] = "call"]
    BY <1>0, <1>1, <2>1, LinkEffect
  <2>3. work' = [work EXCEPT ![q[m].export] = <<m>> \o work[q[m].export]]
    BY <1>0, <1>1, <2>1, LinkEffect
  <2>4. \A x \in Msgs : x # m => q'[x] = q[x]
    <3>1. q' = [q EXCEPT ![m].slave = s, ![m].busy = TRUE]
      BY <1>1 DEF link
    <3> QED
      BY <1>0, <1>1, <3>1 DEF Typed
  <2>5. q'[m] = [q[m] EXCEPT !.slave = s, !.busy = TRUE]
    BY <1>0, <1>1, <2>1, LinkEffect
  <2> QED
    BY <2>2, <2>3, <2>4, <2>5
<1>4. UNCHANGED <<epc, cur, job, fq, head, answered>>
  BY DEF link, history
<1>5. /\ q'[m].slave = s /\ q'[m].busy /\ q'[m].st = q[m].st /\ q'[m].type = q[m].type
      /\ q'[m].export = q[m].export /\ q'[m].tag = q[m].tag /\ q'[m].flush = q[m].flush
      /\ q'[m].finished = q[m].finished /\ q'[m].shut = q[m].shut
  BY <1>0, <1>3 DEF Typed, Exq
<1>6. spc'[s] = "call" /\ \A x \in Slaves : x # s => spc'[x] = spc[x]
  BY <1>0, <1>3 DEF Typed
<1>7. /\ \A x \in Slaves : fq[x] # m
      /\ \A x \in Slaves : spc[x] \in AtJob /\ x # s => job[x] # m
      /\ \A e \in Exports : ~In(m, work[e])
      /\ \A x \in Msgs : ~In(m, q[x].flush)
  <2>1. \A x \in Slaves : fq[x] # m
    BY <1>0, <1>2, ExportfsAssumption DEF Placed, AtFlush, FlushOf
  <2>2. \A x \in Msgs : ~In(m, q[x].flush)
    BY <1>0, <1>2 DEF Placed, OnFlush, FlushOf
  <2>3. \A e \in Exports : ~In(m, work[e])
    BY <1>2, Apart
  <2>4. \A x \in Slaves : spc[x] \in AtJob /\ job[x] = job[s] => x = s
    BY <1>0, Apart
  <2> QED
    BY <1>1, <2>1, <2>2, <2>3, <2>4
<1>8. /\ work'[q[m].export] = <<m>> \o work[q[m].export]
      /\ \A e \in Exports : e # q[m].export => work'[e] = work[e]
  BY <1>0, <1>3 DEF Typed
<1>9. \A e \in Exports :
         /\ Distinct(work'[e])
         /\ \A x \in Msgs : In(x, work'[e]) <=> In(x, work[e]) \/ (x = m /\ e = q[m].export)
  <2> SUFFICES ASSUME NEW e \in Exports
               PROVE  /\ Distinct(work'[e])
                      /\ \A x \in Msgs : In(x, work'[e]) <=> In(x, work[e]) \/ (x = m /\ e = q[m].export)
    OBVIOUS
  <2>1. work[e] \in Seq(Msgs) /\ Distinct(work[e])
    BY <1>0 DEF Typed, Placed, OnWork
  <2>2. CASE e = q[m].export
    <3>1. work'[e] = <<m>> \o work[e] /\ ~In(m, work[e])
      BY <1>7, <1>8, <2>2
    <3> QED
      BY <2>1, <2>2, <3>1, PushQueue
  <2>3. CASE e # q[m].export
    BY <1>8, <2>1, <2>3
  <2> QED
    BY <2>2, <2>3
<1>10. Unread' /\ OnHead'
  <2>1. Unread'
    <3>1. q'[m].st # "unread"
      BY <1>2, <1>5 DEF New
    <3>2. \A x \in Msgs : q'[x].st = "unread" => q'[x] = q[x]
      BY <1>3, <3>1
    <3> QED
      BY <1>0, <1>4, <3>2 DEF Placed, Unread
  <2>2. OnHead'
    BY <1>0, <1>2, <1>3, <1>4 DEF Placed, OnHead, New
  <2> QED
    BY <2>1, <2>2
<1>11. ASSUME NEW x \in Exports PROVE AtCur(x)' /\ OnWork(x)' /\ Shutting(x)'
  <2>1. AtCur(x) /\ OnWork(x) /\ Shutting(x) /\ (cur[x] # None => cur[x] \in Msgs)
    BY <1>0 DEF Placed, Typed
  <2>2. AtCur(x)'
    BY <1>2, <1>3, <1>4, <2>1 DEF AtCur, New
  <2>3. OnWork(x)'
    <3>1. ASSUME NEW y \in Msgs, In(y, work'[x])
          PROVE  /\ q'[y].export = x /\ ~q'[y].shut /\ q'[y].slave # None
                 /\ job'[q'[y].slave] = y
      <4>1. CASE y = m
        <5>1. x = q[m].export
          BY <1>7, <1>9, <3>1, <4>1
        <5> QED
          BY <1>1, <1>2, <1>4, <1>5, <4>1, <5>1, ExportfsAssumption DEF New
      <4>2. CASE y # m
        BY <1>3, <1>4, <1>9, <2>1, <3>1, <4>2 DEF OnWork
      <4> QED
        BY <4>1, <4>2
    <3> QED
      BY <1>9, <3>1 DEF OnWork
  <2>4. Shutting(x)'
    <3>1. \A y \in Slaves : spc'[y] = "link" =>
             spc[y] = "link" /\ job[y] \in Msgs /\ q'[job[y]] = q[job[y]]
      BY <1>0, <1>3, <1>6, <1>7 DEF AtJob, InHand, Typed
    <3>2. \A y \in Msgs : In(y, head) => q'[y] = q[y]
      BY <1>2, <1>3
    <3>3. epc[x] \in {"exfree", "done"} => work'[x] = work[x]
      BY <1>0, <1>1, <1>8, <2>1 DEF Shutting
    <3> QED
      BY <1>4, <2>1, <3>1, <3>2, <3>3 DEF Shutting
  <2> QED
    BY <2>2, <2>3, <2>4
<1>12. ASSUME NEW x \in Slaves PROVE AtLink(x)' /\ AtWork(x)' /\ AtFlush(x)'
  <2>1. AtLink(x) /\ AtWork(x) /\ AtFlush(x) /\ (spc[x] \in AtJob => job[x] \in Msgs)
    BY <1>0 DEF Placed, InHand, Typed
  <2>2. AtLink(x)'
    <3>1. spc'[x] = "link" => /\ spc[x] = "link" /\ job[x] \in Msgs /\ q'[job[x]] = q[job[x]]
      BY <1>3, <1>6, <1>7, <2>1 DEF AtJob
    <3> QED
      BY <1>4, <2>1, <3>1 DEF AtLink, New
  <2>3. AtWork(x)'
    <3>1. CASE x = s
      <4>1. In(m, work'[q[m].export])
        BY <1>3, <1>9
      <4> QED
        BY <1>1, <1>2, <1>4, <1>5, <1>6, <3>1, <4>1 DEF AtWork, New
    <3>2. CASE x # s
      <4>1. spc'[x] \in AfterLink => /\ spc'[x] = spc[x] /\ job[x] \in Msgs
                                     /\ q'[job[x]] = q[job[x]]
        BY <1>3, <1>6, <1>7, <2>1, <3>2 DEF AtJob
      <4>2. spc'[x] \in AfterLink => q[job[x]].export \in Exports
        BY <1>0, <2>1, <4>1, ExqFields DEF Typed, AtWork
      <4> QED
        BY <1>4, <1>9, <2>1, <4>1, <4>2 DEF AtWork
    <3> QED
      BY <3>1, <3>2
  <2>4. AtFlush(x)'
    <3>1. fq[x] # None => /\ fq[x] \in Msgs /\ q'[fq[x]] = q[fq[x]]
                          /\ spc[x] = "freply" /\ job[x] \in Msgs /\ job[x] # m
      BY <1>0, <1>3, <1>7 DEF Typed, InHand, AtJob, AfterLink
    <3>2. fq[x] # None => q'[job[x]] = q[job[x]]
      BY <1>3, <3>1
    <3> QED
      BY <1>4, <2>1, <3>1, <3>2 DEF AtFlush, FlushOf, New
  <2> QED
    BY <2>2, <2>3, <2>4
<1>13. ASSUME NEW x \in Msgs PROVE OnFlush(x)'
  <2>1. OnFlush(x) /\ \A y \in Msgs : q'[y].flush = q[y].flush
    BY <1>0, <1>3, <1>5 DEF Placed
  <2>2. x = m => q[x].flush = << >>
    BY <1>2 DEF New
  <2>3. q'[x].flush # << >> => q'[x].slave # None /\ job'[q'[x].slave] = x
    BY <1>3, <1>4, <2>1, <2>2 DEF OnFlush
  <2>4. ASSUME NEW f \in Msgs, FlushOf(f, x), In(f, q[x].flush) PROVE FlushOf(f, x)'
    <3>1. f # m /\ x # m
      BY <1>7, <2>2, <2>4 DEF In
    <3> QED
      BY <1>3, <1>4, <2>4, <3>1 DEF FlushOf, New
  <2> QED
    BY <1>4, <2>1, <2>3, <2>4 DEF OnFlush
<1>14. ASSUME NEW x \in Msgs, q'[x].shut
       PROVE  q'[x].export \in Exports /\ epc'[q'[x].export] \in {"exfree", "done"}
  BY <1>0, <1>3, <1>4, <1>5, <1>14 DEF Placed
<1> QED
  BY <1>10, <1>11, <1>12, <1>13, <1>14 DEF Placed

\* A flush is put on the request that it flushes.
LEMMA FlushPlaced == ASSUME Inv, NEW e \in Exports, exflushedWork(e) PROVE Placed'
<1>0. Base /\ Typed /\ Placed /\ InHand /\ epc[e] = "flushw"
  BY DEF Inv, Base, exflushedWork
<1>1. UNCHANGED <<spc, job, fq, head, work, answered>>
  BY DEF exflushedWork, queue, history
<1>2. PICK f \in Msgs : f = cur[e]
  BY <1>0 DEF InHand, AtMsg, Typed
<1>3. New(f) /\ q[f].export = e /\ ~In(f, head) /\ q[f].type = "Tflush" /\ f # None
  BY <1>0, <1>2, ExportfsAssumption DEF Placed, AtCur
<1>4. \A x \in Exports : x # e => epc'[x] = epc[x]
  <2>1. epc' = [epc EXCEPT ![e] = "reply"] \/ epc' = [epc EXCEPT ![e] = "read"]
    BY Zenon DEF exflushedWork
  <2> QED
    BY <1>0, <2>1 DEF Typed
<1>5. CASE epc' = [epc EXCEPT ![e] = "reply"] /\ UNCHANGED <<cur, q>>
  <2>1. epc'[e] = "reply"
    BY <1>0, <1>5 DEF Typed
  <2>2. Unread' /\ OnHead'
    BY <1>0, <1>1, <1>5 DEF Placed, Unread, OnHead, New
  <2>3. ASSUME NEW x \in Exports PROVE AtCur(x)' /\ OnWork(x)' /\ Shutting(x)'
    <3>1. AtCur(x) /\ OnWork(x) /\ Shutting(x)
      BY <1>0 DEF Placed
    <3>2. AtCur(x)'
      BY <1>1, <1>4, <1>5, <2>1, <3>1 DEF AtCur, New
    <3>3. OnWork(x)' /\ Shutting(x)'
      BY <1>1, <1>4, <1>5, <2>1, <3>1 DEF OnWork, Shutting
    <3> QED
      BY <3>2, <3>3
  <2>4. ASSUME NEW s \in Slaves PROVE AtLink(s)' /\ AtWork(s)' /\ AtFlush(s)'
    BY <1>0, <1>1, <1>5 DEF Placed, AtLink, AtWork, AtFlush, FlushOf, New
  <2>5. ASSUME NEW m \in Msgs PROVE OnFlush(m)'
    BY <1>0, <1>1, <1>5 DEF Placed, OnFlush, FlushOf, New
  <2>6. ASSUME NEW m \in Msgs, q'[m].shut
        PROVE  q'[m].export \in Exports /\ epc'[q'[m].export] \in {"exfree", "done"}
    BY <1>0, <1>4, <1>5, <2>1, <2>6 DEF Placed
  <2> QED
    BY <2>2, <2>3, <2>4, <2>5, <2>6 DEF Placed
<1>6. CASE \E n \in 1 .. Len(work[e]) :
              /\ q[work[e][n]].tag = q[f].oldtag
              /\ q' = [q EXCEPT ![work[e][n]].flush = Append(@, f)]
              /\ epc' = [epc EXCEPT ![e] = "read"]
              /\ cur' = [cur EXCEPT ![e] = None]
  <2>1. PICK m \in Msgs : /\ In(m, work[e]) /\ q[m].tag = q[f].oldtag
                          /\ q' = [q EXCEPT ![m].flush = Append(@, f)]
    <3>1. PICK n \in 1 .. Len(work[e]) :
             /\ q[work[e][n]].tag = q[f].oldtag
             /\ q' = [q EXCEPT ![work[e][n]].flush = Append(@, f)]
      BY <1>6
    <3>2. PICK m \in Msgs : m = work[e][n]
      BY <1>0 DEF Typed
    <3>3. In(m, work[e])
      BY <3>2 DEF In
    <3> QED
      BY <3>1, <3>2, <3>3
  <2>2. /\ epc'[e] = "read" /\ cur'[e] = None
        /\ \A x \in Exports : x # e => cur'[x] = cur[x] /\ cur[x] # f
    BY <1>0, <1>2, <1>3, <1>6, Apart DEF Typed
  <2>3. /\ q[m].export = e /\ q[m].slave # None /\ job[q[m].slave] = m /\ q[m].flush \in Seq(Msgs)
    BY <1>0, <2>1, ExqFields DEF Placed, OnWork, Typed
  <2>4. /\ \A x \in Msgs : x # m => q'[x] = q[x]
        /\ q'[m].flush = Append(q[m].flush, f)
        /\ q'[m].st = q[m].st /\ q'[m].type = q[m].type /\ q'[m].slave = q[m].slave
        /\ q'[m].export = q[m].export /\ q'[m].tag = q[m].tag /\ q'[m].shut = q[m].shut
        /\ q'[m].busy = q[m].busy /\ q'[m].finished = q[m].finished
    BY <1>0, <2>1 DEF Typed, Exq
  <2>5. \A x \in Msgs : New(x) => x # m /\ q'[x] = q[x]
    BY <2>3, <2>4 DEF New
  <2>6. /\ \A x \in Slaves : (spc[x] \in AtJob => job[x] # f) /\ fq[x] # f
        /\ \A x \in Msgs : ~In(f, q[x].flush)
    BY <1>2, <1>3, Apart
  <2>7. /\ Distinct(q'[m].flush)
        /\ \A x \in Msgs : In(x, q'[m].flush) <=> In(x, q[m].flush) \/ x = f
    BY <1>0, <2>3, <2>4, <2>6, JoinQueue DEF Placed, OnFlush
  <2>8. \A x \in Exports : cur'[x] = None \/ (cur'[x] = cur[x] /\ x # e)
    BY <2>2
  <2>9. \A x \in Msgs : /\ q'[x].st = q[x].st /\ q'[x].type = q[x].type
                        /\ q'[x].slave = q[x].slave /\ q'[x].export = q[x].export
                        /\ q'[x].tag = q[x].tag /\ q'[x].shut = q[x].shut
                        /\ q'[x].busy = q[x].busy /\ q'[x].finished = q[x].finished
    BY <2>4
  <2>10. Unread' /\ OnHead'
    <3>1. q[m].st # "unread"
      BY <1>0, <2>1, <2>3 DEF Placed, Unread
    <3>2. \A x \in Msgs : q'[x].st = "unread" => q'[x] = q[x]
      BY <2>4, <3>1
    <3>3. Unread'
      BY <1>0, <1>1, <3>2 DEF Placed, Unread
    <3>4. OnHead'
      BY <1>0, <1>1, <2>5 DEF Placed, OnHead, New
    <3> QED
      BY <3>3, <3>4
  <2>11. ASSUME NEW x \in Exports PROVE AtCur(x)' /\ OnWork(x)' /\ Shutting(x)'
    <3>1. AtCur(x) /\ OnWork(x) /\ Shutting(x) /\ (cur[x] # None => cur[x] \in Msgs)
      BY <1>0 DEF Placed, Typed
    <3>2. AtCur(x)'
      BY <1>1, <1>4, <2>2, <2>5, <2>8, <3>1 DEF AtCur, New
    <3>3. OnWork(x)'
      BY <1>1, <2>9, <3>1 DEF OnWork
    <3>4. Shutting(x)'
      <4>1. epc'[x] \in {"shutw", "exfree", "done"} => epc'[x] = epc[x]
        BY <1>4, <2>2
      <4>2. \A y \in Slaves : spc[y] = "link" => job[y] \in Msgs
        BY <1>0 DEF InHand, AtJob, Typed
      <4> QED
        BY <1>1, <2>9, <3>1, <4>1, <4>2 DEF Shutting
    <3> QED
      BY <3>2, <3>3, <3>4
  <2>12. \A y \in Msgs, x \in Msgs : FlushOf(y, x) => FlushOf(y, x)'
    BY <1>1, <2>5, <2>8, <2>9, ExportfsAssumption DEF FlushOf, New
  <2>13. ASSUME NEW x \in Slaves PROVE AtLink(x)' /\ AtWork(x)' /\ AtFlush(x)'
    <3>1. AtLink(x) /\ AtWork(x) /\ AtFlush(x) /\ (spc[x] \in AtJob => job[x] \in Msgs /\ job[x] # None)
      BY <1>0 DEF Placed, InHand, Typed
    <3>2. AtLink(x)'
      BY <1>1, <2>5, <2>8, <3>1 DEF AtLink, New, AtJob
    <3>3. AtWork(x)'
      BY <1>1, <2>9, <3>1 DEF AtWork, AtJob
    <3>4. AtFlush(x)'
      <4>1. fq[x] # None => /\ fq[x] \in Msgs /\ job[x] \in Msgs /\ New(fq[x])
        BY <1>0, <3>1 DEF Typed, InHand, AtJob, AfterLink, AtFlush, FlushOf
      <4> QED
        BY <1>1, <2>5, <2>8, <2>9, <3>1, <4>1 DEF AtFlush, FlushOf, New
    <3> QED
      BY <3>2, <3>3, <3>4
  <2>14. ASSUME NEW x \in Msgs PROVE OnFlush(x)'
    <3>1. OnFlush(x)
      BY <1>0 DEF Placed
    <3>2. Distinct(q'[x].flush)
      BY <2>4, <2>7, <3>1 DEF OnFlush
    <3>3. q'[x].flush # << >> => q'[x].slave # None /\ job'[q'[x].slave] = x
      BY <1>1, <2>3, <2>4, <2>9, <3>1 DEF OnFlush
    <3>4. \A n \in Msgs : \A y \in Msgs :
             In(y, q'[n].flush) <=> In(y, q[n].flush) \/ (y = f /\ n = m)
      BY <2>4, <2>7
    <3>5. ASSUME NEW y \in Msgs, In(y, q'[x].flush)
          PROVE  /\ FlushOf(y, x)'
                 /\ \A s \in Slaves : fq'[s] # y
                 /\ \A n \in Msgs : In(y, q'[n].flush) => n = x
      <4>1. CASE y = f
        <5>1. x = m
          BY <2>6, <3>4, <3>5, <4>1
        <5>2. FlushOf(y, x)'
          BY <1>1, <1>3, <2>1, <2>2, <2>3, <2>5, <2>9, <4>1, <5>1 DEF FlushOf, New
        <5> QED
          BY <1>1, <2>6, <3>4, <4>1, <5>1, <5>2
      <4>2. CASE y # f
        <5>1. In(y, q[x].flush)
          BY <3>4, <3>5, <4>2
        <5> QED
          BY <1>1, <2>12, <3>1, <3>4, <4>2, <5>1 DEF OnFlush
      <4> QED
        BY <4>1, <4>2
    <3> QED
      BY <3>2, <3>3, <3>5 DEF OnFlush
  <2>15. ASSUME NEW x \in Msgs, q'[x].shut
         PROVE  q'[x].export \in Exports /\ epc'[q'[x].export] \in {"exfree", "done"}
    BY <1>0, <1>4, <2>9, <2>15 DEF Placed
  <2> QED
    BY <2>10, <2>11, <2>13, <2>14, <2>15 DEF Placed
<1> QED
  BY <1>0, <1>2, <1>5, <1>6, WorkFound

\* The requests in progress are given up.
LEMMA ShutWorkPlaced == ASSUME Inv, NEW e \in Exports, exshutdownWork(e) PROVE Placed'
<1>0. Base /\ Typed /\ Placed /\ InHand /\ epc[e] = "shutw"
  BY DEF Inv, Base, exshutdownWork, egoto
<1>1. UNCHANGED <<spc, cur, job, fq, head, answered>>
  BY DEF exshutdownWork, queue, history
<1>2. /\ epc'[e] = "exfree" /\ \A x \in Exports : x # e => epc'[x] = epc[x]
      /\ work'[e] = << >> /\ \A x \in Exports : x # e => work'[x] = work[x]
  <2>1. epc' = [epc EXCEPT ![e] = "exfree"] /\ work' = [work EXCEPT ![e] = << >>]
    BY DEF exshutdownWork, egoto
  <2> QED
    BY <1>0, <2>1 DEF Typed
<1>3. \A x \in Msgs : q'[x] = IF In(x, work[e]) THEN [q[x] EXCEPT !.shut = TRUE] ELSE q[x]
  <2>1. q' = [m \in Msgs |-> IF m \in ToSet(work[e]) THEN [q[m] EXCEPT !.shut = TRUE] ELSE q[m]]
    BY DEF exshutdownWork
  <2>2. \A x : x \in ToSet(work[e]) <=> In(x, work[e])
    BY <1>0, ToSetIn DEF Typed
  <2> QED
    BY <2>1, <2>2
<1>4. \A x \in Msgs : /\ q'[x].st = q[x].st /\ q'[x].type = q[x].type /\ q'[x].flush = q[x].flush
                      /\ q'[x].slave = q[x].slave /\ q'[x].export = q[x].export
                      /\ q'[x].tag = q[x].tag /\ q'[x].oldtag = q[x].oldtag
                      /\ q'[x].busy = q[x].busy /\ q'[x].finished = q[x].finished
                      /\ q'[x].shut <=> q[x].shut \/ In(x, work[e])
  <2> SUFFICES ASSUME NEW x \in Msgs
               PROVE  /\ q'[x].st = q[x].st /\ q'[x].type = q[x].type /\ q'[x].flush = q[x].flush
                      /\ q'[x].slave = q[x].slave /\ q'[x].export = q[x].export
                      /\ q'[x].tag = q[x].tag /\ q'[x].oldtag = q[x].oldtag
                      /\ q'[x].busy = q[x].busy /\ q'[x].finished = q[x].finished
                      /\ q'[x].shut <=> q[x].shut \/ In(x, work[e])
    OBVIOUS
  <2>1. q[x] \in Exq
    BY <1>0 DEF Typed
  <2>2. CASE In(x, work[e])
    <3>1. q'[x] = [q[x] EXCEPT !.shut = TRUE]
      BY <1>3, <2>2
    <3> QED
      BY <2>1, <2>2, <3>1 DEF Exq
  <2>3. CASE ~In(x, work[e])
    BY <1>3, <2>3
  <2> QED
    BY <2>2, <2>3
<1>5. \A x \in Msgs : New(x) => q'[x] = q[x] /\ ~In(x, work[e])
  BY <1>3, Apart
<1>6. OnWork(e)
  BY <1>0 DEF Placed
<1>7. Unread' /\ OnHead'
  <2>1. \A x \in Msgs : q[x].st = "unread" => q'[x] = q[x]
    BY <1>0, <1>3, <1>6 DEF Placed, Unread, OnWork
  <2>2. Unread'
    BY <1>0, <1>1, <1>4, <2>1 DEF Placed, Unread
  <2>3. OnHead'
    BY <1>0, <1>1, <1>5 DEF Placed, OnHead, New
  <2> QED
    BY <2>2, <2>3
<1>8. ASSUME NEW x \in Exports PROVE AtCur(x)' /\ OnWork(x)' /\ Shutting(x)'
  <2>1. AtCur(x) /\ OnWork(x) /\ Shutting(x) /\ (cur[x] # None => cur[x] \in Msgs)
    BY <1>0 DEF Placed, Typed
  <2>2. AtCur(x)'
    BY <1>1, <1>2, <1>5, <2>1 DEF AtCur, New
  <2>3. OnWork(x)'
    <3>1. CASE x = e
      BY <1>2, <3>1 DEF OnWork, Distinct, In
    <3>2. CASE x # e
      <4>1. \A y \in Msgs : In(y, work[x]) => ~In(y, work[e])
        BY <1>6, <2>1, <3>2 DEF OnWork
      <4> QED
        BY <1>1, <1>2, <1>4, <2>1, <3>2, <4>1 DEF OnWork
    <3> QED
      BY <3>1, <3>2
  <2>4. Shutting(x)'
    <3>1. \A y \in Slaves : spc[y] = "link" => job[y] \in Msgs
      BY <1>0 DEF InHand, AtJob, Typed
    <3>2. epc'[x] \in {"shutw", "exfree", "done"} => epc[x] \in {"shutw", "exfree", "done"}
      BY <1>0, <1>2
    <3>3. epc'[x] \in {"exfree", "done"} => work'[x] = << >>
      BY <1>2, <2>1 DEF Shutting
    <3> QED
      BY <1>1, <1>4, <2>1, <3>1, <3>2, <3>3 DEF Shutting
  <2> QED
    BY <2>2, <2>3, <2>4
<1>9. \A y \in Msgs, x \in Msgs : FlushOf(y, x) => FlushOf(y, x)'
  BY <1>1, <1>4, <1>5 DEF FlushOf, New
<1>10. ASSUME NEW x \in Slaves PROVE AtLink(x)' /\ AtWork(x)' /\ AtFlush(x)'
  <2>1. AtLink(x) /\ AtWork(x) /\ AtFlush(x) /\ (spc[x] \in AtJob => job[x] \in Msgs)
    BY <1>0 DEF Placed, InHand, Typed
  <2>2. AtLink(x)'
    BY <1>1, <1>5, <2>1 DEF AtLink, New, AtJob
  <2>3. AtWork(x)'
    <3>1. spc[x] \in AfterLink => job[x] \in Msgs /\ q[job[x]].export \in Exports
      BY <1>0, <2>1, ExqFields DEF Typed, AtWork, AtJob
    <3>2. ASSUME spc[x] \in AfterLink, ~q'[job[x]].shut
          PROVE  In(job[x], work'[q[job[x]].export])
      <4>1. ~In(job[x], work[e]) /\ In(job[x], work[q[job[x]].export])
        BY <1>4, <2>1, <3>1, <3>2 DEF AtWork
      <4> QED
        BY <1>2, <3>1, <3>2, <4>1
    <3> QED
      BY <1>1, <1>4, <2>1, <3>1, <3>2 DEF AtWork
  <2>4. AtFlush(x)'
    <3>1. fq[x] # None => /\ fq[x] \in Msgs /\ job[x] \in Msgs /\ New(fq[x])
      BY <1>0, <2>1 DEF Typed, InHand, AtJob, AfterLink, AtFlush, FlushOf
    <3> QED
      BY <1>1, <1>4, <1>5, <2>1, <3>1 DEF AtFlush, FlushOf, New
  <2> QED
    BY <2>2, <2>3, <2>4
<1>11. ASSUME NEW x \in Msgs PROVE OnFlush(x)'
  BY <1>0, <1>1, <1>4, <1>9 DEF Placed, OnFlush
<1>12. ASSUME NEW x \in Msgs, q'[x].shut
       PROVE  q'[x].export \in Exports /\ epc'[q'[x].export] \in {"exfree", "done"}
  BY <1>0, <1>2, <1>4, <1>6, <1>12 DEF Placed, OnWork
<1> QED
  BY <1>7, <1>8, <1>10, <1>11, <1>12 DEF Placed

LEMMA InvInit == Init => Inv
<1> SUFFICES ASSUME Init PROVE Inv
  OBVIOUS
<1>1. /\ spc = [s \in Slaves |-> "none"] /\ epc = [e \in Exports |-> "read"]
      /\ cur = [e \in Exports |-> None] /\ job = [s \in Slaves |-> None] /\ fq = job
      /\ killed = {} /\ head = << >> /\ tail = None /\ exql = None
      /\ qwait = None /\ qwaitq = << >> /\ rwait = None
      /\ work = [e \in Exports |-> << >>] /\ fsl = [e \in Exports |-> FALSE]
      /\ got = << >> /\ answered = [m \in Msgs |-> 0] /\ cancelled = {}
  BY DEF Init
<1>2. /\ q \in [Msgs -> Exq]
      /\ \A m \in Msgs :
            /\ q[m].st = "unread" /\ q[m].export = None /\ q[m].slave = None
            /\ q[m].tag = None /\ q[m].oldtag = None /\ q[m].flush = << >>
            /\ ~q[m].busy /\ ~q[m].finished /\ ~q[m].shut /\ ~q[m].err
  <2> DEFINE z == [st |-> "unread", export |-> None, type |-> "T",
                   tag |-> None, oldtag |-> None,
                   busy |-> FALSE, finished |-> FALSE, shut |-> FALSE,
                   err |-> FALSE, flush |-> << >>, slave |-> None]
  <2>1. << >> \in Seq(Msgs)
    OBVIOUS
  <2>2. z \in Exq
    BY <2>1 DEF Exq
  <2>3. q = [m \in Msgs |-> z]
    BY DEF Init
  <2> QED
    BY <2>2, <2>3
<1>3. /\ << >> \in Seq(Msgs) /\ << >> \in Seq(Slaves)
      /\ Distinct(<< >>) /\ \A x : ~In(x, << >>)
  BY DEF Distinct, In
<1>4. Typed
  BY <1>1, <1>2, <1>3 DEF Typed, SlaveLabels, ExportLabels
<1>5. InHand /\ Idlers
  BY <1>1, <1>3, ExportfsAssumption DEF InHand, Idlers, AtMsg, AtJob, AfterLink
<1>6. Unread /\ OnHead
  BY <1>1, <1>2, <1>3 DEF Unread, OnHead
<1>7. ASSUME NEW e \in Exports PROVE AtCur(e) /\ OnWork(e) /\ Shutting(e)
  BY <1>1, <1>3 DEF AtCur, OnWork, Shutting
<1>8. ASSUME NEW s \in Slaves PROVE AtLink(s) /\ AtWork(s) /\ AtFlush(s)
  BY <1>1 DEF AtLink, AtWork, AtFlush, AfterLink
<1>9. ASSUME NEW m \in Msgs PROVE OnFlush(m)
  BY <1>2, <1>3 DEF OnFlush
<1> QED
  BY <1>2, <1>4, <1>5, <1>6, <1>7, <1>8, <1>9 DEF Inv, Base, Placed

\* exportproc and its connection; the slaves.
LEMMA ReadInv ==
    ASSUME Inv, NEW e \in Exports, NEW m \in Msgs, NEW tag \in Tags,
           readT(e, m, tag) \/ (\E oldtag \in Tags : readTflush(e, m, tag, oldtag))
    PROVE  Inv'
<1>0. Base
  BY DEF Inv
<1>1. CASE readT(e, m, tag)
  <2>1. PICK next \in {"queue", "reply"} : read(e, m, next, "T", tag, None)
    BY <1>1 DEF readT
  <2>2. next \in {"queue", "reply", "flushq"} /\ "T" \in {"T", "Tflush"} /\ next # "flushq"
        /\ None \in Tags \cup {None}
    OBVIOUS
  <2> QED
    BY <1>0, <2>1, <2>2, ReadBase, ReadPlaced DEF Inv
<1>2. CASE \E oldtag \in Tags : readTflush(e, m, tag, oldtag)
  <2>1. PICK oldtag \in Tags : read(e, m, "flushq", "Tflush", tag, oldtag)
    BY <1>2 DEF readTflush
  <2>2. "flushq" \in {"queue", "reply", "flushq"} /\ "Tflush" \in {"T", "Tflush"}
        /\ oldtag \in Tags \cup {None}
    OBVIOUS
  <2> QED
    BY <1>0, <2>1, <2>2, ReadBase, ReadPlaced DEF Inv
<1> QED
  BY <1>1, <1>2

LEMMA ServeInv == ASSUME Inv, NEW e \in Exports, Serve(e) \/ hangup(e) PROVE Inv'
<1>0. Base
  BY DEF Inv
<1>1. CASE spawn(e) \/ wakeup(e) \/ hangup(e) \/ exportExfree(e)
  <2>1. Base' /\ \A x \in Slaves : Idle(x)
    BY <1>0, <1>1, WakeBase
  <2>2. UNCHANGED <<cur, job, fq, q, head, work, answered>>
    BY <1>1 DEF spawn, wakeup, hangup, exportExfree, queue, exports, history
  <2>3. PICK to : /\ epc' = [epc EXCEPT ![e] = to]
                  /\ <<epc[e], to>> \in {<<"spawn", "wakeup">>, <<"wakeup", "read">>,
                                         <<"read", "shutq">>, <<"exfree", "done">>}
    BY <1>1 DEF spawn, wakeup, hangup, exportExfree, egoto
  <2>4. epc'[e] = to /\ \A x \in Exports : x # e => epc'[x] = epc[x]
    BY <1>0, <2>3 DEF Base, Typed
  <2>5. \A x \in Exports : /\ epc'[x] \in AtMsg => epc'[x] = epc[x]
                           /\ epc'[x] \in {"shutw", "exfree", "done"} =>
                                  epc[x] \in {"shutw", "exfree", "done"}
                           /\ epc'[x] \in {"exfree", "done"} <=> epc[x] \in {"exfree", "done"}
    BY <2>3, <2>4 DEF AtMsg
  <2> QED
    BY <2>1, <2>2, <2>5, PassPlaced DEF Inv
<1>2. CASE enqueue(e)
  BY <1>0, <1>2, EnqueueBase, EnqueuePlaced DEF Inv
<1>3. CASE exflushedQueue(e)
  BY <1>0, <1>3, ExportBase, FlushedPlaced DEF Inv
<1>4. CASE exflushedWork(e)
  BY <1>0, <1>4, ExportBase, FlushPlaced DEF Inv
<1>5. CASE ereply(e)
  BY <1>0, <1>5, ExportBase, ReplyPlaced DEF Inv
<1>6. CASE exshutdownQueue(e)
  BY <1>0, <1>6, ExportBase, ShutQueuePlaced DEF Inv
<1>7. CASE exshutdownWork(e)
  BY <1>0, <1>7, ExportBase, ShutWorkPlaced DEF Inv
<1> QED
  BY <1>1, <1>2, <1>3, <1>4, <1>5, <1>6, <1>7 DEF Serve

LEMMA SlaveInv ==
    ASSUME Inv, NEW s \in Slaves, Slave(s) \/ (\E err \in BOOLEAN : fcallReturns(s, err))
    PROVE  Inv'
<1>0. Base /\ Placed
  BY DEF Inv
<1>1. CASE qlockQwait(s) \/ SleepRwait(s) \/ (take(s) /\ head = << >>)
  <2>1. Base' /\ \A x \in Slaves : Idle(x)
    BY <1>0, <1>1, WaitBase
  <2>2. UNCHANGED <<cur, job, fq, q, head, work, answered, epc>>
    BY <1>1 DEF qlockQwait, SleepRwait, take, queue, exports, history
  <2> QED
    BY <2>1, <2>2, PassPlaced DEF Inv
<1>2. CASE take(s) /\ head # << >>
  BY <1>0, <1>2, TakeBase, TakePlaced DEF Inv
<1>3. CASE link(s)
  <2>1. q[job[s]].export # None
    BY <1>0, <1>3 DEF Placed, AtLink, New, link, sgoto
  <2>2. Base'
    BY <1>0, <1>3, <2>1, LinkEffect
  <2> QED
    BY <1>3, <2>2, LinkPlaced DEF Inv
<1>4. CASE \E err \in BOOLEAN : fcallReturns(s, err)
  <2>1. Base'
    BY <1>0, <1>4, FcallEffect
  <2> QED
    BY <1>4, <2>1, FcallPlaced DEF Inv
<1>5. CASE complete(s) \/ nextFlush(s)
  <2>1. Base'
    BY <1>0, <1>5, AnswerEffect
  <2> QED
    BY <1>5, <2>1, AnswerPlaced DEF Inv
<1>6. CASE reply(s) \/ freply(s)
  BY <1>0, <1>6, SendEffect, FreplyPlaced DEF Inv
<1>7. CASE unlink(s)
  <2>1. q[job[s]].export # None
    BY <1>0, <1>7 DEF Placed, AtWork, AfterLink, unlink, sgoto
  <2>2. Base'
    BY <1>0, <1>7, <2>1, UnlinkEffect
  <2> QED
    BY <1>7, <2>2, UnlinkPlaced DEF Inv
<1> QED
  BY <1>1, <1>2, <1>3, <1>4, <1>5, <1>6, <1>7 DEF Slave

LEMMA InvStutters == Inv /\ UNCHANGED vars => Inv'
<1> SUFFICES ASSUME Inv, UNCHANGED vars PROVE Inv'
  OBVIOUS
<1>1. UNCHANGED <<spc, epc, cur, job, fq, killed, q, head, tail, exql, qwait, qwaitq, rwait,
                  work, fsl, ref, got, answered, cancelled>>
  BY DEF vars, procs, queue, idlers, exports, history
<1>2. Base'
  BY <1>1 DEF Inv, Base, Typed, InHand, Idlers
<1>3. \A x \in Slaves : Idle(x)
  BY <1>1 DEF Idle
<1> QED
  BY <1>1, <1>2, <1>3, PassPlaced DEF Inv

LEMMA InvNext == Inv /\ [Next]_vars => Inv'
BY ReadInv, ServeInv, SlaveInv, InvStutters DEF Next

\* An Exq is where exslave and exportproc look for it, or freed.
LEMMA InvHolds == Spec => []Inv
BY InvInit, InvNext, PTL DEF Spec

\* No list leads to an Exq that has been freed, and no kproc is at one.
THEOREM ExqFreedUnreached == Spec => []FreedUnreached
<1>1. Inv => FreedUnreached
  <2> SUFFICES ASSUME Inv PROVE FreedUnreached
    OBVIOUS
  <2>0. Typed /\ InHand /\ Placed
    BY DEF Inv, Base
  <2>1. \A m \in ToSet(head) : q[m].st = "live"
    <3>1. \A m \in ToSet(head) : m \in Msgs /\ In(m, head)
      BY <2>0, ToSetIn DEF Typed, ToSet
    <3> QED
      BY <2>0, <3>1 DEF Placed, OnHead, New
  <2>2. ASSUME NEW e \in Exports, NEW m \in ToSet(work[e]) PROVE q[m].st = "live"
    <3>1. m \in Msgs /\ In(m, work[e])
      BY <2>0, <2>2, ToSetIn DEF Typed, ToSet
    <3>2. q[m].slave # None /\ job[q[m].slave] = m /\ m # None
      BY <2>0, <3>1, ExportfsAssumption DEF Placed, OnWork
    <3>3. q[m].slave \in Slaves
      BY <2>0, <3>1, <3>2, ExqFields DEF Typed
    <3>4. spc[q[m].slave] \in AtJob
      BY <2>0, <3>2, <3>3 DEF InHand
    <3> QED
      BY <2>0, <3>2, <3>3, <3>4 DEF Placed, AtLink, AtWork, AtJob, New
  <2>3. ASSUME NEW n \in Msgs, NEW m \in ToSet(q[n].flush) PROVE q[m].st = "live"
    <3>1. q[n].flush \in Seq(Msgs)
      BY <2>0, ExqFields DEF Typed
    <3>2. m \in Msgs /\ In(m, q[n].flush)
      BY <2>3, <3>1, ToSetIn DEF ToSet
    <3> QED
      BY <2>0, <3>2 DEF Placed, OnFlush, FlushOf, New
  <2>4. \A e \in Exports : cur[e] # None => q[cur[e]].st = "live"
    BY <2>0 DEF Placed, AtCur, New
  <2>5. \A s \in Slaves : job[s] # None => q[job[s]].st = "live"
    BY <2>0 DEF Placed, InHand, AtLink, AtWork, AtJob, New
  <2>6. \A s \in Slaves : fq[s] # None => q[fq[s]].st = "live"
    BY <2>0 DEF Placed, AtFlush, FlushOf, New
  <2> DEFINE used == ToSet(head) \cup (UNION {ToSet(work[e]) : e \in Exports})
                       \cup (UNION {ToSet(q[m].flush) : m \in Msgs})
                       \cup {cur[e] : e \in Exports}
                       \cup {job[s] : s \in Slaves} \cup {fq[s] : s \in Slaves}
  <2> SUFFICES ASSUME NEW x \in used \ {None} PROVE q[x].st = "live"
    BY DEF FreedUnreached
  <2>7. x \in UNION {ToSet(work[e]) : e \in Exports} => q[x].st = "live"
    BY <2>2
  <2>8. x \in UNION {ToSet(q[m].flush) : m \in Msgs} => q[x].st = "live"
    BY <2>3
  <2>9. x \in {cur[e] : e \in Exports} => q[x].st = "live"
    BY <2>4
  <2>10. x \in {job[s] : s \in Slaves} \cup {fq[s] : s \in Slaves} => q[x].st = "live"
    BY <2>5, <2>6
  <2> QED
    BY <2>1, <2>7, <2>8, <2>9, <2>10
<1> QED
  BY <1>1, InvHolds, PTL

\* A shut down Export leaves no request to be started, and each slave that is
\* still at one of its has been told.
THEOREM ExportShutDown == Spec => []ShutDown
<1>1. Inv => ShutDown
  <2> SUFFICES ASSUME Inv, NEW e \in Exports, epc[e] \in {"exfree", "done"}
               PROVE  /\ work[e] = << >>
                      /\ \A m \in ToSet(head) : q[m].export # e
                      /\ \A s \in Slaves : job[s] # None /\ q[job[s]].export = e
                                             => q[job[s]].shut
    BY DEF ShutDown
  <2>0. Typed /\ InHand /\ Placed /\ Shutting(e)
    BY DEF Inv, Base, Placed
  <2>1. work[e] = << >>
    BY <2>0 DEF Shutting
  <2>2. \A m \in ToSet(head) : q[m].export # e
    <3>1. \A m \in ToSet(head) : m \in Msgs /\ In(m, head)
      BY <2>0, ToSetIn DEF Typed, ToSet
    <3> QED
      BY <2>0, <3>1 DEF Shutting
  <2>3. ASSUME NEW s \in Slaves, job[s] # None, q[job[s]].export = e PROVE q[job[s]].shut
    <3>1. spc[s] \in AfterLink
      BY <2>0, <2>3 DEF InHand, AtJob, Shutting
    <3>2. ~In(job[s], work[e])
      BY <2>1 DEF In
    <3> QED
      BY <2>0, <2>3, <3>1, <3>2 DEF Placed, AtWork
  <2> QED
    BY <2>1, <2>2, <2>3
<1> QED
  BY <1>1, InvHolds, PTL

-----------------------------------------------------------------------------
(* The kills.                                                               *)

Kills == killed \subseteq Slaves /\ KillsHit

\* What a step of exportproc for e does to the slaves and to their requests.
LEMMA ExportEffect ==
    ASSUME Inv, NEW e \in Exports,
           \/ Serve(e) \/ hangup(e)
           \/ \E m \in Msgs, tag \in Tags :
                 readT(e, m, tag) \/ \E oldtag \in Tags : readTflush(e, m, tag, oldtag)
    PROVE  /\ UNCHANGED <<job, fq>>
           /\ \A s \in Slaves : Idle(s)
           /\ \A m \in Msgs : /\ q[m].shut => q'[m].shut
                              /\ q'[m].slave = q[m].slave /\ q'[m].err = q[m].err
                              /\ q'[m].st = "freed" => q[m].st = "freed" \/ New(m)
                              /\ answered'[m] = answered[m] \/ New(m)
<1>0. Base /\ Typed /\ Placed /\ InHand /\ q \in [Msgs -> Exq]
  BY DEF Inv, Base, Typed
<1>1. CASE \E m \in Msgs, tag \in Tags :
              readT(e, m, tag) \/ \E oldtag \in Tags : readTflush(e, m, tag, oldtag)
  <2>0. PICK m \in Msgs : \E next, type, tag, oldtag : read(e, m, next, type, tag, oldtag)
    BY <1>1 DEF readT, readTflush
  <2>1. PICK next, type, tag, oldtag : read(e, m, next, type, tag, oldtag)
    BY <2>0
  <2>2. /\ UNCHANGED <<spc, job, fq, answered>>
        /\ q' = [q EXCEPT ![m].st = "live", ![m].export = e, ![m].type = type,
                          ![m].tag = tag, ![m].oldtag = oldtag]
    BY <2>1 DEF read
  <2>3. /\ q'[m].shut = q[m].shut /\ q'[m].slave = q[m].slave /\ q'[m].err = q[m].err
        /\ q'[m].st = "live"
        /\ \A x \in Msgs : x # m => q'[x] = q[x]
    BY <1>0, <2>2 DEF Exq
  <2> QED
    BY <2>2, <2>3 DEF Idle
<1>2. CASE spawn(e) \/ wakeup(e) \/ hangup(e) \/ exportExfree(e)
  <2>1. UNCHANGED <<job, fq, q, answered>>
    BY <1>2 DEF spawn, wakeup, hangup, exportExfree, history
  <2> QED
    BY <1>0, <1>2, <2>1, WakeBase
<1>3. CASE enqueue(e)
  <2>1. UNCHANGED <<spc, job, fq, q, answered>>
    BY <1>3 DEF enqueue, history
  <2> QED
    BY <2>1 DEF Idle
<1>4. ASSUME NEW F \in SUBSET Msgs, q' = FreeAll(F, q), \A m \in F : New(m),
             \A m \in Msgs : answered'[m] = answered[m] \/ New(m),
             UNCHANGED <<spc, job, fq>>
      PROVE  /\ UNCHANGED <<job, fq>>
             /\ \A s \in Slaves : Idle(s)
             /\ \A m \in Msgs : /\ q[m].shut => q'[m].shut
                                /\ q'[m].slave = q[m].slave /\ q'[m].err = q[m].err
                                /\ q'[m].st = "freed" => q[m].st = "freed" \/ New(m)
                                /\ answered'[m] = answered[m] \/ New(m)
  <2>1. \A m \in Msgs : /\ q'[m].shut = q[m].shut /\ q'[m].slave = q[m].slave
                        /\ q'[m].err = q[m].err
                        /\ m \notin F => q'[m] = q[m]
    BY <1>0, <1>4, FreeFields
  <2> QED
    BY <1>4, <2>1 DEF Idle
<1>5. \A m \in Msgs : New(m) => Freed(m) = {m}
  BY DEF New, Freed, ToSet
<1>6. CASE exflushedQueue(e)
  <2>1. UNCHANGED <<spc, job, fq, answered>>
    BY <1>6 DEF exflushedQueue, history
  <2>2. CASE q' = q
    BY <2>1, <2>2 DEF Idle
  <2>3. CASE \E n \in 1 .. Len(head) : q' = FreeAll(Freed(head[n]), q)
    <3>1. PICK m \in Msgs : In(m, head) /\ q' = FreeAll(Freed(m), q)
      BY <1>0, <2>3 DEF In, Typed
    <3>2. New(m) /\ Freed(m) = {m} /\ {m} \in SUBSET Msgs
      BY <1>0, <1>5, <3>1 DEF Placed, OnHead
    <3>3. q' = FreeAll({m}, q)
      BY <3>1, <3>2
    <3> QED
      BY <1>4, <2>1, <3>2, <3>3
  <2> QED
    BY <1>0, <1>6, <2>2, <2>3, QueueFound
<1>7. CASE exflushedWork(e)
  <2>1. UNCHANGED <<spc, job, fq, answered>>
    BY <1>7 DEF exflushedWork, history
  <2>2. q' = q \/ \E n \in 1 .. Len(work[e]) : q' = [q EXCEPT ![work[e][n]].flush = Append(@, cur[e])]
    BY <1>0, <1>7, WorkFound
  <2>3. CASE \E n \in 1 .. Len(work[e]) : q' = [q EXCEPT ![work[e][n]].flush = Append(@, cur[e])]
    <3>0. PICK n \in 1 .. Len(work[e]) : q' = [q EXCEPT ![work[e][n]].flush = Append(@, cur[e])]
      BY <2>3
    <3>1. PICK m \in Msgs : m = work[e][n]
      BY <1>0 DEF Typed
    <3>2. /\ \A x \in Msgs : x # m => q'[x] = q[x]
          /\ q'[m].shut = q[m].shut /\ q'[m].slave = q[m].slave /\ q'[m].err = q[m].err
          /\ q'[m].st = q[m].st
      BY <1>0, <3>0, <3>1 DEF Exq
    <3> QED
      BY <2>1, <3>2 DEF Idle
  <2> QED
    BY <2>1, <2>2, <2>3 DEF Idle
<1>8. CASE ereply(e)
  <2>1. PICK m \in Msgs : m = cur[e]
    BY <1>0, <1>8 DEF ereply, egoto, InHand, AtMsg, Typed
  <2>2. /\ UNCHANGED <<spc, job, fq>> /\ exreply(m) /\ q' = FreeAll(Freed(m), q)
    BY <1>8, <2>1 DEF ereply
  <2>3. New(m) /\ Freed(m) = {m} /\ {m} \in SUBSET Msgs
    BY <1>0, <1>5, <2>1, ExportfsAssumption DEF Placed, AtCur
  <2>4. \A x \in Msgs : answered'[x] = answered[x] \/ New(x)
    BY <1>0, <2>2, <2>3 DEF exreply, Typed
  <2>5. q' = FreeAll({m}, q)
    BY <2>2, <2>3
  <2> QED
    BY <1>4, <2>2, <2>3, <2>4, <2>5
<1>9. CASE exshutdownQueue(e)
  <2>1. PICK F : F = {m \in ToSet(head) : q[m].export = e}
    OBVIOUS
  <2>2. UNCHANGED <<spc, job, fq, answered>> /\ q' = FreeAll(F, q)
    BY <1>9, <2>1 DEF exshutdownQueue, history
  <2>3. \A m \in F : m \in Msgs /\ In(m, head)
    BY <1>0, <2>1, ToSetIn DEF Typed, ToSet
  <2>4. F \in SUBSET Msgs /\ \A m \in F : New(m)
    BY <1>0, <2>3 DEF Placed, OnHead
  <2> QED
    BY <1>4, <2>2, <2>4
<1>10. CASE exshutdownWork(e)
  <2>1. UNCHANGED <<spc, job, fq, answered>>
    BY <1>10 DEF exshutdownWork, history
  <2>2. \E M : q' = [m \in Msgs |-> IF m \in M THEN [q[m] EXCEPT !.shut = TRUE] ELSE q[m]]
    BY <1>10 DEF exshutdownWork
  <2>3. \A m \in Msgs : /\ q'[m].slave = q[m].slave /\ q'[m].err = q[m].err
                        /\ q'[m].st = q[m].st /\ (q[m].shut => q'[m].shut)
    BY <1>0, <2>2 DEF Exq
  <2> QED
    BY <2>1, <2>3 DEF Idle
<1> QED
  BY <1>1, <1>2, <1>3, <1>6, <1>7, <1>8, <1>9, <1>10 DEF Serve

\* Those that exportproc kills are at the request that it flushes or gives up.
LEMMA ExportKills ==
    ASSUME Inv, Kills, NEW e \in Exports,
           \/ Serve(e) \/ hangup(e)
           \/ \E m \in Msgs, tag \in Tags :
                 readT(e, m, tag) \/ \E oldtag \in Tags : readTflush(e, m, tag, oldtag)
    PROVE  Kills'
<1>0. Base /\ Typed /\ Placed /\ InHand
  BY DEF Inv, Base
<1>1. /\ UNCHANGED job /\ \A s \in Slaves : Idle(s)
      /\ \A m \in Msgs : q[m].shut => q'[m].shut
  BY ExportEffect
<1>2. \A s \in Slaves : job[s] # None => job[s] \in Msgs
  BY <1>0 DEF Typed
<1>3. \A s \in Slaves : spc[s] \in {"call", "called"} => spc'[s] = spc[s]
  BY <1>1 DEF Idle, AtJob, AfterLink
<1>4. ASSUME NEW s \in killed' PROVE /\ s \in Slaves
                                     /\ \/ spc'[s] \in {"call", "called"}
                                        \/ job'[s] # None /\ q'[job'[s]].shut
  <2>1. CASE s \in killed
    BY <1>1, <1>2, <1>3, <2>1 DEF Kills, KillsHit
  <2>2. CASE exflushedWork(e) /\ s \notin killed
    <3>1. PICK m \in Msgs : In(m, work[e]) /\ q[m].busy /\ s = q[m].slave
      <4>1. PICK n \in 1 .. Len(work[e]) : /\ killed' = IF q[work[e][n]].busy
                                                        THEN killed \cup {q[work[e][n]].slave}
                                                        ELSE killed
        BY <1>0, <1>4, <2>2, WorkFound
      <4>2. work[e][n] \in Msgs /\ In(work[e][n], work[e])
        BY <1>0 DEF Typed, In
      <4> QED
        BY <1>4, <2>2, <4>1, <4>2
    <3>2. s # None /\ job[s] = m /\ m # None
      BY <1>0, <3>1, ExportfsAssumption DEF Placed, OnWork
    <3>3. s \in Slaves
      BY <1>0, <3>1, <3>2, ExqFields DEF Typed
    <3>4. spc[s] \in AtJob
      BY <1>0, <3>2, <3>3 DEF InHand
    <3>5. spc[s] \in {"call", "called"}
      BY <1>0, <3>1, <3>2, <3>3, <3>4 DEF Placed, AtLink, AtWork, AtJob, New
    <3> QED
      BY <1>3, <3>3, <3>5
  <2>3. CASE exshutdownWork(e) /\ s \notin killed
    <3>1. /\ killed' = killed \cup {q[m].slave : m \in ToSet(work[e])}
          /\ q' = [m \in Msgs |-> IF m \in ToSet(work[e]) THEN [q[m] EXCEPT !.shut = TRUE] ELSE q[m]]
      BY <2>3 DEF exshutdownWork, swiproc
    <3>2. PICK m \in ToSet(work[e]) : s = q[m].slave
      BY <1>4, <2>3, <3>1
    <3>3. m \in Msgs /\ In(m, work[e])
      BY <1>0, ToSetIn DEF Typed, ToSet
    <3>4. s # None /\ job[s] = m /\ m # None
      BY <1>0, <3>2, <3>3, ExportfsAssumption DEF Placed, OnWork
    <3>5. s \in Slaves /\ q[m] \in Exq
      BY <1>0, <3>2, <3>3, <3>4, ExqFields DEF Typed
    <3>6. q'[m].shut
      BY <3>1, <3>2, <3>3, <3>5 DEF Exq
    <3> QED
      BY <1>1, <3>4, <3>5, <3>6
  <2>4. CASE \/ enqueue(e) \/ spawn(e) \/ wakeup(e) \/ exflushedQueue(e) \/ ereply(e)
             \/ exshutdownQueue(e) \/ exportExfree(e) \/ hangup(e)
    <3>1. killed' = killed
      BY <2>4 DEF hangup, enqueue, spawn, wakeup, exflushedQueue, ereply, exshutdownQueue,
                  exportExfree
    <3> QED
      BY <1>4, <2>1, <3>1
  <2>5. CASE \E m \in Msgs, tag \in Tags :
                readT(e, m, tag) \/ \E oldtag \in Tags : readTflush(e, m, tag, oldtag)
    <3>1. \E m, next, type, tag, oldtag : read(e, m, next, type, tag, oldtag)
      BY <2>5 DEF readT, readTflush
    <3>2. killed' = killed
      BY <3>1 DEF read
    <3> QED
      BY <1>4, <2>1, <3>2
  <2> QED
    BY <2>1, <2>2, <2>3, <2>4, <2>5 DEF Serve
<1> QED
  BY <1>4 DEF Kills, KillsHit

\* A slave takes a kill back when it goes from one request to the next.
LEMMA SlaveKills ==
    ASSUME Inv, Kills, NEW s \in Slaves,
           Slave(s) \/ (\E err \in BOOLEAN : fcallReturns(s, err))
    PROVE  Kills'
<1>0. Base /\ Typed /\ Placed /\ InHand /\ q \in [Msgs -> Exq]
  BY DEF Inv, Base, Typed
<1>1. \A x \in Slaves : job[x] # None => job[x] \in Msgs
  BY <1>0 DEF Typed
<1>2. ASSUME killed' \subseteq killed,
             \A x \in Slaves : x # s => /\ job'[x] = job[x]
                                        /\ spc'[x] = spc[x] \/ (spc[x] \notin AtJob /\ spc'[x] \notin AtJob)
                                        /\ job[x] # None /\ q[job[x]].shut => q'[job[x]].shut,
             s \in killed' => \/ spc'[s] \in {"call", "called"}
                              \/ job'[s] # None /\ q'[job'[s]].shut
      PROVE  Kills'
  BY <1>2 DEF Kills, KillsHit, AtJob, AfterLink
<1>3. CASE qlockQwait(s) \/ SleepRwait(s) \/ take(s)
  <2>1. killed' \subseteq killed /\ UNCHANGED q
    BY <1>3 DEF qlockQwait, SleepRwait, take
  <2>2. \A x \in Slaves : x # s => /\ job'[x] = job[x]
                                   /\ spc'[x] = spc[x] \/ (spc[x] \notin AtJob /\ spc'[x] \notin AtJob)
    <3>1. CASE qlockQwait(s) \/ SleepRwait(s) \/ (take(s) /\ head = << >>)
      <4>1. UNCHANGED job
        BY <3>1 DEF qlockQwait, SleepRwait, take
      <4> QED
        BY <1>0, <3>1, <4>1, WaitBase DEF Idle
    <3>2. CASE take(s) /\ head # << >>
      BY <1>0, <3>2, TakeBase DEF Idle, Typed
    <3> QED
      BY <1>3, <3>1, <3>2
  <2>3. s \notin killed
    <3>1. spc[s] \in {"idle", "sleep", "take"}
      BY <1>3 DEF qlockQwait, SleepRwait, take, sgoto
    <3>2. job[s] = None
      BY <1>0, <3>1 DEF InHand, AtJob, AfterLink
    <3> QED
      BY <3>1, <3>2 DEF Kills, KillsHit
  <2> QED
    BY <1>2, <2>1, <2>2, <2>3
<1>4. CASE link(s)
  <2>1. q[job[s]].export # None
    BY <1>0, <1>4 DEF Placed, AtLink, New, link, sgoto
  <2>2. \A x \in Msgs : x # job[s] => q'[x] = q[x]
    <3>1. q' = [q EXCEPT ![job[s]].slave = s, ![job[s]].busy = TRUE]
      BY <1>4 DEF link
    <3> QED
      BY <1>0, <3>1
  <2>3. spc[s] = "link" /\ spc' = [spc EXCEPT ![s] = "call"] /\ killed' = killed \ {s} /\ job' = job
    BY <1>4 DEF link, sgoto
  <2>4. \A x \in Slaves : x # s /\ job[x] # None => q'[job[x]] = q[job[x]]
    <3>1. spc[s] \in AtJob /\ \A x \in Slaves : job[x] # None => spc[x] \in AtJob
      BY <1>0, <2>3 DEF AtJob, InHand
    <3> QED
      BY <1>1, <2>2, <3>1, Apart
  <2> QED
    BY <1>0, <1>2, <2>3, <2>4 DEF Typed
<1>5. CASE \E err \in BOOLEAN : fcallReturns(s, err)
  <2>1. spc' = [spc EXCEPT ![s] = "called"] /\ killed' \subseteq killed /\ job' = job
    BY <1>5 DEF fcallReturns, Interrupted, sgoto
  <2>2. \E err \in BOOLEAN : q' = [q EXCEPT ![job[s]].err = err]
    BY <1>5 DEF fcallReturns
  <2>3. \A x \in Msgs : q[x].shut => q'[x].shut
    BY <1>0, <2>2 DEF Exq
  <2> QED
    BY <1>0, <1>1, <1>2, <2>1, <2>3 DEF Typed
<1>6. CASE complete(s) \/ nextFlush(s)
  <2>1. PICK m : m = job[s]
    OBVIOUS
  <2>2. /\ m \in Msgs /\ killed' \subseteq killed /\ (spc[s] = "called" => killed' = killed \ {s})
        /\ \A x \in Msgs : x # m => q'[x] = q[x]
        /\ job' = job
    BY <1>0, <1>6, <2>1, AnswerEffect
  <2>3. ToReply(s, m) \/ ToFlush(s, m) \/ ToUnlink(s, m)
    BY <1>0, <1>6, <2>1, AnswerEffect
  <2>4. q'[m].shut = q[m].shut
    BY <1>0, <2>2, <2>3 DEF ToReply, ToFlush, ToUnlink, Exq
  <2>5. \A x \in Slaves : x # s => spc'[x] = spc[x]
    BY <1>0, <2>3 DEF ToReply, ToFlush, ToUnlink, Typed
  <2>6. spc[s] = "called" \/ spc[s] = "replied"
    BY <1>6 DEF complete, nextFlush
  <2>7. \A x \in Slaves : job[x] # None /\ q[job[x]].shut => q'[job[x]].shut
    BY <1>1, <2>2, <2>4
  <2>8. s \in killed' => job'[s] # None /\ q'[job'[s]].shut
    BY <2>2, <2>6, <2>7 DEF Kills, KillsHit
  <2> QED
    BY <1>2, <2>2, <2>5, <2>7, <2>8
<1>7. CASE reply(s) \/ freply(s)
  <2>1. /\ spc' = [spc EXCEPT ![s] = "replied"] /\ killed' \subseteq killed /\ job' = job
        /\ spc[s] \in {"reply", "freply"}
    BY <1>7 DEF reply, freply, Interrupted, sgoto
  <2>2. q' = q \/ q' = FreeAll({fq[s]}, q)
    BY <1>7 DEF reply, freply
  <2>3. \A x \in Msgs : q[x].shut => q'[x].shut
    BY <1>0, <2>2, FreeFields
  <2>4. s \in killed => job[s] # None /\ q[job[s]].shut
    BY <2>1 DEF Kills, KillsHit
  <2> QED
    BY <1>0, <1>1, <1>2, <2>1, <2>3, <2>4 DEF Typed
<1>8. CASE unlink(s)
  <2>1. /\ spc' = [spc EXCEPT ![s] = "idle"] /\ killed' = killed \ {s}
        /\ job' = [job EXCEPT ![s] = None] /\ q' = FreeAll(Freed(job[s]), q)
    BY <1>8 DEF unlink, sgoto
  <2>2. \A x \in Msgs : q[x].shut => q'[x].shut
    BY <1>0, <2>1, FreeFields
  <2> QED
    BY <1>0, <1>1, <1>2, <2>1, <2>2 DEF Typed
<1> QED
  BY <1>3, <1>4, <1>5, <1>6, <1>7, <1>8 DEF Slave

LEMMA KillsHolds == Spec => []Kills
<1>1. Init => Kills
  BY DEF Init, Kills, KillsHit
<1>2. Inv /\ Kills /\ [Next]_vars => Kills'
  <2>1. Kills /\ UNCHANGED vars => Kills'
    BY DEF Kills, KillsHit, vars, procs
  <2> QED
    BY <2>1, ExportKills, SlaveKills DEF Next
<1> QED
  BY <1>1, <1>2, InvHolds, PTL DEF Spec

\* swiproc leaves its other mark on slaves alone as well.
Pends == swipend \subseteq Slaves

LEMMA PendsHolds == Spec => []Pends
<1>1. Init => Pends
  BY DEF Init, Pends
<1>2. Pends /\ [Next]_vars => Pends'
  <2> SUFFICES ASSUME swipend \subseteq Slaves, [Next]_vars PROVE swipend' \subseteq Slaves
    BY DEF Pends
  <2>1. ASSUME NEW S, swiproc(S) PROVE swipend' \subseteq Slaves
    BY <2>1 DEF swiproc
  <2>2. ASSUME NEW e \in Exports, exflushedWork(e) PROVE swipend' \subseteq Slaves
    <3>1. swipend' = swipend \/ \E S : swiproc(S)
      BY <2>2, Zenon DEF exflushedWork
    <3> QED
      BY <2>1, <3>1
  <2>3. ASSUME NEW e \in Exports, exshutdownWork(e) PROVE swipend' \subseteq Slaves
    BY <2>1, <2>3 DEF exshutdownWork
  <2>4. ASSUME NEW e \in Exports,
               \/ enqueue(e) \/ spawn(e) \/ wakeup(e) \/ exflushedQueue(e) \/ ereply(e)
               \/ exshutdownQueue(e) \/ exportExfree(e) \/ hangup(e)
        PROVE  swipend' = swipend
    BY <2>4 DEF hangup, enqueue, spawn, wakeup, exflushedQueue, ereply, exshutdownQueue,
                exportExfree
  <2>5. ASSUME NEW e \in Exports, NEW m \in Msgs, NEW tag \in Tags,
               readT(e, m, tag) \/ \E oldtag \in Tags : readTflush(e, m, tag, oldtag)
        PROVE  swipend' = swipend
    BY <2>5 DEF readT, readTflush, read
  <2>6. ASSUME NEW s \in Slaves, Slave(s) \/ (\E err \in BOOLEAN : fcallReturns(s, err))
        PROVE  swipend' \in {swipend, swipend \ {s}}
    BY <2>6 DEF Slave, qlockQwait, SleepRwait, take, link, complete, reply, nextFlush, freply,
                unlink, fcallReturns, Interrupted
  <2>7. UNCHANGED vars => swipend' = swipend
    BY DEF vars, procs
  <2> QED
    BY <2>2, <2>3, <2>4, <2>5, <2>6, <2>7 DEF Next, Serve
<1> QED
  BY <1>1, <1>2, PTL DEF Spec

\* up->killed of a flush interrupts the fcall of the request it flushes: not the
\* reply to it, nor the next request of the slave.
THEOREM ExKillsHit == Spec => []KillsHit
<1>1. Kills => KillsHit
  BY DEF Kills
<1> QED
  BY <1>1, KillsHolds, PTL

-----------------------------------------------------------------------------
(* The answers to requests whose fcalls have completed.                     *)

Spoken(m) == ~q[m].err /\ ~q[m].shut => answered[m] = 1

Answering(s) == spc[s] \in {"replied", "freply", "unlink"} => Spoken(job[s])

Completed ==
    /\ \A m \in Msgs : q[m].st = "freed" /\ q[m].slave # None => Spoken(m)
    /\ \A s \in Slaves : Answering(s)

\* exportproc leaves alone what the slaves are at.
LEMMA ExportCompleted ==
    ASSUME Inv, Completed, NEW e \in Exports,
           \/ Serve(e) \/ hangup(e)
           \/ \E m \in Msgs, tag \in Tags :
                 readT(e, m, tag) \/ \E oldtag \in Tags : readTflush(e, m, tag, oldtag)
    PROVE  Completed'
<1>0. Base /\ Typed /\ Placed /\ InHand
  BY DEF Inv, Base
<1>1. /\ UNCHANGED <<job, fq>>
      /\ \A s \in Slaves : Idle(s)
      /\ \A m \in Msgs : /\ q[m].shut => q'[m].shut
                         /\ q'[m].slave = q[m].slave /\ q'[m].err = q[m].err
                         /\ q'[m].st = "freed" => q[m].st = "freed" \/ New(m)
                         /\ answered'[m] = answered[m] \/ New(m)
  BY ExportEffect
<1>2. ASSUME NEW m \in Msgs, Spoken(m), ~New(m) PROVE Spoken(m)'
  BY <1>1, <1>2 DEF Spoken
<1>3. ASSUME NEW m \in Msgs, q'[m].st = "freed", q'[m].slave # None PROVE Spoken(m)'
  BY <1>1, <1>2, <1>3 DEF Completed, New
<1>4. ASSUME NEW s \in Slaves, spc'[s] \in {"replied", "freply", "unlink"} PROVE Spoken(job[s])'
  <2>1. spc[s] = spc'[s]
    BY <1>1, <1>4 DEF Idle, AtJob, AfterLink
  <2>2. job[s] \in Msgs /\ ~New(job[s])
    BY <1>0, <1>4, <2>1, ExportfsAssumption DEF Placed, AtWork, AfterLink, AtJob, InHand, Typed, New
  <2> QED
    BY <1>1, <1>2, <1>4, <2>1, <2>2 DEF Completed, Answering
<1>5. \A s \in Slaves : Answering(s)'
  BY <1>1, <1>4 DEF Answering, Spoken
<1> QED
  BY <1>3, <1>5 DEF Completed

\* A slave answers the request it is at, unless there is an error.
LEMMA SlaveCompleted ==
    ASSUME Inv, Completed, NEW s \in Slaves,
           Slave(s) \/ (\E err \in BOOLEAN : fcallReturns(s, err))
    PROVE  Completed'
<1>0. Base /\ Typed /\ Placed /\ InHand /\ q \in [Msgs -> Exq] /\ answered \in [Msgs -> Nat]
  BY DEF Inv, Base, Typed
<1>1. \A x \in Slaves : spc[x] \in AtJob => job[x] \in Msgs
  BY <1>0 DEF Typed, InHand
<1>2. \A x \in Slaves : spc[x] \in AfterLink => ~New(job[x])
  BY <1>0, ExportfsAssumption DEF Placed, AtWork, New
<1>3. \A x, y \in Slaves : spc[x] \in AtJob /\ spc[y] \in AtJob /\ job[x] = job[y] => x = y
  BY Apart
<1>4. ASSUME \A x \in Slaves : x # s => job'[x] = job[x] /\ Idle(x),
             \A m \in Msgs : \/ q'[m] = q[m] /\ answered'[m] = answered[m]
                             \/ New(m) /\ (q'[m].st # "freed" \/ q'[m].slave = None)
                             \/ m = job[s] /\ spc[s] \in AtJob
                                /\ (q'[m].st # "freed" \/ Spoken(m)'),
             Answering(s)'
      PROVE  Completed'
  <2>1. ASSUME NEW m \in Msgs, q'[m].st = "freed", q'[m].slave # None PROVE Spoken(m)'
    BY <1>4, <2>1 DEF Completed, Spoken
  <2>2. ASSUME NEW x \in Slaves, x # s PROVE Answering(x)'
    <3> SUFFICES ASSUME spc'[x] \in {"replied", "freply", "unlink"} PROVE Answering(x)'
      BY DEF Answering
    <3>1. spc[x] = spc'[x] /\ spc[x] \in AfterLink /\ spc[x] \in AtJob
      BY <1>4, <2>2 DEF Idle, AtJob, AfterLink
    <3>2. job[x] \in Msgs /\ ~New(job[x]) /\ (spc[s] \in AtJob => job[x] # job[s])
      BY <1>1, <1>2, <1>3, <2>2, <3>1
    <3>3. q'[job[x]] = q[job[x]] /\ answered'[job[x]] = answered[job[x]] /\ job'[x] = job[x]
      BY <1>4, <2>2, <3>2
    <3> QED
      BY <1>4, <2>2, <3>1, <3>3 DEF Completed, Answering, Spoken
  <2> QED
    BY <1>4, <2>1, <2>2 DEF Completed
<1>5. CASE qlockQwait(s) \/ SleepRwait(s) \/ take(s)
  <2>1. UNCHANGED <<q, answered>>
    BY <1>5 DEF qlockQwait, SleepRwait, take, history
  <2>2. CASE qlockQwait(s) \/ SleepRwait(s) \/ (take(s) /\ head = << >>)
    <3>1. UNCHANGED job /\ \A x \in Slaves : Idle(x)
      BY <1>0, <2>2, WaitBase DEF qlockQwait, SleepRwait, take
    <3>2. spc[s] \in {"idle", "sleep", "take"}
      BY <2>2 DEF qlockQwait, SleepRwait, take, sgoto
    <3>3. spc'[s] \notin {"replied", "freply", "unlink"}
      BY <3>1, <3>2 DEF Idle, AtJob, AfterLink
    <3> QED
      BY <1>4, <2>1, <3>1, <3>3 DEF Answering
  <2>3. CASE take(s) /\ head # << >>
    <3>1. /\ spc'[s] = "link" /\ job' = [job EXCEPT ![s] = Head(head)]
          /\ \A x \in Slaves : x # s => Idle(x)
      BY <1>0, <2>3, TakeBase
    <3>2. \A x \in Slaves : x # s => job'[x] = job[x]
      BY <1>0, <3>1 DEF Typed
    <3> QED
      BY <1>4, <2>1, <3>1, <3>2 DEF Answering
  <2> QED
    BY <1>5, <2>2, <2>3
<1>6. CASE link(s)
  <2>1. PICK m : m = job[s]
    OBVIOUS
  <2>2. m \in Msgs /\ spc[s] = "link" /\ New(m)
    BY <1>0, <1>1, <1>6, <2>1 DEF Placed, AtLink, link, sgoto, AtJob
  <2>3. /\ spc' = [spc EXCEPT ![s] = "call"] /\ UNCHANGED <<job, answered>>
        /\ \A x \in Msgs : x # m => q'[x] = q[x]
        /\ q'[m] = [q[m] EXCEPT !.slave = s, !.busy = TRUE]
    BY <1>0, <1>6, <2>1, <2>2, LinkEffect DEF New, link, history
  <2>4. q'[m].st = "live"
    BY <1>0, <2>2, <2>3 DEF New, Exq
  <2>5. spc'[s] = "call" /\ \A x \in Slaves : x # s => spc'[x] = spc[x]
    BY <1>0, <2>3 DEF Typed
  <2> QED
    BY <1>4, <2>2, <2>3, <2>4, <2>5 DEF Idle, Answering
<1>7. CASE \E err \in BOOLEAN : fcallReturns(s, err)
  <2>1. PICK m : m = job[s]
    OBVIOUS
  <2>2. /\ m \in Msgs
        /\ spc[s] = "call" /\ spc' = [spc EXCEPT ![s] = "called"]
        /\ \A x \in Msgs : x # m => q'[x] = q[x]
        /\ \E err \in BOOLEAN : q'[m] = [q[m] EXCEPT !.err = err]
        /\ UNCHANGED <<job, answered>>
    <3>1. m \in Msgs /\ \A x \in Msgs : x # m => q'[x] = q[x]
      BY <1>0, <1>7, <2>1, FcallEffect
    <3>2. spc[s] = "call" /\ spc' = [spc EXCEPT ![s] = "called"] /\ UNCHANGED <<job, answered>>
      BY <1>0, <1>7, <2>1, FcallEffect
    <3>3. \E err \in BOOLEAN : q'[m] = [q[m] EXCEPT !.err = err]
      BY <1>0, <1>7, <2>1, FcallEffect
    <3> QED
      BY <3>1, <3>2, <3>3
  <2>3. q'[m].st = "live" /\ spc[s] \in AtJob
    BY <1>0, <2>1, <2>2 DEF Placed, AtWork, AfterLink, AtJob, Exq
  <2>4. spc'[s] = "called" /\ \A x \in Slaves : x # s => spc'[x] = spc[x]
    BY <1>0, <2>2 DEF Typed
  <2> QED
    BY <1>4, <2>1, <2>2, <2>3, <2>4 DEF Idle, Answering
<1>8. CASE complete(s) \/ nextFlush(s)
  <2>1. PICK m : m = job[s]
    OBVIOUS
  <2>2. /\ m \in Msgs
        /\ \A x \in Msgs : x # m => q'[x] = q[x]
        /\ UNCHANGED <<job, answered>>
        /\ ToReply(s, m) \/ ToFlush(s, m) \/ ToUnlink(s, m)
    BY <1>0, <1>8, <2>1, AnswerEffect
  <2>3. spc[s] \in {"called", "replied"} /\ spc[s] \in AtJob /\ spc[s] \in AfterLink
    BY <1>8 DEF complete, nextFlush, AtJob, AfterLink
  <2>4. q[m].st = "live"
    BY <1>0, <2>1, <2>3 DEF Placed, AtWork
  <2>5. q'[m].st = "live" /\ q'[m].err = q[m].err /\ q'[m].shut = q[m].shut
    BY <1>0, <2>2, <2>4 DEF ToReply, ToFlush, ToUnlink, Exq
  <2>6. \A x \in Slaves : x # s => spc'[x] = spc[x]
    BY <1>0, <2>2 DEF ToReply, ToFlush, ToUnlink, Typed
  <2>7. spc'[s] \in {"replied", "freply", "unlink"} => Spoken(m)
    <3>1. spc[s] = "replied" => Spoken(m)
      BY <2>1 DEF Completed, Answering
    <3>2. spc[s] = "called" => spc'[s] = "reply" \/ q[m].shut \/ q[m].err
      BY <1>0, <2>2 DEF ToReply, ToFlush, ToUnlink, Typed
    <3> QED
      BY <2>3, <3>1, <3>2 DEF Spoken
  <2>8. Answering(s)'
    BY <2>1, <2>2, <2>5, <2>7 DEF Answering, Spoken
  <2> QED
    BY <1>4, <2>1, <2>2, <2>3, <2>5, <2>6, <2>8 DEF Idle
<1>9. CASE reply(s) \/ freply(s)
  <2>1. /\ job[s] \in Msgs /\ spc' = [spc EXCEPT ![s] = "replied"] /\ UNCHANGED job
        /\ \/ /\ spc[s] = "reply" /\ exreply(job[s]) /\ UNCHANGED q
           \/ /\ spc[s] = "freply" /\ fq[s] \in Msgs /\ exreply(fq[s])
              /\ q' = FreeAll({fq[s]}, q)
    BY <1>0, <1>9, SendEffect
  <2>2. spc'[s] = "replied" /\ \A x \in Slaves : x # s => spc'[x] = spc[x]
    BY <1>0, <2>1 DEF Typed
  <2>3. CASE spc[s] = "reply" /\ exreply(job[s]) /\ UNCHANGED q
    <3>1. q[job[s]].st = "live" /\ answered[job[s]] = 0 /\ spc[s] \in AtJob
      BY <1>0, <2>3 DEF Placed, AtWork, AfterLink, AtJob
    <3>2. answered'[job[s]] = 1 /\ \A x \in Msgs : x # job[s] => answered'[x] = answered[x]
      BY <1>0, <2>1, <2>3, <3>1 DEF exreply
    <3>3. Answering(s)' /\ Spoken(job[s])'
      BY <2>1, <3>2 DEF Answering, Spoken
    <3> QED
      BY <1>4, <2>1, <2>2, <2>3, <3>1, <3>2, <3>3 DEF Idle
  <2>4. CASE /\ spc[s] = "freply" /\ fq[s] \in Msgs /\ exreply(fq[s])
             /\ q' = FreeAll({fq[s]}, q)
    <3>1. New(fq[s])
      BY <1>0, <2>4, ExportfsAssumption DEF Placed, AtFlush, FlushOf
    <3>2. \A x \in Msgs : x # fq[s] => answered'[x] = answered[x] /\ q'[x] = q[x]
      BY <1>0, <2>4, FreeFields DEF exreply
    <3>3. q'[fq[s]].slave = None
      <4>1. PICK f \in Msgs : f = fq[s]
        BY <2>4
      <4>2. q' = FreeAll({f}, q) /\ q \in [Msgs -> Exq] /\ f \in {f}
        BY <1>0, <2>4, <4>1
      <4>3. q'[f].slave = q[f].slave
        BY <4>2, FreeFields
      <4> QED
        BY <3>1, <4>1, <4>3 DEF New
    <3>4. job[s] # fq[s]
      BY <1>2, <2>4, <3>1 DEF AfterLink
    <3>5. Answering(s)'
      BY <2>1, <2>4, <3>2, <3>4 DEF Completed, Answering, Spoken
    <3> QED
      BY <1>4, <2>1, <2>2, <3>1, <3>2, <3>3, <3>5 DEF Idle
  <2> QED
    BY <2>1, <2>3, <2>4
<1>10. CASE unlink(s)
  <2>1. PICK m : m = job[s]
    OBVIOUS
  <2>2. spc[s] = "unlink" /\ spc[s] \in AfterLink /\ spc[s] \in AtJob
    BY <1>10 DEF unlink, sgoto, AtJob, AfterLink
  <2>3. m \in Msgs /\ q[m].export # None
    BY <1>0, <1>1, <2>1, <2>2 DEF Placed, AtWork
  <2>4. /\ spc' = [spc EXCEPT ![s] = "idle"] /\ job' = [job EXCEPT ![s] = None]
        /\ q' = FreeAll(Freed(m), q) /\ UNCHANGED answered
    BY <1>0, <1>10, <2>1, <2>3, UnlinkEffect
  <2>5. spc'[s] = "idle" /\ \A x \in Slaves : x # s => spc'[x] = spc[x] /\ job'[x] = job[x]
    BY <1>0, <2>4 DEF Typed
  <2>6. Spoken(m)
    BY <2>1, <2>2 DEF Completed, Answering
  <2>7. q'[m].err = q[m].err /\ q'[m].shut = q[m].shut
    BY <1>0, <2>3, <2>4, FreeFields
  <2>8. Spoken(m)'
    BY <2>4, <2>6, <2>7 DEF Spoken
  <2>9. ASSUME NEW x \in Msgs, x # m, x \in Freed(m) PROVE New(x) /\ q'[x].slave = None
    <3>1. In(x, q[m].flush)
      BY <1>0, <2>3, <2>9, ExqFields, ToSetIn DEF Freed
    <3>2. New(x)
      BY <1>0, <2>3, <3>1 DEF Placed, OnFlush, FlushOf
    <3> QED
      BY <1>0, <2>4, <2>9, <3>2, FreeFields DEF New
  <2>10. \A x \in Msgs : x \notin Freed(m) => q'[x] = q[x]
    BY <1>0, <2>4, FreeFields
  <2> QED
    <3>1. Answering(s)'
      BY <2>5 DEF Answering
    <3>2. \A x \in Msgs : \/ q'[x] = q[x] /\ answered'[x] = answered[x]
                          \/ New(x) /\ (q'[x].st # "freed" \/ q'[x].slave = None)
                          \/ x = job[s] /\ spc[s] \in AtJob /\ (q'[x].st # "freed" \/ Spoken(x)')
      BY <2>1, <2>2, <2>4, <2>8, <2>9, <2>10
    <3> QED
      BY <1>4, <2>5, <3>1, <3>2 DEF Idle
<1> QED
  BY <1>5, <1>6, <1>7, <1>8, <1>9, <1>10 DEF Slave

\* A request whose fcall completed without error is answered before its Exq is
\* freed, whatever flush came, but for a connection that was shut down.
THEOREM ExCompletedAnswered == Spec => []CompletedAnswered
<1>1. Init => Completed
  BY DEF Init, Completed, Answering
<1>2. Inv /\ Completed /\ [Next]_vars => Completed'
  <2>1. Completed /\ UNCHANGED vars => Completed'
    BY DEF Completed, Answering, Spoken, vars, procs, history
  <2> QED
    BY <2>1, ExportCompleted, SlaveCompleted DEF Next
<1>3. Completed => CompletedAnswered
  BY DEF Completed, CompletedAnswered, Spoken
<1> QED
  BY <1>1, <1>2, <1>3, InvHolds, PTL DEF Spec

-----------------------------------------------------------------------------
(* The references to an Export.                                             *)

Live(e) == {m \in Msgs : q[m].st = "live" /\ q[m].export = e}
Own(e) == IF epc[e] = "done" THEN 0 ELSE 1

Counted == /\ ref \in [Exports -> Nat]
           /\ \A e \in Exports : IsFiniteSet(Live(e)) /\ ref[e] = Cardinality(Live(e)) + Own(e)

OwnKept == \A e \in Exports : epc'[e] = "done" <=> epc[e] = "done"

\* Steps after which as many Exqs are in use.
LEMMA LiveKept ==
    ASSUME Counted, OwnKept, UNCHANGED ref,
           \A m \in Msgs : q'[m].st = q[m].st /\ q'[m].export = q[m].export
    PROVE  Counted'
<1>1. ASSUME NEW e \in Exports PROVE Live(e)' = Live(e) /\ Own(e)' = Own(e)
  BY DEF Live, Own, OwnKept
<1> QED
  BY <1>1 DEF Counted

\* Exqs of e are freed, and as many references.
LEMMA LiveFreed ==
    ASSUME Counted, OwnKept, NEW e \in Exports, NEW F, F \subseteq Live(e),
           q \in [Msgs -> Exq], q' = FreeAll(F, q), NEW n, n = Cardinality(F), exfree(e, n)
    PROVE  Counted'
<1>1. \A m \in Msgs : /\ m \notin F => q'[m] = q[m]
                      /\ m \in F => q'[m].st = "freed"
  BY FreeFields
<1>2. \A x \in Exports : Own(x)' = Own(x) /\ Own(x) \in Nat
  BY DEF Own, OwnKept
<1>3. ASSUME NEW x \in Exports, x # e PROVE Live(x)' = Live(x)
  <2>1. \A m \in Msgs : m \in F => q[m].export = e
    BY DEF Live
  <2> QED
    BY <1>1, <1>3, <2>1 DEF Live
<1>4. Live(e)' = Live(e) \ F
  BY <1>1 DEF Live
<1>5. IsFiniteSet(Live(e)) /\ Cardinality(Live(e)) \in Nat
  BY FS_CardinalityType DEF Counted
<1>6. /\ IsFiniteSet(Live(e) \ F)
      /\ Cardinality(Live(e) \ F) = Cardinality(Live(e)) - Cardinality(Live(e) \cap F)
  BY <1>5, FS_Difference
<1>7. Live(e) \cap F = F
  OBVIOUS
<1>8. n \in Nat /\ n <= Cardinality(Live(e))
  <2>1. F \in SUBSET Live(e)
    OBVIOUS
  <2> QED
    BY <1>5, <2>1, FS_Subset, FS_CardinalityType
<1>9. ref' = [ref EXCEPT ![e] = @ - n]
  BY DEF exfree
<1>10. ref[e] = Cardinality(Live(e)) + Own(e) /\ ref \in [Exports -> Nat]
  BY DEF Counted
<1>11. ref[e] - n = Cardinality(Live(e))' + Own(e)' /\ ref[e] - n \in Nat
  BY <1>2, <1>4, <1>5, <1>6, <1>7, <1>8, <1>10
<1>12. ref' \in [Exports -> Nat]
  BY <1>9, <1>10, <1>11
<1>13. ASSUME NEW x \in Exports
       PROVE  IsFiniteSet(Live(x))' /\ ref'[x] = Cardinality(Live(x))' + Own(x)'
  <2>1. CASE x = e
    BY <1>4, <1>6, <1>9, <1>10, <1>11, <2>1
  <2>2. CASE x # e
    BY <1>2, <1>3, <1>9, <1>10, <2>2 DEF Counted
  <2> QED
    BY <2>1, <2>2
<1> QED
  BY <1>12, <1>13 DEF Counted

\* exportproc counts what it reads, and what it frees.
LEMMA ReadCounted ==
    ASSUME Inv, Counted, NEW e \in Exports, NEW m \in Msgs, NEW next \in ExportLabels \ {"done"},
           NEW type, NEW tag, NEW oldtag, read(e, m, next, type, tag, oldtag)
    PROVE  Counted'
<1>0. Typed /\ q \in [Msgs -> Exq] /\ ref \in [Exports -> Nat]
  BY DEF Inv, Base, Typed, Counted
<1>1. /\ epc[e] = "read" /\ epc' = [epc EXCEPT ![e] = next]
      /\ q[m].st = "unread" /\ ref' = [ref EXCEPT ![e] = @ + 1]
      /\ q' = [q EXCEPT ![m].st = "live", ![m].export = e, ![m].type = type,
                        ![m].tag = tag, ![m].oldtag = oldtag]
  BY DEF read, egoto
<1>2. /\ q'[m].st = "live" /\ q'[m].export = e
      /\ \A x \in Msgs : x # m => q'[x] = q[x]
  BY <1>0, <1>1 DEF Exq
<1>3. ASSUME NEW x \in Exports PROVE Own(x)' = Own(x)
  BY <1>0, <1>1 DEF Own, Typed
<1>4. ASSUME NEW x \in Exports, x # e PROVE Live(x)' = Live(x)
  BY <1>1, <1>2, <1>4 DEF Live
<1>5. Live(e)' = Live(e) \cup {m} /\ m \notin Live(e)
  BY <1>1, <1>2 DEF Live
<1>6. /\ IsFiniteSet(Live(e)) /\ Cardinality(Live(e)) \in Nat /\ Own(e) \in Nat
      /\ ref[e] = Cardinality(Live(e)) + Own(e)
  BY FS_CardinalityType DEF Counted, Own
<1>7. IsFiniteSet(Live(e))' /\ Cardinality(Live(e))' = Cardinality(Live(e)) + 1
  BY <1>5, <1>6, FS_AddElement
<1>8. ref' \in [Exports -> Nat] /\ ref'[e] = ref[e] + 1 /\ \A x \in Exports : x # e => ref'[x] = ref[x]
  BY <1>0, <1>1
<1>9. ref'[e] = Cardinality(Live(e))' + Own(e)'
  BY <1>3, <1>6, <1>7, <1>8
<1>10. ASSUME NEW x \in Exports, x # e
       PROVE  IsFiniteSet(Live(x))' /\ ref'[x] = Cardinality(Live(x))' + Own(x)'
  BY <1>3, <1>4, <1>8, <1>10 DEF Counted
<1> QED
  BY <1>7, <1>8, <1>9, <1>10 DEF Counted

LEMMA ServeCounted ==
    ASSUME Inv, Counted, NEW e \in Exports, Serve(e) \/ hangup(e)
    PROVE  Counted'
<1>0. Base /\ Typed /\ Placed /\ InHand /\ q \in [Msgs -> Exq] /\ ref \in [Exports -> Nat]
  BY DEF Inv, Base, Typed, Counted
<1>1. ASSUME NEW from \in ExportLabels \ {"done"}, NEW to \in ExportLabels \ {"done"},
             egoto(e, from, to)
      PROVE  OwnKept
  BY <1>0, <1>1 DEF egoto, OwnKept, Typed
<1>2. CASE enqueue(e) \/ spawn(e) \/ wakeup(e) \/ hangup(e)
  <2>1. UNCHANGED <<ref, q>>
    BY <1>2 DEF enqueue, spawn, wakeup, hangup, exports
  <2>2. OwnKept
    BY <1>0, <1>2 DEF OwnKept, enqueue, spawn, wakeup, hangup, egoto, Typed
  <2> QED
    BY <2>1, <2>2, LiveKept
<1>3. CASE exflushedQueue(e)
  <2>1. OwnKept
    BY <1>0, <1>3 DEF exflushedQueue, OwnKept, Typed
  <2>2. \/ UNCHANGED <<q, ref>>
        \/ \E m \in Msgs : /\ In(m, head) /\ q[m].export = e
                           /\ q' = FreeAll(Freed(m), q) /\ exfree(e, Cardinality(Freed(m)))
    <3>1. CASE UNCHANGED <<q, ref>>
      BY <3>1
    <3>2. CASE \E n \in 1 .. Len(head) : /\ Wanted(e, q[cur[e]].oldtag, head[n])
                                         /\ q' = FreeAll(Freed(head[n]), q)
                                         /\ exfree(e, Cardinality(Freed(head[n])))
      <4>1. PICK n \in 1 .. Len(head) : /\ Wanted(e, q[cur[e]].oldtag, head[n])
                                        /\ q' = FreeAll(Freed(head[n]), q)
                                        /\ exfree(e, Cardinality(Freed(head[n])))
        BY <3>2
      <4>2. head[n] \in Msgs /\ In(head[n], head) /\ q[head[n]].export = e
        BY <1>0, <4>1 DEF Wanted, In, Typed
      <4> QED
        BY <4>1, <4>2
    <3> QED
      BY <1>0, <1>3, <3>1, <3>2, QueueFound
  <2>3. ASSUME NEW m \in Msgs, In(m, head), q[m].export = e,
               q' = FreeAll(Freed(m), q), exfree(e, Cardinality(Freed(m)))
        PROVE  Counted'
    <3>1. New(m)
      BY <1>0, <2>3 DEF Placed, OnHead
    <3>2. Freed(m) \subseteq Live(e)
      BY <2>3, <3>1 DEF New, Freed, ToSet, Live
    <3> QED
      BY <1>0, <2>1, <2>3, <3>2, LiveFreed
  <2> QED
    BY <2>1, <2>2, <2>3, LiveKept
<1>4. CASE exflushedWork(e)
  <2>1. ref' = ref
    BY <1>4 DEF exflushedWork
  <2>2. OwnKept
    BY <1>0, <1>4 DEF exflushedWork, OwnKept, Typed
  <2>3. q' = q \/ \E n \in 1 .. Len(work[e]) : q' = [q EXCEPT ![work[e][n]].flush = Append(@, cur[e])]
    BY <1>0, <1>4, WorkFound
  <2>4. ASSUME NEW n \in 1 .. Len(work[e]), q' = [q EXCEPT ![work[e][n]].flush = Append(@, cur[e])]
        PROVE  \A m \in Msgs : q'[m].st = q[m].st /\ q'[m].export = q[m].export
    <3>1. PICK k \in Msgs : k = work[e][n]
      BY <1>0 DEF Typed
    <3>2. /\ \A m \in Msgs : m # k => q'[m] = q[m]
          /\ q'[k].st = q[k].st /\ q'[k].export = q[k].export
      BY <1>0, <2>4, <3>1 DEF Exq
    <3> QED
      BY <3>2
  <2>5. \A m \in Msgs : q'[m].st = q[m].st /\ q'[m].export = q[m].export
    BY <2>3, <2>4
  <2> QED
    BY <2>1, <2>2, <2>5, LiveKept
<1>5. CASE ereply(e)
  <2>1. PICK m \in Msgs : m = cur[e]
    BY <1>0, <1>5 DEF ereply, egoto, InHand, AtMsg, Typed
  <2>2. New(m) /\ q[m].export = e
    BY <1>0, <2>1, ExportfsAssumption DEF Placed, AtCur
  <2>3. Freed(m) = {m} /\ Freed(m) \subseteq Live(e)
    BY <2>2 DEF New, Freed, ToSet, Live
  <2>4. Cardinality(Freed(m)) = 1
    BY <2>3, FS_Singleton
  <2>5. OwnKept /\ q' = FreeAll(Freed(m), q) /\ exfree(e, 1)
    BY <1>0, <1>5, <2>1 DEF ereply, egoto, OwnKept, Typed
  <2> QED
    BY <1>0, <2>3, <2>4, <2>5, LiveFreed
<1>6. CASE exshutdownQueue(e)
  <2>1. PICK F : F = {m \in ToSet(head) : q[m].export = e}
    OBVIOUS
  <2>2. q' = FreeAll(F, q) /\ exfree(e, Cardinality(F))
    BY <1>6, <2>1 DEF exshutdownQueue
  <2>3. \A m \in F : m \in Msgs /\ In(m, head)
    BY <1>0, <2>1, ToSetIn DEF Typed, ToSet
  <2>4. F \subseteq Live(e)
    BY <1>0, <2>1, <2>3 DEF Placed, OnHead, New, Live
  <2>5. OwnKept
    BY <1>0, <1>6 DEF exshutdownQueue, egoto, OwnKept, Typed
  <2> QED
    BY <1>0, <2>2, <2>4, <2>5, LiveFreed
<1>7. CASE exshutdownWork(e)
  <2>1. ref' = ref
    BY <1>7 DEF exshutdownWork
  <2>2. OwnKept
    BY <1>0, <1>7 DEF exshutdownWork, egoto, OwnKept, Typed
  <2>3. \E M : q' = [m \in Msgs |-> IF m \in M THEN [q[m] EXCEPT !.shut = TRUE] ELSE q[m]]
    BY <1>7 DEF exshutdownWork
  <2>4. \A m \in Msgs : q'[m].st = q[m].st /\ q'[m].export = q[m].export
    BY <1>0, <2>3 DEF Exq
  <2> QED
    BY <2>1, <2>2, <2>4, LiveKept
<1>8. CASE exportExfree(e)
  <2>1. /\ epc[e] = "exfree" /\ epc' = [epc EXCEPT ![e] = "done"]
        /\ ref' = [ref EXCEPT ![e] = @ - 1] /\ q' = q
    BY <1>8 DEF exportExfree, egoto, exfree
  <2>2. \A x \in Exports : Live(x)' = Live(x)
    BY <2>1 DEF Live
  <2>3. Own(e) = 1 /\ Own(e)' = 0 /\ \A x \in Exports : x # e => Own(x)' = Own(x)
    BY <1>0, <2>1 DEF Own, Typed
  <2>4. Cardinality(Live(e)) \in Nat /\ ref[e] = Cardinality(Live(e)) + 1
    BY <2>3, FS_CardinalityType DEF Counted
  <2>5. /\ ref' \in [Exports -> Nat] /\ ref'[e] = Cardinality(Live(e))
        /\ \A x \in Exports : x # e => ref'[x] = ref[x]
    BY <1>0, <2>1, <2>4
  <2>6. \A x \in Exports : ref'[x] = Cardinality(Live(x)) + Own(x)'
    BY <2>3, <2>4, <2>5 DEF Counted
  <2> QED
    BY <2>2, <2>5, <2>6 DEF Counted
<1> QED
  BY <1>2, <1>3, <1>4, <1>5, <1>6, <1>7, <1>8 DEF Serve

\* A slave counts the flush that it answers, and at the end its request with
\* the flushes still on it.
LEMMA SlaveCounted ==
    ASSUME Inv, Counted, NEW s \in Slaves,
           Slave(s) \/ (\E err \in BOOLEAN : fcallReturns(s, err))
    PROVE  Counted'
<1>0. Base /\ Typed /\ Placed /\ InHand /\ q \in [Msgs -> Exq]
  BY DEF Inv, Base, Typed
<1>1. OwnKept
  <2>1. UNCHANGED epc
    BY DEF Slave, qlockQwait, SleepRwait, take, link, fcallReturns, complete, reply,
           nextFlush, freply, unlink
  <2> QED
    BY <2>1 DEF OwnKept
<1>2. CASE qlockQwait(s) \/ SleepRwait(s) \/ take(s)
  <2>1. UNCHANGED <<q, ref>>
    BY <1>2 DEF qlockQwait, SleepRwait, take, exports
  <2> QED
    BY <1>1, <2>1, LiveKept
<1>3. CASE link(s)
  <2>1. PICK m : m = job[s]
    OBVIOUS
  <2>2. m \in Msgs /\ ref' = ref
    BY <1>0, <1>3, <2>1 DEF link, sgoto, AtJob, InHand, Typed
  <2>3. q' = [q EXCEPT ![m].slave = s, ![m].busy = TRUE]
    BY <1>3, <2>1 DEF link
  <2>4. /\ \A x \in Msgs : x # m => q'[x] = q[x]
        /\ q'[m].st = q[m].st /\ q'[m].export = q[m].export
    BY <1>0, <2>2, <2>3 DEF Exq
  <2> QED
    BY <1>1, <2>2, <2>4, LiveKept
<1>4. CASE \E err \in BOOLEAN : fcallReturns(s, err)
  <2>1. PICK m : m = job[s]
    OBVIOUS
  <2>2. /\ m \in Msgs /\ ref' = ref
        /\ \A x \in Msgs : x # m => q'[x] = q[x]
        /\ \E err \in BOOLEAN : q'[m] = [q[m] EXCEPT !.err = err]
    <3>1. m \in Msgs /\ ref' = ref /\ \A x \in Msgs : x # m => q'[x] = q[x]
      BY <1>0, <1>4, <2>1, FcallEffect
    <3>2. \E err \in BOOLEAN : q'[m] = [q[m] EXCEPT !.err = err]
      BY <1>0, <1>4, <2>1, FcallEffect
    <3> QED
      BY <3>1, <3>2
  <2>3. q'[m].st = q[m].st /\ q'[m].export = q[m].export
    BY <1>0, <2>2 DEF Exq
  <2> QED
    BY <1>1, <2>2, <2>3, LiveKept
<1>5. CASE complete(s) \/ nextFlush(s)
  <2>1. PICK m : m = job[s]
    OBVIOUS
  <2>2. /\ m \in Msgs /\ ref' = ref
        /\ \A x \in Msgs : x # m => q'[x] = q[x]
        /\ ToReply(s, m) \/ ToFlush(s, m) \/ ToUnlink(s, m)
    BY <1>0, <1>5, <2>1, AnswerEffect
  <2>3. q'[m].st = q[m].st /\ q'[m].export = q[m].export
    BY <1>0, <2>2 DEF ToReply, ToFlush, ToUnlink, Exq
  <2> QED
    BY <1>1, <2>2, <2>3, LiveKept
<1>6. CASE reply(s)
  <2>1. UNCHANGED <<q, ref>>
    BY <1>6 DEF reply, exports
  <2> QED
    BY <1>1, <2>1, LiveKept
<1>7. CASE freply(s)
  <2>1. PICK f \in Msgs : f = fq[s]
    BY <1>0, <1>7 DEF freply, sgoto, InHand, Typed
  <2>2. New(f) /\ q[f].export \in Exports
    BY <1>0, <2>1, ExportfsAssumption, ExqFields DEF Placed, AtFlush, FlushOf, New
  <2>3. {f} \subseteq Live(q[f].export) /\ Cardinality({f}) = 1
    BY <2>2, FS_Singleton DEF New, Live
  <2>4. q' = FreeAll({f}, q) /\ exfree(q[f].export, 1)
    BY <1>7, <2>1 DEF freply
  <2> QED
    BY <1>0, <1>1, <2>2, <2>3, <2>4, LiveFreed
<1>8. CASE unlink(s)
  <2>1. PICK m \in Msgs : m = job[s] /\ q[m].st = "live" /\ q[m].export # None
    BY <1>0, <1>8 DEF unlink, sgoto, InHand, Typed, AtJob, AfterLink, Placed, AtWork
  <2>2. q[m].export \in Exports /\ q' = FreeAll(Freed(m), q) /\ exfree(q[m].export, Cardinality(Freed(m)))
    BY <1>0, <1>8, <2>1, UnlinkEffect
  <2>3. ASSUME NEW x \in Freed(m) PROVE x \in Live(q[m].export)
    <3>1. CASE x = m
      BY <2>1, <3>1 DEF Live
    <3>2. CASE In(x, q[m].flush)
      <4>1. x \in Msgs
        BY <1>0, <2>1, <3>2, ExqFields DEF In
      <4> QED
        BY <1>0, <2>1, <3>2, <4>1 DEF Placed, OnFlush, FlushOf, New, Live
    <3> QED
      BY <1>0, <2>1, <2>3, <3>1, <3>2, ExqFields, ToSetIn DEF Freed
  <2> QED
    BY <1>0, <1>1, <2>2, <2>3, LiveFreed
<1> QED
  BY <1>2, <1>3, <1>4, <1>5, <1>6, <1>7, <1>8 DEF Slave

\* The variables keep their types, and an Export has a reference for its
\* exportproc and one for each Exq that is in use.
THEOREM ExRefsCounted == Spec => []RefsCounted
<1>1. Init => Counted
  <2> SUFFICES ASSUME Init PROVE Counted
    OBVIOUS
  <2>1. \A e \in Exports : Live(e) = {} /\ Own(e) = 1 /\ ref[e] = 1
    BY DEF Init, Live, Own
  <2>2. \A e \in Exports : IsFiniteSet(Live(e)) /\ Cardinality(Live(e)) = 0
    BY <2>1, FS_EmptySet
  <2>3. ref \in [Exports -> Nat]
    BY DEF Init
  <2> QED
    BY <2>1, <2>2, <2>3 DEF Counted
<1>2. Inv /\ Counted /\ [Next]_vars => Counted'
  <2>1. Counted /\ UNCHANGED vars => Counted'
    <3> SUFFICES ASSUME Counted, UNCHANGED vars PROVE Counted'
      OBVIOUS
    <3> QED
      BY LiveKept DEF OwnKept, vars, procs, exports
  <2>2. ASSUME Inv, Counted, NEW e \in Exports, NEW m \in Msgs, NEW tag \in Tags,
               readT(e, m, tag) \/ \E oldtag \in Tags : readTflush(e, m, tag, oldtag)
        PROVE  Counted'
    <3>1. \E next \in {"queue", "reply", "flushq"} : \E type, oldtag :
             read(e, m, next, type, tag, oldtag)
      BY <2>2 DEF readT, readTflush
    <3> QED
      BY <2>2, <3>1, ReadCounted DEF ExportLabels
  <2> QED
    BY <2>1, <2>2, ServeCounted, SlaveCounted DEF Next
<1>3. Inv /\ Kills /\ Pends /\ Counted => RefsCounted
  BY DEF Inv, Base, Typed, Kills, Pends, Counted, TypeOK, RefsCounted, Live, Own
<1> QED
  BY <1>1, <1>2, <1>3, InvHolds, KillsHolds, PendsHolds, PTL DEF Spec

-----------------------------------------------------------------------------
(* The answers are sent once, and none to a request that was flushed.  The  *)
(* client does not use a tag again while a message that has it, or a flush  *)
(* of one, is not answered: so an Rflush, when it is sent, cancels a request *)
(* that has been taken off the list, or that a slave has promised not to    *)
(* answer, or that is nowhere.                                              *)

\* The client waits for an answer to m.
Owed(m) == q[m].st # "unread" /\ answered[m] = 0 /\ m \notin cancelled

\* f flushes the request m.
Flushes(f, m) == q[f].type = "Tflush" /\ q[f].export = q[m].export /\ q[f].oldtag = q[m].tag

\* m is on exq's list, or is about to be on the work list.
Ahead(m) == In(m, head) \/ \E s \in Slaves : spc[s] = "link" /\ job[s] = m

\* m is a request that exportproc or a slave is still to answer, perhaps.
AtDue == {"link", "call", "called", "reply"}
Due(m) == q[m].type = "T" /\ \/ \E e \in Exports : cur[e] = m
                             \/ In(m, head)
                             \/ \E s \in Slaves : spc[s] \in AtDue /\ job[s] = m

\* f waits for the slave that is at m.
Waits(f, m) == In(f, q[m].flush) \/ \E s \in Slaves : fq[s] = f /\ job[s] = m

\* An answer to a message would find its client waiting for it.
Known == \A m \in Msgs : /\ Due(m) => m \notin cancelled
                         /\ m \in cancelled => q[m].st # "unread" /\ q[m].type = "T"

\* The client's use of tags.
Tagged ==
    /\ \A m, n \in Msgs :
          Owed(m) /\ Owed(n) /\ q[m].export = q[n].export /\ q[m].tag = q[n].tag => m = n
    /\ \A f, m \in Msgs : q[f].st # "unread" /\ answered[f] = 0 /\ Flushes(f, m) /\ Owed(m)
                             => q[m].type = "T"

\* Of the requests in the work list with the tag of one before, none is owed an
\* answer.
Sorted(e) == \A m, n \in Msgs : Before(work[e], m, n) /\ q[m].tag = q[n].tag => ~Owed(n)

\* What exflushed has established.
Passed(e) ==
    cur[e] # None /\ q[cur[e]].type = "Tflush" =>
        \A m \in Msgs : Flushes(cur[e], m) =>
            /\ epc[e] \in {"flushw", "reply"} => ~Ahead(m)
            /\ epc[e] = "reply" => ~Due(m)

\* A flush that waits keeps the client from using the tag.
Alone == \A f, m, n \in Msgs : Waits(f, m) /\ Flushes(f, n) /\ Due(n) => n = m

Once == Known /\ Tagged /\ Alone /\ \A e \in Exports : Sorted(e) /\ Passed(e)

LEMMA DueFacts ==
    ASSUME Inv, NEW m \in Msgs, Due(m)
    PROVE  q[m].st = "live" /\ q[m].export # None /\ answered[m] = 0
<1>0. Placed /\ m # None
  BY ExportfsAssumption DEF Inv
<1>1. CASE \E e \in Exports : cur[e] = m
  BY <1>0, <1>1 DEF Placed, AtCur, New
<1>2. CASE In(m, head)
  BY <1>0, <1>2 DEF Placed, OnHead, New
<1>3. CASE \E s \in Slaves : spc[s] = "link" /\ job[s] = m
  BY <1>0, <1>3 DEF Placed, AtLink, New
<1>4. CASE \E s \in Slaves : spc[s] \in {"call", "called", "reply"} /\ job[s] = m
  BY <1>0, <1>4 DEF Placed, AtWork, AfterLink
<1> QED
  BY <1>1, <1>2, <1>3, <1>4 DEF Due, AtDue

\* Messages stay what they are.
Same == \A m \in Msgs : /\ q'[m].st = "unread" <=> q[m].st = "unread"
                        /\ q'[m].type = q[m].type /\ q'[m].export = q[m].export
                        /\ q'[m].tag = q[m].tag /\ q'[m].oldtag = q[m].oldtag

\* Once a message is not owed an answer any more, it never is.
Paid == \A m \in Msgs : /\ answered'[m] = 0 => answered[m] = 0
                        /\ m \in cancelled => m \in cancelled'

Fewer == \A m \in Msgs : Due(m)' => Due(m)

LEMMA KnownKept ==
    ASSUME Known, Same, Fewer,
           \A m \in Msgs : m \in cancelled' =>
               m \in cancelled \/ (q[m].st # "unread" /\ q[m].type = "T" /\ ~Due(m)')
    PROVE  Known'
BY DEF Known, Same, Fewer

LEMMA OwedKept == ASSUME Same, Paid PROVE \A m \in Msgs : Owed(m)' => Owed(m)
BY DEF Same, Paid, Owed

LEMMA TaggedKept == ASSUME Tagged, Same, Paid PROVE Tagged'
<1>1. \A m \in Msgs : Owed(m)' => Owed(m)
  BY OwedKept
<1>2. \A m, n \in Msgs : Owed(m)' /\ Owed(n)' /\ q'[m].export = q'[n].export /\ q'[m].tag = q'[n].tag
                            => m = n
  BY <1>1 DEF Tagged, Same
<1>3. \A f, m \in Msgs : q'[f].st # "unread" /\ answered'[f] = 0 /\ Flushes(f, m)' /\ Owed(m)'
                            => q'[m].type = "T"
  BY <1>1 DEF Tagged, Same, Paid, Flushes
<1> QED
  BY <1>2, <1>3 DEF Tagged

LEMMA AloneKept ==
    ASSUME Alone, Same, Fewer, \A f, m \in Msgs : Waits(f, m)' => Waits(f, m)
    PROVE  Alone'
<1>1. \A f, m \in Msgs : Flushes(f, m)' => Flushes(f, m)
  BY DEF Same, Flushes
<1> QED
  BY <1>1 DEF Alone, Fewer

LEMMA SortedKept ==
    ASSUME NEW e, Sorted(e), Same, Paid,
           \A m, n \in Msgs : Before(work[e], m, n)' => Before(work[e], m, n)
    PROVE  Sorted(e)'
<1>1. \A m \in Msgs : Owed(m)' => Owed(m)
  BY OwedKept
<1> QED
  BY <1>1 DEF Sorted, Same

LEMMA PassedKept ==
    ASSUME NEW e, Passed(e), Same, Fewer,
           cur[e] \in Msgs \cup {None}, cur'[e] = cur[e] \/ cur'[e] = None,
           epc'[e] \in {"flushw", "reply"} => epc'[e] = epc[e],
           \A m \in Msgs : Ahead(m)' => Ahead(m)
    PROVE  Passed(e)'
<1>1. CASE cur'[e] = None
  BY <1>1 DEF Passed
<1>2. CASE cur'[e] # None
  <2>1. cur'[e] = cur[e]
    BY <1>2
  <2>2. PICK f \in Msgs : f = cur[e] /\ cur'[e] = f /\ f # None
    BY <1>2, <2>1
  <2>3. q'[f].type = q[f].type /\ \A m \in Msgs : Flushes(f, m)' => Flushes(f, m)
    BY DEF Same, Flushes
  <2>4. ASSUME q'[f].type = "Tflush", NEW m \in Msgs, Flushes(f, m)'
        PROVE  /\ epc'[e] \in {"flushw", "reply"} => ~Ahead(m)'
               /\ epc'[e] = "reply" => ~Due(m)'
    BY <2>2, <2>3, <2>4 DEF Passed, Fewer
  <2>5. \A m \in Msgs : Flushes(cur[e], m)' => Flushes(f, m)'
    BY <2>2 DEF Flushes
  <2> QED
    BY <2>2, <2>3, <2>4, <2>5 DEF Passed
<1> QED
  BY <1>1, <1>2

\* Slaves go on from where they are, or stop.
Onwards(s) == /\ spc'[s] \in AtDue => spc[s] \in AtDue /\ job'[s] = job[s]
              /\ spc'[s] = "link" => spc[s] = "link"

LEMMA FewerKept ==
    ASSUME Same, \A e \in Exports : cur'[e] = cur[e] \/ cur'[e] = None,
           \A m \in Msgs : In(m, head') => In(m, head),
           \A s \in Slaves : Onwards(s)
    PROVE  Fewer /\ \A m \in Msgs : Ahead(m)' => Ahead(m)
<1>1. ASSUME NEW m \in Msgs PROVE /\ Due(m)' => Due(m)
                                  /\ Ahead(m)' => Ahead(m)
  <2>1. m # None
    BY ExportfsAssumption
  <2>2. (\E e \in Exports : cur'[e] = m) => \E e \in Exports : cur[e] = m
    BY <2>1
  <2>3. (\E s \in Slaves : spc'[s] \in AtDue /\ job'[s] = m) => \E s \in Slaves : spc[s] \in AtDue /\ job[s] = m
    BY DEF Onwards
  <2>4. (\E s \in Slaves : spc'[s] = "link" /\ job'[s] = m) => \E s \in Slaves : spc[s] = "link" /\ job[s] = m
    BY DEF Onwards, AtDue
  <2>5. q'[m].type = q[m].type
    BY DEF Same
  <2> QED
    BY <2>2, <2>3, <2>4, <2>5 DEF Due, Ahead
<1> QED
  BY <1>1 DEF Fewer

LEMMA OnceKept ==
    ASSUME Once, Typed, Same, \A e \in Exports : cur'[e] = cur[e] \/ cur'[e] = None,
           \A e \in Exports : epc'[e] \in {"flushw", "reply"} => epc'[e] = epc[e],
           \A m \in Msgs : In(m, head') => In(m, head),
           \A s \in Slaves : Onwards(s),
           UNCHANGED <<answered, cancelled>>,
           \A f, m \in Msgs : Waits(f, m)' => Waits(f, m),
           \A e \in Exports : \A m, n \in Msgs : Before(work[e], m, n)' => Before(work[e], m, n)
    PROVE  Once'
<1>1. Fewer /\ \A m \in Msgs : Ahead(m)' => Ahead(m)
  BY FewerKept
<1>2. Paid
  BY DEF Paid
<1>3. Known'
  BY <1>1, KnownKept DEF Once
<1>4. Tagged' /\ Alone'
  BY <1>1, <1>2, TaggedKept, AloneKept DEF Once
<1>5. ASSUME NEW e \in Exports PROVE Sorted(e)' /\ Passed(e)'
  <2>1. Sorted(e) /\ Passed(e) /\ cur[e] \in Msgs \cup {None}
    BY DEF Once, Typed
  <2> QED
    BY <1>1, <1>2, <2>1, SortedKept, PassedKept
<1> QED
  BY <1>3, <1>4, <1>5 DEF Once

\* No step but a read makes a message another.
LEMMA FreeSame ==
    ASSUME q \in [Msgs -> Exq], NEW F, \A m \in F : m \in Msgs => q[m].st # "unread",
           q' = FreeAll(F, q)
    PROVE  Same
<1>1. ASSUME NEW m \in Msgs
      PROVE  /\ q'[m].st = "unread" <=> q[m].st = "unread"
             /\ q'[m].type = q[m].type /\ q'[m].export = q[m].export
             /\ q'[m].tag = q[m].tag /\ q'[m].oldtag = q[m].oldtag
  BY FreeFields
<1> QED
  BY <1>1 DEF Same

LEMMA OneSame ==
    ASSUME NEW m, \A x \in Msgs : x # m => q'[x] = q[x],
           q'[m].st = q[m].st, q'[m].type = q[m].type, q'[m].export = q[m].export,
           q'[m].tag = q[m].tag, q'[m].oldtag = q[m].oldtag
    PROVE  Same
BY DEF Same

LEMMA ServeSame ==
    ASSUME Inv, NEW e \in Exports, Serve(e) \/ hangup(e)
    PROVE  Same
<1>0. Base /\ Typed /\ Placed /\ InHand /\ q \in [Msgs -> Exq]
  BY DEF Inv, Base, Typed
<1>1. q' = q => Same
  BY DEF Same
<1>2. CASE enqueue(e) \/ spawn(e) \/ wakeup(e) \/ exportExfree(e) \/ hangup(e)
  BY <1>1, <1>2 DEF enqueue, spawn, wakeup, exportExfree, hangup
<1>3. CASE exflushedQueue(e)
  <2>1. CASE q' = q
    BY <1>1, <2>1
  <2>2. CASE \E n \in 1 .. Len(head) : q' = FreeAll(Freed(head[n]), q)
    <3>1. PICK m \in Msgs : In(m, head) /\ q' = FreeAll(Freed(m), q)
      BY <1>0, <2>2 DEF In, Typed
    <3>2. New(m) /\ Freed(m) = {m}
      BY <1>0, <3>1 DEF Placed, OnHead, New, Freed, ToSet
    <3>3. q[m].st # "unread"
      BY <3>2 DEF New
    <3> QED
      BY <1>0, <3>1, <3>2, <3>3, FreeSame
  <2> QED
    BY <1>0, <1>3, <2>1, <2>2, QueueFound
<1>4. CASE exflushedWork(e)
  <2>1. q' = q \/ \E n \in 1 .. Len(work[e]) : q' = [q EXCEPT ![work[e][n]].flush = Append(@, cur[e])]
    BY <1>0, <1>4, WorkFound
  <2>2. ASSUME NEW n \in 1 .. Len(work[e]), q' = [q EXCEPT ![work[e][n]].flush = Append(@, cur[e])]
        PROVE  Same
    <3>1. PICK m \in Msgs : m = work[e][n]
      BY <1>0 DEF Typed
    <3>2. /\ \A x \in Msgs : x # m => q'[x] = q[x]
          /\ q'[m].st = q[m].st /\ q'[m].type = q[m].type /\ q'[m].export = q[m].export
          /\ q'[m].tag = q[m].tag /\ q'[m].oldtag = q[m].oldtag
      BY <1>0, <2>2, <3>1 DEF Exq
    <3> QED
      BY <3>2, OneSame
  <2> QED
    BY <1>1, <2>1, <2>2
<1>5. CASE ereply(e)
  <2>1. PICK m \in Msgs : m = cur[e]
    BY <1>0, <1>5 DEF ereply, egoto, InHand, AtMsg, Typed
  <2>2. New(m) /\ Freed(m) = {m}
    BY <1>0, <2>1, ExportfsAssumption DEF Placed, AtCur, New, Freed, ToSet
  <2>3. q' = FreeAll(Freed(m), q) /\ q[m].st # "unread"
    BY <1>5, <2>1, <2>2 DEF ereply, New
  <2> QED
    BY <1>0, <2>2, <2>3, FreeSame
<1>6. CASE exshutdownQueue(e)
  <2>1. PICK F : F = {m \in ToSet(head) : q[m].export = e}
    OBVIOUS
  <2>2. q' = FreeAll(F, q)
    BY <1>6, <2>1 DEF exshutdownQueue
  <2>3. \A m \in F : m \in Msgs /\ In(m, head)
    BY <1>0, <2>1, ToSetIn DEF Typed, ToSet
  <2>4. \A m \in F : q[m].st # "unread"
    BY <1>0, <2>3 DEF Placed, OnHead, New
  <2> QED
    BY <1>0, <2>2, <2>4, FreeSame
<1>7. CASE exshutdownWork(e)
  <2>1. \E M : q' = [m \in Msgs |-> IF m \in M THEN [q[m] EXCEPT !.shut = TRUE] ELSE q[m]]
    BY <1>7 DEF exshutdownWork
  <2>2. \A m \in Msgs : /\ q'[m].st = q[m].st /\ q'[m].type = q[m].type
                        /\ q'[m].export = q[m].export
                        /\ q'[m].tag = q[m].tag /\ q'[m].oldtag = q[m].oldtag
    BY <1>0, <2>1 DEF Exq
  <2> QED
    BY <2>2 DEF Same
<1> QED
  BY <1>2, <1>3, <1>4, <1>5, <1>6, <1>7 DEF Serve

LEMMA SlaveSame ==
    ASSUME Inv, NEW s \in Slaves,
           Slave(s) \/ (\E err \in BOOLEAN : fcallReturns(s, err))
    PROVE  Same
<1>0. Base /\ Typed /\ Placed /\ InHand /\ q \in [Msgs -> Exq]
  BY DEF Inv, Base, Typed
<1>1. CASE qlockQwait(s) \/ SleepRwait(s) \/ take(s) \/ reply(s)
  <2>1. q' = q
    BY <1>1 DEF qlockQwait, SleepRwait, take, reply
  <2> QED
    BY <2>1 DEF Same
<1>2. CASE link(s)
  <2>1. PICK m : m = job[s]
    OBVIOUS
  <2>2. m \in Msgs
    BY <1>0, <1>2, <2>1 DEF link, sgoto, AtJob, InHand, Typed
  <2>3. q' = [q EXCEPT ![m].slave = s, ![m].busy = TRUE]
    BY <1>2, <2>1 DEF link
  <2>4. /\ \A x \in Msgs : x # m => q'[x] = q[x]
        /\ q'[m].st = q[m].st /\ q'[m].type = q[m].type /\ q'[m].export = q[m].export
        /\ q'[m].tag = q[m].tag /\ q'[m].oldtag = q[m].oldtag
    BY <1>0, <2>2, <2>3 DEF Exq
  <2> QED
    BY <2>4, OneSame
<1>3. CASE \E err \in BOOLEAN : fcallReturns(s, err)
  <2>1. PICK m : m = job[s]
    OBVIOUS
  <2>2. /\ m \in Msgs /\ UNCHANGED <<head, work>>
        /\ spc[s] = "call" /\ spc' = [spc EXCEPT ![s] = "called"]
        /\ \A x \in Msgs : x # m => q'[x] = q[x]
        /\ \E err \in BOOLEAN : q'[m] = [q[m] EXCEPT !.err = err]
    <3>1. m \in Msgs /\ \A x \in Msgs : x # m => q'[x] = q[x]
      BY <1>0, <1>3, <2>1, FcallEffect
    <3>2. /\ UNCHANGED <<head, work>>
          /\ spc[s] = "call" /\ spc' = [spc EXCEPT ![s] = "called"]
      BY <1>0, <1>3, <2>1, FcallEffect
    <3>3. \E err \in BOOLEAN : q'[m] = [q[m] EXCEPT !.err = err]
      BY <1>0, <1>3, <2>1, FcallEffect
    <3> QED
      BY <3>1, <3>2, <3>3
  <2>3. /\ q'[m].st = q[m].st /\ q'[m].type = q[m].type /\ q'[m].export = q[m].export
        /\ q'[m].tag = q[m].tag /\ q'[m].oldtag = q[m].oldtag
    BY <1>0, <2>2 DEF Exq
  <2> QED
    BY <2>2, <2>3, OneSame
<1>4. CASE complete(s) \/ nextFlush(s)
  <2>1. PICK m : m = job[s]
    OBVIOUS
  <2>2. /\ m \in Msgs
        /\ \A x \in Msgs : x # m => q'[x] = q[x]
        /\ ToReply(s, m) \/ ToFlush(s, m) \/ ToUnlink(s, m)
    BY <1>0, <1>4, <2>1, AnswerEffect
  <2>3. /\ q'[m].st = q[m].st /\ q'[m].type = q[m].type /\ q'[m].export = q[m].export
        /\ q'[m].tag = q[m].tag /\ q'[m].oldtag = q[m].oldtag
    BY <1>0, <2>2 DEF ToReply, ToFlush, ToUnlink, Exq
  <2> QED
    BY <2>2, <2>3, OneSame
<1>5. CASE freply(s)
  <2>1. PICK f \in Msgs : f = fq[s]
    BY <1>0, <1>5 DEF freply, sgoto, InHand, Typed
  <2>2. q' = FreeAll({f}, q) /\ q[f].st # "unread"
    BY <1>0, <1>5, <2>1, ExportfsAssumption DEF Placed, AtFlush, FlushOf, New, freply
  <2> QED
    BY <1>0, <2>2, FreeSame
<1>6. CASE unlink(s)
  <2>1. PICK m \in Msgs : m = job[s] /\ q[m].st = "live" /\ q[m].export # None
    BY <1>0, <1>6 DEF unlink, sgoto, InHand, Typed, AtJob, AfterLink, Placed, AtWork
  <2>2. q' = FreeAll(Freed(m), q)
    BY <1>0, <1>6, <2>1, UnlinkEffect
  <2>3. \A x \in Freed(m) : x = m \/ In(x, q[m].flush)
    BY <1>0, <2>1, ExqFields, ToSetIn DEF Freed
  <2>4. \A x \in Freed(m) : x \in Msgs => q[x].st # "unread"
    BY <1>0, <2>1, <2>3 DEF Placed, OnFlush, FlushOf, New
  <2> QED
    BY <1>0, <2>2, <2>4, FreeSame
<1> QED
  BY <1>1, <1>2, <1>3, <1>4, <1>5, <1>6 DEF Slave

LEMMA IdleOnwards == ASSUME NEW s, Idle(s), job'[s] = job[s] PROVE Onwards(s)
BY DEF Idle, Onwards, AtDue, AtJob, AfterLink

LEMMA WaitsKept ==
    ASSUME UNCHANGED <<fq, job>>, \A m \in Msgs : q'[m].flush = q[m].flush \/ q'[m].flush = << >>
    PROVE  \A f, m \in Msgs : Waits(f, m)' => Waits(f, m)
<1>1. \A f : ~In(f, << >>)
  BY DEF In
<1> QED
  BY <1>1 DEF Waits

\* Steps of exportproc that do not touch the answers nor look at them.
LEMMA QuietOnce ==
    ASSUME Inv, Once, NEW e \in Exports,
           spawn(e) \/ wakeup(e) \/ hangup(e) \/ exportExfree(e) \/ exshutdownQueue(e)
             \/ exshutdownWork(e)
    PROVE  Once'
<1>0. Base /\ Typed /\ q \in [Msgs -> Exq]
  BY DEF Inv, Base, Typed
<1>1. Same
  BY ServeSame DEF Serve
<1>2. /\ UNCHANGED <<cur, job, fq, answered, cancelled>>
      /\ \E from, to \in ExportLabels \ {"flushw", "reply"} : egoto(e, from, to)
  BY DEF spawn, wakeup, hangup, exportExfree, exshutdownQueue, exshutdownWork, history, ExportLabels
<1>3. \A x \in Exports : epc'[x] \in {"flushw", "reply"} => epc'[x] = epc[x]
  BY <1>0, <1>2 DEF egoto, Typed
<1>4. \A s \in Slaves : Idle(s)
  <2>1. CASE spawn(e) \/ wakeup(e) \/ hangup(e) \/ exportExfree(e)
    BY <1>0, <2>1, WakeBase
  <2>2. CASE exshutdownQueue(e) \/ exshutdownWork(e)
    BY <2>2 DEF exshutdownQueue, exshutdownWork, Idle
  <2> QED
    BY <2>1, <2>2
<1>5. \A s \in Slaves : Onwards(s)
  BY <1>2, <1>4, IdleOnwards
<1>6. CASE spawn(e) \/ wakeup(e) \/ hangup(e) \/ exportExfree(e)
  <2>1. UNCHANGED <<q, head, work>>
    BY <1>6 DEF spawn, wakeup, hangup, exportExfree, queue, exports
  <2>2. \A x \in Exports : \A m, n \in Msgs : Before(work[x], m, n)' => Before(work[x], m, n)
    BY <2>1 DEF Before
  <2>3. \A f, m \in Msgs : Waits(f, m)' => Waits(f, m)
    BY <1>2, <2>1, WaitsKept
  <2>4. \A m \in Msgs : In(m, head') => In(m, head)
    BY <2>1
  <2> QED
    BY <1>0, <1>1, <1>2, <1>3, <1>5, <2>2, <2>3, <2>4, OnceKept
<1>7. CASE exshutdownQueue(e)
  <2>1. PICK F : F = {m \in ToSet(head) : q[m].export = e}
    OBVIOUS
  <2>2. q' = FreeAll(F, q) /\ head' = Without(head, F) /\ UNCHANGED work
    BY <1>7, <2>1 DEF exshutdownQueue
  <2>3. \A x \in Exports : \A m, n \in Msgs : Before(work[x], m, n)' => Before(work[x], m, n)
    BY <2>2 DEF Before
  <2>4. \A m \in Msgs : q'[m].flush = q[m].flush \/ q'[m].flush = << >>
    BY <1>0, <2>2, FreeFields
  <2>5. \A f, m \in Msgs : Waits(f, m)' => Waits(f, m)
    BY <1>2, <2>4, WaitsKept
  <2>6. \A m \in Msgs : In(m, head') => In(m, head)
    BY <1>0, <2>2, WithoutFacts DEF Typed
  <2> QED
    BY <1>0, <1>1, <1>2, <1>3, <1>5, <2>3, <2>5, <2>6, OnceKept
<1>8. CASE exshutdownWork(e)
  <2>1. /\ work' = [work EXCEPT ![e] = << >>] /\ UNCHANGED head
        /\ \E M : q' = [m \in Msgs |-> IF m \in M THEN [q[m] EXCEPT !.shut = TRUE] ELSE q[m]]
    BY <1>8 DEF exshutdownWork, queue
  <2>2. \A x \in Exports : work'[x] = work[x] \/ work'[x] = << >>
    BY <1>0, <2>1 DEF Typed
  <2>3. \A x \in Exports : \A m, n \in Msgs : Before(work[x], m, n)' => Before(work[x], m, n)
    BY <2>2 DEF Before
  <2>4. \A m \in Msgs : q'[m].flush = q[m].flush
    BY <1>0, <2>1 DEF Exq
  <2>5. \A f, m \in Msgs : Waits(f, m)' => Waits(f, m)
    BY <1>2, <2>4, WaitsKept
  <2>6. \A m \in Msgs : In(m, head') => In(m, head)
    BY <2>1
  <2> QED
    BY <1>0, <1>1, <1>2, <1>3, <1>5, <2>3, <2>5, <2>6, OnceKept
<1> QED
  BY <1>6, <1>7, <1>8

\* Steps of a slave on the way to its answers.
LEMMA PassOnce ==
    ASSUME Inv, Once, NEW s \in Slaves,
           qlockQwait(s) \/ SleepRwait(s) \/ (take(s) /\ head = << >>)
    PROVE  Once'
<1>0. Base /\ Typed
  BY DEF Inv, Base
<1>1. Same
  BY SlaveSame DEF Slave
<1>2. UNCHANGED <<epc, cur, job, fq, q, head, work, answered, cancelled>>
  BY DEF qlockQwait, SleepRwait, take, queue, exports, history
<1>3. \A x \in Slaves : Onwards(x)
  BY <1>0, <1>2, WaitBase, IdleOnwards
<1>4. \A x \in Exports : \A m, n \in Msgs : Before(work[x], m, n)' => Before(work[x], m, n)
  BY <1>2 DEF Before
<1>5. \A f, m \in Msgs : Waits(f, m)' => Waits(f, m)
  BY <1>2, WaitsKept
<1> QED
  BY <1>0, <1>1, <1>2, <1>3, <1>4, <1>5, OnceKept

LEMMA AnswerOnce ==
    ASSUME Inv, Once, NEW s \in Slaves,
           \/ complete(s) \/ nextFlush(s) \/ unlink(s)
           \/ (\E err \in BOOLEAN : fcallReturns(s, err))
    PROVE  Once'
<1>0. Base /\ Typed /\ InHand /\ Placed /\ q \in [Msgs -> Exq]
  BY DEF Inv, Base, Typed
<1>1. Same
  BY SlaveSame DEF Slave
<1>2. UNCHANGED <<epc, cur, head, answered, cancelled>>
  BY DEF complete, nextFlush, unlink, fcallReturns, queue, history
<1>3. PICK m : m = job[s]
  OBVIOUS
<1>4. CASE \E err \in BOOLEAN : fcallReturns(s, err)
  <2>1. /\ m \in Msgs /\ UNCHANGED <<job, fq, work>>
        /\ spc[s] = "call" /\ spc' = [spc EXCEPT ![s] = "called"]
        /\ \A x \in Msgs : x # m => q'[x] = q[x]
        /\ \E err \in BOOLEAN : q'[m] = [q[m] EXCEPT !.err = err]
    BY <1>0, <1>3, <1>4, FcallEffect
  <2>2. \A x \in Slaves : Onwards(x)
    BY <1>0, <2>1 DEF Onwards, AtDue, Typed
  <2>3. q'[m].flush = q[m].flush
    BY <1>0, <2>1 DEF Exq
  <2>4. \A f, n \in Msgs : Waits(f, n)' => Waits(f, n)
    BY <2>1, <2>3, WaitsKept
  <2>5. \A x \in Exports : \A k, n \in Msgs : Before(work[x], k, n)' => Before(work[x], k, n)
    BY <2>1 DEF Before
  <2> QED
    BY <1>0, <1>1, <1>2, <2>2, <2>4, <2>5, OnceKept
<1>5. CASE complete(s) \/ nextFlush(s)
  <2>1. /\ m \in Msgs /\ UNCHANGED <<job, work>>
        /\ \A x \in Msgs : x # m => q'[x] = q[x]
        /\ ToReply(s, m) \/ ToFlush(s, m) \/ ToUnlink(s, m)
    BY <1>0, <1>3, <1>5, AnswerEffect
  <2>2. \A x \in Slaves : Onwards(x)
    BY <1>0, <2>1 DEF Onwards, AtDue, Typed, ToReply, ToFlush, ToUnlink
  <2>3. \A f, n \in Msgs : Waits(f, n)' => Waits(f, n)
    <3>1. CASE ToReply(s, m) \/ ToUnlink(s, m)
      <4>1. fq' = fq /\ q'[m].flush = q[m].flush
        BY <1>0, <2>1, <3>1 DEF ToReply, ToUnlink, Exq
      <4> QED
        BY <2>1, <4>1, WaitsKept
    <3>2. CASE ToFlush(s, m)
      <4>1. /\ fq' = [fq EXCEPT ![s] = Head(q[m].flush)]
            /\ q'[m].flush = Tail(q[m].flush) /\ q[m].flush # << >>
        BY <1>0, <2>1, <3>2 DEF ToFlush, Exq
      <4>2. q[m].flush \in Seq(Msgs) /\ Distinct(q[m].flush)
        BY <1>0, <2>1, ExqFields DEF Placed, OnFlush
      <4>3. In(Head(q[m].flush), q[m].flush) /\ \A f \in Msgs : In(f, Tail(q[m].flush)) => In(f, q[m].flush)
        BY <4>1, <4>2, LeaveQueue
      <4>4. \A x \in Slaves : x # s => fq'[x] = fq[x]
        BY <1>0, <4>1 DEF Typed
      <4>5. fq'[s] = Head(q[m].flush)
        BY <1>0, <4>1 DEF Typed
      <4>6. ASSUME NEW f \in Msgs, NEW n \in Msgs, Waits(f, n)' PROVE Waits(f, n)
        <5>1. CASE In(f, q'[n].flush)
          BY <2>1, <4>1, <4>3, <5>1 DEF Waits
        <5>2. CASE \E x \in Slaves : fq'[x] = f /\ job'[x] = n
          BY <1>3, <2>1, <4>3, <4>4, <4>5, <5>2 DEF Waits
        <5> QED
          BY <4>6, <5>1, <5>2 DEF Waits
      <4> QED
        BY <4>6
    <3> QED
      BY <2>1, <3>1, <3>2
  <2>4. \A x \in Exports : \A k, n \in Msgs : Before(work[x], k, n)' => Before(work[x], k, n)
    BY <2>1 DEF Before
  <2> QED
    BY <1>0, <1>1, <1>2, <2>2, <2>3, <2>4, OnceKept
<1>6. CASE unlink(s)
  <2>1. spc[s] = "unlink" /\ m \in Msgs /\ q[m].export # None
    BY <1>0, <1>3, <1>6 DEF unlink, sgoto, InHand, Typed, AtJob, AfterLink, Placed, AtWork
  <2>2. /\ spc' = [spc EXCEPT ![s] = "idle"] /\ job' = [job EXCEPT ![s] = None]
        /\ q' = FreeAll(Freed(m), q) /\ q[m].export \in Exports /\ fq' = fq
        /\ work' = [work EXCEPT ![q[m].export] = Without(work[q[m].export], {m})]
    BY <1>0, <1>3, <1>6, <2>1, UnlinkEffect
  <2>3. \A x \in Slaves : Onwards(x)
    BY <1>0, <2>2 DEF Onwards, AtDue, Typed
  <2>4. \A n \in Msgs : q'[n].flush = q[n].flush \/ q'[n].flush = << >>
    BY <1>0, <2>2, FreeFields
  <2>5. \A n \in Msgs : \A x \in Slaves : job'[x] = n => job[x] = n
    BY <1>0, <2>2, ExportfsAssumption DEF Typed
  <2>6. \A f, n \in Msgs : Waits(f, n)' => Waits(f, n)
    <3>1. \A f : ~In(f, << >>)
      BY DEF In
    <3> QED
      BY <2>2, <2>4, <2>5, <3>1 DEF Waits
  <2>7. ASSUME NEW x \in Exports, NEW k \in Msgs, NEW n \in Msgs, Before(work[x], k, n)'
        PROVE  Before(work[x], k, n)
    <3>1. work[x] \in Seq(Msgs)
      BY <1>0 DEF Typed
    <3>2. work'[x] = work[x] \/ work'[x] = Without(work[x], {m})
      BY <1>0, <2>2 DEF Typed
    <3>3. Before(work'[x], k, n)
      BY <2>7 DEF Before
    <3> QED
      BY <3>1, <3>2, <3>3, WithoutBefore
  <2> QED
    BY <1>0, <1>1, <1>2, <2>3, <2>6, <2>7, OnceKept
<1> QED
  BY <1>4, <1>5, <1>6

LEMMA DueOwed ==
    ASSUME Inv, Known, NEW m \in Msgs, Due(m) PROVE Owed(m)
BY DueFacts DEF Known, Owed

\* What exportproc queues is not what another connection's flush looks for.
LEMMA EnqueueOnce == ASSUME Inv, Once, NEW e \in Exports, enqueue(e) PROVE Once'
<1>0. Base /\ Typed /\ InHand /\ Placed
  BY DEF Inv, Base
<1>1. Same
  BY ServeSame DEF Serve
<1>2. PICK m \in Msgs : m = cur[e] /\ q[m].export = e
  BY <1>0, ExportfsAssumption DEF enqueue, egoto, InHand, AtMsg, Typed, Placed, AtCur
<1>3. /\ UNCHANGED <<q, spc, job, fq, work, answered, cancelled>>
      /\ cur' = [cur EXCEPT ![e] = None] /\ epc' = [epc EXCEPT ![e] = "spawn"]
      /\ head' = <<m>> \/ head' = Append(head, m) \/ head' = head
  BY <1>2 DEF enqueue, egoto, exports, history
<1>4. ASSUME NEW n \in Msgs, In(n, head') PROVE In(n, head) \/ n = m
  <2>1. head \in Seq(Msgs)
    BY <1>0 DEF Typed
  <2>2. In(n, <<m>>) => n = m
    BY DEF In
  <2>3. In(n, Append(head, m)) => In(n, head) \/ n = m
    BY <2>1, AppendFacts DEF In
  <2> QED
    BY <1>3, <1>4, <2>2, <2>3
<1>5. /\ cur'[e] = None
      /\ \A x \in Exports : x # e => cur'[x] = cur[x] /\ epc'[x] = epc[x]
  BY <1>0, <1>3 DEF Typed
<1>6. ASSUME NEW n \in Msgs PROVE /\ Due(n)' => Due(n)
                                  /\ Ahead(n)' => Ahead(n) \/ n = m
  <2>1. n # None
    BY ExportfsAssumption
  <2>2. (\E x \in Exports : cur'[x] = n) => \E x \in Exports : cur[x] = n
    BY <1>5, <2>1
  <2> QED
    BY <1>2, <1>3, <1>4, <2>2 DEF Due, Ahead
<1>7. Fewer /\ Paid
  BY <1>3, <1>6 DEF Fewer, Paid
<1>8. Known'
  BY <1>1, <1>3, <1>7, KnownKept DEF Once
<1>9. \A f, n \in Msgs : Waits(f, n)' => Waits(f, n)
  BY <1>3, WaitsKept
<1>10. Tagged' /\ Alone'
  BY <1>1, <1>7, <1>9, TaggedKept, AloneKept DEF Once
<1>11. ASSUME NEW x \in Exports PROVE Sorted(x)' /\ Passed(x)'
  <2>1. Sorted(x)'
    <3>1. \A k, n \in Msgs : Before(work[x], k, n)' => Before(work[x], k, n)
      BY <1>3 DEF Before
    <3> QED
      BY <1>1, <1>7, <3>1, SortedKept DEF Once
  <2>2. CASE x = e
    BY <1>5, <2>1, <2>2 DEF Passed
  <2>3. CASE x # e
    <3>1. ASSUME cur'[x] # None, q'[cur'[x]].type = "Tflush", NEW n \in Msgs, Flushes(cur[x], n)
          PROVE  /\ epc'[x] \in {"flushw", "reply"} => ~Ahead(n)'
                 /\ epc'[x] = "reply" => ~Due(n)'
      <4>1. cur[x] # None /\ q[cur[x]].type = "Tflush" /\ epc'[x] = epc[x]
        BY <1>3, <1>5, <2>3, <3>1
      <4>2. q[cur[x]].export = x
        BY <1>0, <4>1 DEF Placed, AtCur
      <4>3. n # m
        BY <1>2, <2>3, <3>1, <4>2 DEF Flushes
      <4> QED
        BY <1>6, <3>1, <4>1, <4>3 DEF Once, Passed
    <3>2. \A n \in Msgs : Flushes(cur[x], n)' => Flushes(cur[x], n)
      BY <1>3, <1>5, <2>3 DEF Flushes
    <3> QED
      BY <2>1, <3>1, <3>2 DEF Passed
  <2> QED
    BY <2>2, <2>3
<1> QED
  BY <1>8, <1>10, <1>11 DEF Once

\* A flush that finds its request on the list is the only one of it, and finds
\* the only request with the tag.
LEMMA FlushQueueOnce == ASSUME Inv, Once, NEW e \in Exports, exflushedQueue(e) PROVE Once'
<1>0. Base /\ Typed /\ InHand /\ Placed /\ q \in [Msgs -> Exq]
  BY DEF Inv, Base, Typed
<1>1. Same
  BY ServeSame DEF Serve
<1>2. PICK f \in Msgs : f = cur[e] /\ q[f].export = e /\ q[f].type = "Tflush"
  BY <1>0, ExportfsAssumption DEF exflushedQueue, InHand, AtMsg, Typed, Placed, AtCur
<1>3. /\ UNCHANGED <<cur, spc, job, fq, work, answered, cancelled>>
      /\ exql = None /\ epc[e] = "flushq"
  BY DEF exflushedQueue, history
<1>4. \A s \in Slaves : spc[s] # "link"
  BY <1>0, <1>3, ExportfsAssumption DEF InHand
<1>5. \/ /\ \A i \in 1 .. Len(head) : ~Wanted(e, q[f].oldtag, head[i])
         /\ epc' = [epc EXCEPT ![e] = "flushw"]
         /\ UNCHANGED <<head, q>>
      \/ \E n \in 1 .. Len(head) :
            /\ Wanted(e, q[f].oldtag, head[n])
            /\ head' = RemoveAt(head, n)
            /\ q' = FreeAll(Freed(head[n]), q)
            /\ epc' = [epc EXCEPT ![e] = "reply"]
  BY <1>0, <1>2, QueueFound
<1>6. ASSUME NEW n \in Msgs, In(n, head') PROVE In(n, head)
  BY <1>0, <1>5, <1>6, RemoveAtDistinct DEF Typed, Placed, OnHead
<1>7. \A n \in Msgs : q'[n].flush = q[n].flush \/ q'[n].flush = << >>
  BY <1>0, <1>5, FreeFields
<1>8. \A x \in Exports : x # e => epc'[x] = epc[x]
  BY <1>0, <1>5 DEF Typed
<1>9. \A s \in Slaves : Onwards(s)
  BY <1>3 DEF Onwards
<1>10. Fewer /\ \A n \in Msgs : Ahead(n)' => Ahead(n)
  BY <1>1, <1>3, <1>6, <1>9, FewerKept
<1>11. Paid
  BY <1>3 DEF Paid
<1>12. Known'
  BY <1>1, <1>3, <1>10, KnownKept DEF Once
<1>13. \A g, n \in Msgs : Waits(g, n)' => Waits(g, n)
  BY <1>3, <1>7, WaitsKept
<1>14. Tagged' /\ Alone'
  BY <1>1, <1>10, <1>11, <1>13, TaggedKept, AloneKept DEF Once
<1>15. ASSUME NEW x \in Exports PROVE Sorted(x)'
  <2>1. \A k, n \in Msgs : Before(work[x], k, n)' => Before(work[x], k, n)
    BY <1>3 DEF Before
  <2> QED
    BY <1>1, <1>11, <2>1, SortedKept DEF Once
<1>16. ASSUME NEW x \in Exports, x # e PROVE Passed(x)'
  <2>1. Passed(x) /\ cur[x] \in Msgs \cup {None} /\ cur'[x] = cur[x] /\ epc'[x] = epc[x]
    BY <1>0, <1>3, <1>8, <1>16 DEF Once, Typed
  <2> QED
    BY <1>1, <1>10, <2>1, PassedKept
<1>17. \A n \in Msgs : /\ Flushes(f, n)' => Flushes(f, n)
                       /\ Flushes(f, n) <=> Wanted(e, q[f].oldtag, n)
                       /\ Ahead(n) => In(n, head) /\ Due(n)
  BY <1>0, <1>1, <1>2, <1>4 DEF Same, Flushes, Wanted, Ahead, Due, Placed, OnHead
<1>18. Passed(e)'
  <2>1. CASE /\ \A i \in 1 .. Len(head) : ~Wanted(e, q[f].oldtag, head[i])
             /\ epc' = [epc EXCEPT ![e] = "flushw"]
    <3>1. epc'[e] = "flushw"
      BY <1>0, <2>1 DEF Typed
    <3>2. \A n \in Msgs : Wanted(e, q[f].oldtag, n) => ~In(n, head)
      BY <2>1 DEF In
    <3>3. \A n \in Msgs : Flushes(f, n)' => ~Ahead(n)'
      BY <1>10, <1>17, <3>2
    <3> QED
      BY <1>2, <1>3, <3>1, <3>3 DEF Passed, Flushes
  <2>2. ASSUME NEW i \in 1 .. Len(head), Wanted(e, q[f].oldtag, head[i]),
               head' = RemoveAt(head, i)
        PROVE  Passed(e)'
    <3>1. PICK k \in Msgs : k = head[i] /\ In(k, head) /\ Flushes(f, k) /\ Due(k)
      BY <1>0, <1>17, <2>2 DEF Typed, In, Placed, OnHead, Due
    <3>2. \A n \in Msgs : Flushes(f, n) /\ Due(n) => n = k
      <4>1. \A n \in Msgs : Due(n) => Owed(n)
        BY DueOwed DEF Once
      <4> QED
        BY <3>1, <4>1 DEF Once, Tagged, Flushes
    <3>3. ~In(k, head')
      BY <1>0, <2>2, <3>1, RemoveAtDistinct DEF Typed, Placed, OnHead
    <3>4. /\ \A x \in Exports : cur[x] # k
          /\ \A s \in Slaves : spc[s] \in AtJob => job[s] # k
      BY <3>1, Apart
    <3>5. ~Due(k)' /\ ~Ahead(k)'
      BY <1>3, <1>4, <3>3, <3>4 DEF Due, Ahead, AtDue, AtJob, AfterLink
    <3>6. \A n \in Msgs : Flushes(f, n)' => ~Due(n)' /\ ~Ahead(n)'
      BY <1>10, <1>17, <3>2, <3>5 DEF Fewer
    <3> QED
      BY <1>2, <1>3, <3>6 DEF Passed, Flushes
  <2> QED
    BY <1>5, <2>1, <2>2
<1> QED
  BY <1>12, <1>14, <1>15, <1>16, <1>18 DEF Once

\* A flush that has passed the list finds what can still be answered first in
\* the work list, if it finds anything.
LEMMA FirstDue ==
    ASSUME Inv, Once, NEW e \in Exports, epc[e] = "flushw", NEW m \in Msgs,
           Flushes(cur[e], m), Due(m)
    PROVE  /\ In(m, work[e]) /\ ~q[m].finished
           /\ \A k \in Msgs : Before(work[e], k, m) => q[k].tag # q[m].tag
<1>0. Base /\ Typed /\ InHand /\ Placed
  BY DEF Inv, Base
<1>1. cur[e] # None /\ cur[e] \in Msgs /\ q[cur[e]].type = "Tflush" /\ q[cur[e]].export = e
  BY <1>0 DEF InHand, AtMsg, Typed, Placed, AtCur
<1>2. q[m].export = e /\ q[m].type = "T" /\ m # None
  BY <1>1, ExportfsAssumption DEF Flushes, Due
<1>3. \A x \in Exports : cur[x] # m
  BY <1>0, <1>1, <1>2 DEF Placed, AtCur
<1>4. ~Ahead(m)
  BY <1>1 DEF Once, Passed
<1>5. PICK s \in Slaves : spc[s] \in {"call", "called", "reply"} /\ job[s] = m
  BY <1>3, <1>4 DEF Due, AtDue, Ahead
<1>6. /\ q[m].finished <=> spc[s] = "unlink"
      /\ q[m].shut \/ In(m, work[e])
  BY <1>0, <1>2, <1>5 DEF Placed, AtWork, AfterLink
<1>7. ~q[m].shut
  BY <1>0, <1>2 DEF Placed
<1>8. Owed(m)
  BY DueOwed DEF Once
<1> QED
  BY <1>5, <1>6, <1>7, <1>8 DEF Once, Sorted

LEMMA FlushWorkOnce == ASSUME Inv, Once, NEW e \in Exports, exflushedWork(e) PROVE Once'
<1>0. Base /\ Typed /\ InHand /\ Placed /\ q \in [Msgs -> Exq]
  BY DEF Inv, Base, Typed
<1>1. Same
  BY ServeSame DEF Serve
<1>2. PICK f \in Msgs : f = cur[e] /\ q[f].export = e /\ q[f].type = "Tflush" /\ f # None
  <2>1. epc[e] = "flushw"
    BY DEF exflushedWork
  <2>2. cur[e] # None /\ cur[e] \in Msgs
    BY <1>0, <2>1 DEF InHand, AtMsg, Typed
  <2> QED
    BY <1>0, <2>1, <2>2 DEF Placed, AtCur
<1>3. UNCHANGED <<head, spc, job, fq, work, answered, cancelled>> /\ epc[e] = "flushw"
  BY DEF exflushedWork, queue, history
<1>4. \/ /\ \A i \in 1 .. Len(work[e]) : q[work[e][i]].tag # q[f].oldtag
         /\ epc' = [epc EXCEPT ![e] = "reply"]
         /\ UNCHANGED <<cur, q>>
      \/ \E n \in 1 .. Len(work[e]) :
            /\ q[work[e][n]].tag = q[f].oldtag
            /\ \A i \in 1 .. Len(work[e]) : q[work[e][i]].tag = q[f].oldtag => n <= i
            /\ \/ /\ q[work[e][n]].finished
                  /\ epc' = [epc EXCEPT ![e] = "reply"]
                  /\ UNCHANGED <<cur, q>>
               \/ /\ q' = [q EXCEPT ![work[e][n]].flush = Append(@, f)]
                  /\ epc' = [epc EXCEPT ![e] = "read"]
                  /\ cur' = [cur EXCEPT ![e] = None]
  BY <1>0, <1>2, WorkFound
<1>5. /\ \A x \in Exports : x # e => cur'[x] = cur[x] /\ epc'[x] = epc[x]
      /\ cur'[e] = cur[e] \/ cur'[e] = None
  BY <1>0, <1>4 DEF Typed
<1>6. \A s \in Slaves : Onwards(s)
  BY <1>3 DEF Onwards
<1>7. Fewer /\ \A n \in Msgs : Ahead(n)' => Ahead(n)
  <2>1. \A x \in Exports : cur'[x] = cur[x] \/ cur'[x] = None
    BY <1>5
  <2>2. \A m \in Msgs : In(m, head') => In(m, head)
    BY <1>3
  <2> QED
    BY <1>1, <1>6, <2>1, <2>2, FewerKept
<1>8. Paid
  BY <1>3 DEF Paid
<1>9. Known' /\ Tagged'
  BY <1>1, <1>3, <1>7, <1>8, KnownKept, TaggedKept DEF Once
<1>10. ASSUME NEW x \in Exports PROVE Sorted(x)'
  <2>1. \A k, n \in Msgs : Before(work[x], k, n)' => Before(work[x], k, n)
    BY <1>3 DEF Before
  <2> QED
    BY <1>1, <1>8, <2>1, SortedKept DEF Once
<1>11. ASSUME NEW x \in Exports, x # e PROVE Passed(x)'
  <2>1. Passed(x) /\ cur[x] \in Msgs \cup {None} /\ cur'[x] = cur[x] /\ epc'[x] = epc[x]
    BY <1>0, <1>5, <1>11 DEF Once, Typed
  <2> QED
    BY <1>1, <1>7, <2>1, PassedKept
<1>12. \A m \in Msgs : Flushes(f, m) /\ Due(m) =>
          /\ In(m, work[e]) /\ ~q[m].finished
          /\ \A k \in Msgs : Before(work[e], k, m) => q[k].tag # q[m].tag
  BY <1>2, <1>3, FirstDue
<1>13. \A m \in Msgs : /\ Flushes(f, m)' => Flushes(f, m)
                       /\ Flushes(f, m) => q[m].tag = q[f].oldtag
  BY <1>1 DEF Same, Flushes
<1>14. ASSUME UNCHANGED <<cur, q>>, epc' = [epc EXCEPT ![e] = "reply"],
              \A m \in Msgs : Flushes(f, m) => ~Due(m)
       PROVE  Alone' /\ Passed(e)'
  <2>1. \A g, n \in Msgs : Waits(g, n)' => Waits(g, n)
    BY <1>3, <1>14, WaitsKept
  <2>2. Alone'
    BY <1>1, <1>7, <2>1, AloneKept DEF Once
  <2>3. \A m \in Msgs : Flushes(f, m)' => ~Ahead(m)' /\ ~Due(m)'
    BY <1>2, <1>3, <1>7, <1>13, <1>14 DEF Once, Passed, Fewer
  <2> QED
    BY <1>2, <1>14, <2>2, <2>3 DEF Passed, Flushes
<1>15. CASE /\ \A i \in 1 .. Len(work[e]) : q[work[e][i]].tag # q[f].oldtag
            /\ epc' = [epc EXCEPT ![e] = "reply"]
            /\ UNCHANGED <<cur, q>>
  <2>1. \A m \in Msgs : Flushes(f, m) => ~Due(m)
    BY <1>12, <1>13, <1>15 DEF In
  <2> QED
    BY <1>9, <1>10, <1>11, <1>14, <1>15, <2>1 DEF Once
<1>16. ASSUME NEW n \in 1 .. Len(work[e]), q[work[e][n]].tag = q[f].oldtag,
              \A i \in 1 .. Len(work[e]) : q[work[e][i]].tag = q[f].oldtag => n <= i,
              NEW m \in Msgs, Flushes(f, m), Due(m)
       PROVE  m = work[e][n] /\ ~q[m].finished
  <2>1. PICK i \in 1 .. Len(work[e]) : work[e][i] = m
    BY <1>12, <1>16 DEF In
  <2>2. n <= i /\ work[e][n] \in Msgs
    BY <1>0, <1>13, <1>16, <2>1 DEF Typed
  <2>3. ~(n < i)
    BY <1>12, <1>13, <1>16, <2>1, <2>2 DEF Before
  <2>4. n = i
    BY <2>2, <2>3
  <2> QED
    BY <1>12, <1>16, <2>1, <2>4
<1>17. ASSUME NEW n \in 1 .. Len(work[e]), q[work[e][n]].tag = q[f].oldtag,
              \A i \in 1 .. Len(work[e]) : q[work[e][i]].tag = q[f].oldtag => n <= i,
              \/ /\ q[work[e][n]].finished
                 /\ epc' = [epc EXCEPT ![e] = "reply"]
                 /\ UNCHANGED <<cur, q>>
              \/ /\ q' = [q EXCEPT ![work[e][n]].flush = Append(@, f)]
                 /\ cur' = [cur EXCEPT ![e] = None]
       PROVE  Alone' /\ Passed(e)'
  <2>1. \A m \in Msgs : Flushes(f, m) /\ Due(m) => m = work[e][n] /\ ~q[m].finished
    BY <1>16, <1>17
  <2>2. CASE /\ q[work[e][n]].finished
             /\ epc' = [epc EXCEPT ![e] = "reply"]
             /\ UNCHANGED <<cur, q>>
    <3>1. \A m \in Msgs : Flushes(f, m) => ~Due(m)
      BY <2>1, <2>2
    <3> QED
      BY <1>14, <2>2, <3>1
  <2>3. CASE /\ q' = [q EXCEPT ![work[e][n]].flush = Append(@, f)]
             /\ cur' = [cur EXCEPT ![e] = None]
    <3>1. PICK k \in Msgs : k = work[e][n]
      BY <1>0 DEF Typed
    <3>2. /\ \A x \in Msgs : x # k => q'[x] = q[x]
          /\ q'[k].flush = Append(q[k].flush, f)
      BY <1>0, <2>3, <3>1 DEF Exq
    <3>3. q[k].flush \in Seq(Msgs)
      BY <1>0, <3>1, ExqFields
    <3>4. \A g : In(g, q'[k].flush) => In(g, q[k].flush) \/ g = f
      BY <3>2, <3>3, AppendFacts DEF In
    <3>5. \A g, x \in Msgs : Waits(g, x)' => Waits(g, x) \/ (g = f /\ x = k)
      BY <1>3, <3>2, <3>4 DEF Waits
    <3>6. \A g, x \in Msgs : Flushes(g, x)' => Flushes(g, x)
      BY <1>1 DEF Same, Flushes
    <3>7. Alone'
      BY <1>7, <2>1, <3>1, <3>5, <3>6 DEF Once, Alone, Fewer
    <3>8. cur'[e] = None
      BY <1>0, <2>3 DEF Typed
    <3> QED
      BY <3>7, <3>8 DEF Passed
  <2> QED
    BY <1>17, <2>2, <2>3
<1> QED
  BY <1>4, <1>9, <1>10, <1>11, <1>15, <1>17 DEF Once

\* The Rflush of exportproc cancels nothing that is still to be answered.
LEMMA EreplyOnce == ASSUME Inv, Once, NEW e \in Exports, ereply(e) PROVE Once'
<1>0. Base /\ Typed /\ InHand /\ Placed /\ q \in [Msgs -> Exq]
  BY DEF Inv, Base, Typed
<1>1. Same
  BY ServeSame DEF Serve
<1>2. PICK f \in Msgs : f = cur[e] /\ q[f].export = e /\ f # None /\ New(f)
  BY <1>0, ExportfsAssumption DEF ereply, egoto, InHand, AtMsg, Typed, Placed, AtCur
<1>3. /\ UNCHANGED <<head, spc, job, fq, work>> /\ epc[e] = "reply"
      /\ epc' = [epc EXCEPT ![e] = "read"] /\ cur' = [cur EXCEPT ![e] = None]
      /\ exreply(f) /\ q' = FreeAll(Freed(f), q)
  BY <1>2 DEF ereply, egoto, queue
<1>4. /\ \A x \in Exports : x # e => cur'[x] = cur[x] /\ epc'[x] = epc[x]
      /\ cur'[e] = None /\ epc'[e] = "read"
  BY <1>0, <1>3 DEF Typed
<1>5. \A s \in Slaves : Onwards(s)
  BY <1>3 DEF Onwards
<1>6. Fewer /\ \A n \in Msgs : Ahead(n)' => Ahead(n)
  <2>1. \A x \in Exports : cur'[x] = cur[x] \/ cur'[x] = None
    BY <1>4
  <2>2. \A m \in Msgs : In(m, head') => In(m, head)
    BY <1>3
  <2> QED
    BY <1>1, <1>5, <2>1, <2>2, FewerKept
<1>7. Paid
  BY <1>0, <1>3 DEF Paid, exreply, Typed
<1>8. ASSUME NEW n \in cancelled', n \notin cancelled
      PROVE  n \in Msgs /\ q[n].st # "unread" /\ q[n].type = "T" /\ ~Due(n)
  <2>1. n \in Pending(q[f].export, q[f].oldtag) /\ q[f].type = "Tflush"
    BY <1>3, <1>8 DEF exreply
  <2>2. n \in Msgs /\ Flushes(f, n) /\ Owed(n)
    BY <2>1 DEF Pending, Flushes, Owed
  <2>3. q[n].type = "T"
    BY <1>2, <2>2 DEF Once, Tagged, New
  <2>4. ~Due(n)
    BY <1>2, <1>3, <2>1, <2>2 DEF Once, Passed
  <2> QED
    BY <2>2, <2>3, <2>4 DEF Owed
<1>9. Known' /\ Tagged'
  <2>1. \A m \in Msgs : m \in cancelled' =>
               m \in cancelled \/ (q[m].st # "unread" /\ q[m].type = "T" /\ ~Due(m)')
    BY <1>6, <1>8 DEF Fewer
  <2> QED
    BY <1>1, <1>6, <1>7, <2>1, KnownKept, TaggedKept DEF Once
<1>10. \A n \in Msgs : q'[n].flush = q[n].flush \/ q'[n].flush = << >>
  BY <1>0, <1>3, FreeFields
<1>11. Alone'
  BY <1>1, <1>3, <1>6, <1>10, WaitsKept, AloneKept DEF Once
<1>12. ASSUME NEW x \in Exports PROVE Sorted(x)'
  <2>1. \A k, n \in Msgs : Before(work[x], k, n)' => Before(work[x], k, n)
    BY <1>3 DEF Before
  <2> QED
    BY <1>1, <1>7, <2>1, SortedKept DEF Once
<1>13. ASSUME NEW x \in Exports PROVE Passed(x)'
  <2>1. CASE x = e
    BY <1>4, <2>1 DEF Passed
  <2>2. CASE x # e
    <3>1. Passed(x) /\ cur[x] \in Msgs \cup {None} /\ cur'[x] = cur[x] /\ epc'[x] = epc[x]
      BY <1>0, <1>4, <2>2 DEF Once, Typed
    <3> QED
      BY <1>1, <1>6, <3>1, PassedKept
  <2> QED
    BY <2>1, <2>2
<1> QED
  BY <1>9, <1>11, <1>12, <1>13 DEF Once

LEMMA TakeOnce == ASSUME Inv, Once, NEW s \in Slaves, take(s), head # << >> PROVE Once'
<1>0. Base /\ Typed /\ InHand /\ head \in Seq(Msgs) /\ Distinct(head)
  BY DEF Inv, Base, Typed, Placed, OnHead
<1>1. PICK m \in Msgs : m = Head(head)
  BY <1>0, TailFacts
<1>2. UNCHANGED <<epc, cur, fq, q, work, answered, cancelled>> /\ head' = Tail(head)
  BY DEF take, exports, history
<1>3. /\ spc[s] = "take" /\ spc'[s] = "link" /\ job'[s] = m
      /\ \A x \in Slaves : x # s => Idle(x) /\ job'[x] = job[x]
  BY <1>0, <1>1, TakeBase DEF take, Typed
<1>4. In(m, head) /\ \A x \in Msgs : In(x, head') => In(x, head)
  BY <1>0, <1>1, <1>2, LeaveQueue
<1>5. fq[s] = None
  BY <1>0, <1>3 DEF InHand
<1>6. \A x \in Slaves : x # s => Onwards(x)
  BY <1>3, IdleOnwards
<1>7. Same
  BY <1>2 DEF Same
<1>8. ASSUME NEW n \in Msgs PROVE /\ Due(n)' => Due(n)
                                  /\ Ahead(n)' => Ahead(n)
  <2>1. ASSUME NEW x \in Slaves, job'[x] = n
        PROVE  /\ spc'[x] \in AtDue => In(n, head) \/ (spc[x] \in AtDue /\ job[x] = n)
               /\ spc'[x] = "link" => In(n, head) \/ (spc[x] = "link" /\ job[x] = n)
    <3>1. CASE x = s
      BY <1>3, <1>4, <2>1, <3>1
    <3>2. CASE x # s
      BY <1>3, <1>6, <2>1, <3>2 DEF Onwards
    <3> QED
      BY <3>1, <3>2
  <2>2. Due(n)' => Due(n)
    BY <1>2, <1>4, <2>1 DEF Due
  <2>3. Ahead(n)' => Ahead(n)
    BY <1>2, <1>4, <2>1 DEF Ahead
  <2> QED
    BY <2>2, <2>3
<1>9. Fewer /\ Paid
  BY <1>2, <1>8 DEF Fewer, Paid
<1>10. ASSUME NEW f \in Msgs, NEW n \in Msgs, Waits(f, n)' PROVE Waits(f, n)
  <2>1. \A x \in Slaves : fq[x] = f => x # s
    BY <1>5, ExportfsAssumption
  <2> QED
    BY <1>2, <1>3, <1>10, <2>1 DEF Waits
<1>11. Known' /\ Tagged' /\ Alone'
  BY <1>2, <1>7, <1>9, <1>10, KnownKept, TaggedKept, AloneKept DEF Once
<1>12. ASSUME NEW x \in Exports PROVE Sorted(x)' /\ Passed(x)'
  <2>1. \A k, n \in Msgs : Before(work[x], k, n)' => Before(work[x], k, n)
    BY <1>2 DEF Before
  <2>2. Sorted(x) /\ Passed(x) /\ cur[x] \in Msgs \cup {None} /\ cur'[x] = cur[x] /\ epc'[x] = epc[x]
    BY <1>0, <1>2 DEF Once, Typed
  <2>3. Sorted(x)'
    BY <1>7, <1>9, <2>1, <2>2, SortedKept
  <2>4. Passed(x)'
    BY <1>7, <1>8, <1>9, <2>2, PassedKept
  <2> QED
    BY <2>3, <2>4
<1> QED
  BY <1>11, <1>12 DEF Once

\* A request is put before the others with its tag, which have been dealt with.
LEMMA LinkOnce == ASSUME Inv, Once, NEW s \in Slaves, link(s) PROVE Once'
<1>0. Base /\ Typed /\ InHand /\ Placed /\ spc[s] = "link"
  BY DEF Inv, Base, link, sgoto
<1>1. PICK m \in Msgs : m = job[s]
  BY <1>0 DEF InHand, Typed, AtJob
<1>2. New(m) /\ q[m].type = "T" /\ q[m].export # None
  BY <1>0, <1>1 DEF Placed, AtLink, New
<1>3. /\ q[m].export \in Exports /\ spc' = [spc EXCEPT ![s] = "call"]
      /\ work' = [work EXCEPT ![q[m].export] = <<m>> \o work[q[m].export]]
      /\ \A x \in Msgs : x # m => q'[x] = q[x]
      /\ q'[m] = [q[m] EXCEPT !.slave = s, !.busy = TRUE]
  <2>1. /\ q[m].export \in Exports /\ spc' = [spc EXCEPT ![s] = "call"]
        /\ work' = [work EXCEPT ![q[m].export] = <<m>> \o work[q[m].export]]
    BY <1>0, <1>1, <1>2, LinkEffect
  <2>2. \A x \in Msgs : x # m => q'[x] = q[x]
    <3>1. q' = [q EXCEPT ![m].slave = s, ![m].busy = TRUE]
      BY <1>1 DEF link
    <3> QED
      BY <1>0, <1>1, <3>1 DEF Typed
  <2>3. q'[m] = [q[m] EXCEPT !.slave = s, !.busy = TRUE]
    BY <1>0, <1>1, <1>2, LinkEffect
  <2> QED
    BY <2>1, <2>2, <2>3
<1>4. UNCHANGED <<epc, cur, job, fq, head, answered, cancelled>>
  BY DEF link, history
<1>5. q'[m].flush = q[m].flush
  BY <1>0, <1>3 DEF Typed, Exq
<1>6. Same
  BY SlaveSame DEF Slave
<1>7. \A x \in Slaves : Onwards(x)
  BY <1>0, <1>3, <1>4 DEF Onwards, AtDue, Typed
<1>8. Fewer /\ \A n \in Msgs : Ahead(n)' => Ahead(n)
  BY <1>4, <1>6, <1>7, FewerKept
<1>9. Paid
  BY <1>4 DEF Paid
<1>10. \A f, n \in Msgs : Waits(f, n)' => Waits(f, n)
  BY <1>3, <1>4, <1>5, WaitsKept
<1>11. Known' /\ Tagged' /\ Alone'
  BY <1>4, <1>6, <1>8, <1>9, <1>10, KnownKept, TaggedKept, AloneKept DEF Once
<1>12. ASSUME NEW x \in Exports PROVE Passed(x)'
  <2>1. Passed(x) /\ cur[x] \in Msgs \cup {None} /\ cur'[x] = cur[x] /\ epc'[x] = epc[x]
    BY <1>0, <1>4 DEF Once, Typed
  <2> QED
    BY <1>6, <1>8, <2>1, PassedKept
<1>13. \A n \in Msgs : Owed(n)' => Owed(n)
  BY <1>6, <1>9, OwedKept
<1>14. ASSUME NEW x \in Exports PROVE Sorted(x)'
  <2>0. Sorted(x) /\ work[x] \in Seq(Msgs)
    BY <1>0 DEF Once, Typed
  <2>1. CASE x # q[m].export
    <3>1. work'[x] = work[x]
      BY <1>0, <1>3, <2>1 DEF Typed
    <3>2. \A k, n \in Msgs : Before(work[x], k, n)' => Before(work[x], k, n)
      BY <3>1 DEF Before
    <3> QED
      BY <1>6, <1>9, <2>0, <3>2, SortedKept
  <2>2. CASE x = q[m].export
    <3>1. work'[x] = <<m>> \o work[x]
      BY <1>0, <1>3, <2>2 DEF Typed
    <3>2. ASSUME NEW k \in Msgs, NEW n \in Msgs, Before(work'[x], k, n)
          PROVE  Before(work[x], k, n) \/ (k = m /\ In(n, work[x]))
      <4>1. /\ Len(work[x]) \in Nat /\ Len(work'[x]) = Len(work[x]) + 1
            /\ work'[x][1] = m
            /\ \A i \in 1 .. Len(work[x]) + 1 : i # 1 => work'[x][i] = work[x][i - 1]
        BY <2>0, <3>1
      <4>2. PICK i, j \in 1 .. Len(work'[x]) : i < j /\ work'[x][i] = k /\ work'[x][j] = n
        BY <3>2 DEF Before
      <4>3. j - 1 \in 1 .. Len(work[x]) /\ work[x][j - 1] = n
        BY <4>1, <4>2
      <4>4. CASE i = 1
        BY <4>1, <4>2, <4>3, <4>4 DEF In
      <4>5. CASE i # 1
        <5>1. i - 1 \in 1 .. Len(work[x]) /\ work[x][i - 1] = k /\ i - 1 < j - 1
          BY <4>1, <4>2, <4>5
        <5> QED
          BY <4>3, <5>1 DEF Before
      <4> QED
        BY <4>4, <4>5
    <3>3. ASSUME NEW n \in Msgs, In(n, work[x]), q[n].tag = q[m].tag, Owed(n) PROVE FALSE
      <4>1. q[n].export = x /\ n # m
        BY <1>0, <1>2, <3>3, Apart DEF Placed, OnWork
      <4>2. Due(m)
        BY <1>0, <1>1, <1>2 DEF Due, AtDue
      <4>3. Owed(m)
        BY <4>2, DueOwed DEF Once
      <4> QED
        BY <2>2, <3>3, <4>1, <4>3 DEF Once, Tagged
    <3>4. \A k, n \in Msgs : Before(work[x], k, n)' => Before(work'[x], k, n)
      BY DEF Before
    <3> QED
      BY <1>6, <1>13, <2>0, <3>2, <3>3, <3>4 DEF Sorted, Same
  <2> QED
    BY <2>1, <2>2
<1> QED
  BY <1>11, <1>12, <1>14 DEF Once

\* The answers of a slave: a flush that waits cancels the request the slave is
\* at, which it does not answer any more.
LEMMA SendOnce == ASSUME Inv, Once, NEW s \in Slaves, reply(s) \/ freply(s) PROVE Once'
<1>0. Base /\ Typed /\ InHand /\ Placed /\ q \in [Msgs -> Exq]
  BY DEF Inv, Base, Typed
<1>1. Same
  BY SlaveSame DEF Slave
<1>2. PICK m \in Msgs : m = job[s]
  BY <1>0, SendEffect
<1>3. /\ spc[s] \in {"reply", "freply"} /\ spc' = [spc EXCEPT ![s] = "replied"]
      /\ UNCHANGED <<epc, cur, job, head, work>>
  BY DEF reply, freply, sgoto, queue, idlers, exports
<1>4. spc'[s] = "replied" /\ \A x \in Slaves : x # s => spc'[x] = spc[x]
  BY <1>0, <1>3 DEF Typed
<1>5. Fewer /\ \A n \in Msgs : Ahead(n)' => Ahead(n)
  <2>1. \A x \in Slaves : Onwards(x)
    BY <1>3, <1>4 DEF Onwards, AtDue
  <2> QED
    BY <1>1, <1>3, <2>1, FewerKept
<1>6. \/ spc[s] = "reply" /\ exreply(m) /\ UNCHANGED <<fq, q>>
      \/ spc[s] = "freply" /\ exreply(fq[s]) /\ fq' = [fq EXCEPT ![s] = None]
            /\ q' = FreeAll({fq[s]}, q)
  BY <1>2 DEF reply, freply, sgoto
<1>7. \A f, n \in Msgs : Waits(f, n)' => Waits(f, n)
  <2>1. \A n \in Msgs : q'[n].flush = q[n].flush \/ q'[n].flush = << >>
    BY <1>0, <1>6, FreeFields
  <2>2. \A f : ~In(f, << >>)
    BY DEF In
  <2>3. \A f \in Msgs, x \in Slaves : fq'[x] = f => fq[x] = f
    BY <1>0, <1>6, ExportfsAssumption DEF Typed
  <2> QED
    BY <1>3, <2>1, <2>2, <2>3 DEF Waits
<1>8. Paid
  <2>1. PICK x : exreply(x)
    BY <1>6
  <2>2. answered' = [answered EXCEPT ![x] = @ + 1] /\ cancelled \subseteq cancelled'
    BY <2>1 DEF exreply
  <2> QED
    BY <1>0, <2>2 DEF Paid, Typed
<1>9. q[m].type = "T"
  BY <1>0, <1>2, <1>3 DEF Placed, AtWork, AfterLink
<1>10. ASSUME NEW n \in Msgs, n \in cancelled', n \notin cancelled
       PROVE  q[n].st # "unread" /\ q[n].type = "T" /\ ~Due(n)'
  <2>1. spc[s] = "freply" /\ exreply(fq[s])
    BY <1>6, <1>9, <1>10 DEF exreply
  <2>2. PICK f \in Msgs : f = fq[s] /\ fq[s] # None
    BY <1>0, <2>1 DEF InHand, Typed
  <2>3. New(f) /\ q[f].type = "Tflush" /\ Waits(f, m)
    BY <1>0, <1>2, <2>2 DEF Placed, AtFlush, FlushOf, Waits
  <2>4. n \in Pending(q[f].export, q[f].oldtag)
    BY <1>10, <2>1, <2>2, <2>3 DEF exreply
  <2>5. Flushes(f, n) /\ Owed(n)
    BY <2>3, <2>4 DEF Pending, Flushes, Owed
  <2>6. q[n].type = "T" /\ q[n].st # "unread"
    BY <2>3, <2>5 DEF Once, Tagged, New, Owed
  <2>7. ASSUME Due(n)' PROVE FALSE
    <3>1. n = m
      BY <1>5, <2>3, <2>5, <2>7 DEF Fewer, Once, Alone
    <3>2. spc[s] \in AtJob
      BY <1>3 DEF AtJob, AfterLink
    <3>3. ~(\E e \in Exports : cur'[e] = m) /\ ~In(m, head')
      <4>1. m # None
        BY ExportfsAssumption
      <4> QED
        BY <1>2, <1>3, <3>2, <4>1, Apart
    <3>4. ~(\E x \in Slaves : spc'[x] \in AtDue /\ job'[x] = m)
      <4> SUFFICES ASSUME NEW x \in Slaves, spc'[x] \in AtDue, job'[x] = m PROVE FALSE
        OBVIOUS
      <4>1. x # s /\ spc[x] \in AtJob /\ job[x] = job[s]
        BY <1>2, <1>3, <1>4 DEF AtDue, AtJob, AfterLink
      <4> QED
        BY <3>2, <4>1, Apart
    <3> QED
      BY <2>7, <3>1, <3>3, <3>4 DEF Due
  <2> QED
    BY <2>6, <2>7
<1>11. Known' /\ Tagged' /\ Alone'
  <2>1. Known'
    BY <1>1, <1>5, <1>10, KnownKept DEF Once
  <2>2. Tagged' /\ Alone'
    BY <1>1, <1>5, <1>7, <1>8, TaggedKept, AloneKept DEF Once
  <2> QED
    BY <2>1, <2>2
<1>12. ASSUME NEW x \in Exports PROVE Sorted(x)' /\ Passed(x)'
  <2>1. \A k, n \in Msgs : Before(work[x], k, n)' => Before(work[x], k, n)
    BY <1>3 DEF Before
  <2>2. Sorted(x) /\ Passed(x) /\ cur[x] \in Msgs \cup {None} /\ cur'[x] = cur[x] /\ epc'[x] = epc[x]
    BY <1>0, <1>3 DEF Once, Typed
  <2>3. Sorted(x)'
    BY <1>1, <1>8, <2>1, <2>2, SortedKept
  <2>4. Passed(x)'
    BY <1>1, <1>5, <2>2, PassedKept
  <2> QED
    BY <2>3, <2>4
<1> QED
  BY <1>11, <1>12 DEF Once

\* A message is read whose tag was free: it flushes a request or none, and no
\* flush that waits flushes it.
LEMMA ReadOnce ==
    ASSUME Inv, Once, NEW e \in Exports, NEW m \in Msgs, NEW next, NEW type,
           NEW tag \in Tags, NEW oldtag, read(e, m, next, type, tag, oldtag),
           \/ type = "T"
           \/ /\ type = "Tflush" /\ next = "flushq" /\ oldtag # tag
              /\ \A x \in Pending(e, oldtag) : q[x].type = "T"
    PROVE  Once'
<1>0. Base /\ Typed /\ Placed /\ InHand /\ Known /\ Tagged
  BY DEF Inv, Base, Once
<1>1. /\ q[m].st = "unread" /\ TagFree(e, tag)
      /\ UNCHANGED <<spc, job, fq, head, work, answered, cancelled>>
  BY DEF read, queue
<1>2. q \in [Msgs -> Exq] /\ q[m] \in Exq
  BY <1>0 DEF Typed
<1>3. /\ q'[m].st = "live" /\ q'[m].export = e /\ q'[m].type = type
      /\ q'[m].tag = tag /\ q'[m].oldtag = oldtag /\ q'[m].flush = q[m].flush
      /\ \A x \in Msgs : x # m => q'[x] = q[x]
  <2>1. q' = [q EXCEPT ![m].st = "live", ![m].export = e, ![m].type = type,
                       ![m].tag = tag, ![m].oldtag = oldtag]
    BY DEF read
  <2> QED
    BY <1>2, <2>1 DEF Exq
<1>4. /\ ~In(m, head)
      /\ \A s \in Slaves : job[s] # m /\ fq[s] # m
      /\ \A x \in Exports : cur[x] # m /\ ~In(m, work[x])
      /\ \A x \in Msgs : ~In(m, q[x].flush)
  BY <1>1, UnreadApart
<1>5. /\ cur'[e] = m /\ \A x \in Exports : x # e => cur'[x] = cur[x]
      /\ epc'[e] = next /\ \A x \in Exports : x # e => epc'[x] = epc[x]
  <2>1. epc' = [epc EXCEPT ![e] = next] /\ cur' = [cur EXCEPT ![e] = m]
    BY DEF read, egoto
  <2> QED
    BY <1>0, <2>1 DEF Typed
<1>6. /\ \A n \in Msgs : Owed(n)' => n = m \/ Owed(n)
      /\ \A n \in Msgs : Due(n)' => n = m \/ Due(n)
      /\ \A n \in Msgs : Ahead(n)' => Ahead(n)
  <2>1. \A n \in Msgs : Owed(n)' => n = m \/ Owed(n)
    BY <1>1, <1>3 DEF Owed
  <2>2. \A n \in Msgs : Due(n)' => n = m \/ Due(n)
    BY <1>1, <1>3, <1>5 DEF Due
  <2>3. \A n \in Msgs : Ahead(n)' => Ahead(n)
    BY <1>1 DEF Ahead
  <2> QED
    BY <2>1, <2>2, <2>3
<1>7. /\ \A n \in Msgs : Owed(n) /\ q[n].export = e => q[n].tag # tag
      /\ \A f \in Msgs : q[f].export = e /\ q[f].oldtag = tag => answered[f] # 0
  BY <1>1 DEF TagFree, Pending, Owed
<1>8. m \notin cancelled
  BY <1>0, <1>1 DEF Known
<1>9. Known'
  BY <1>0, <1>1, <1>3, <1>6, <1>8 DEF Known
<1>10. Tagged'
  <2>1. ASSUME NEW k \in Msgs, NEW n \in Msgs, Owed(k)', Owed(n)',
               q'[k].export = q'[n].export, q'[k].tag = q'[n].tag
        PROVE  k = n
    <3>1. CASE k # m /\ n # m
      BY <1>0, <1>3, <1>6, <2>1, <3>1 DEF Tagged
    <3>2. CASE k = m \/ n = m
      BY <1>3, <1>6, <1>7, <2>1, <3>2
    <3> QED
      BY <3>1, <3>2
  <2>2. ASSUME NEW f \in Msgs, NEW n \in Msgs, q'[f].st # "unread", answered'[f] = 0,
               Flushes(f, n)', Owed(n)'
        PROVE  q'[n].type = "T"
    <3>0. q'[f].type = "Tflush" /\ q'[f].export = q'[n].export /\ q'[f].oldtag = q'[n].tag
      BY <2>2 DEF Flushes
    <3>1. CASE f # m /\ n # m
      <4>1. q'[f] = q[f] /\ q'[n] = q[n] /\ Owed(n) /\ Flushes(f, n)
        BY <1>3, <1>6, <2>2, <3>0, <3>1 DEF Flushes
      <4> QED
        BY <1>0, <1>1, <2>2, <4>1 DEF Tagged
    <3>2. CASE f = m /\ n = m
      BY <1>3, <3>0, <3>2
    <3>3. CASE f = m /\ n # m
      <4>1. Owed(n) /\ q[n].export = e /\ q[n].tag = oldtag /\ type = "Tflush"
        BY <1>3, <1>6, <2>2, <3>0, <3>3
      <4>2. n \in Pending(e, oldtag)
        BY <4>1 DEF Owed, Pending
      <4> QED
        BY <1>3, <3>3, <4>1, <4>2
    <3>4. CASE f # m /\ n = m
      BY <1>1, <1>3, <1>7, <2>2, <3>0, <3>4
    <3> QED
      BY <3>1, <3>2, <3>3, <3>4
  <2> QED
    BY <2>1, <2>2 DEF Tagged
<1>11. Alone'
  <2> SUFFICES ASSUME NEW f \in Msgs, NEW k \in Msgs, NEW n \in Msgs,
                      Waits(f, k)', Flushes(f, n)', Due(n)'
               PROVE  n = k
    BY DEF Alone
  <2>1. Waits(f, k)
    <3>1. q'[k].flush = q[k].flush
      BY <1>3
    <3> QED
      BY <1>1, <3>1 DEF Waits
  <2>2. New(f) /\ f # m /\ f # None
    <3>1. New(f) /\ f # None
      BY <1>0, <2>1, ExportfsAssumption DEF Waits, Placed, OnFlush, AtFlush, FlushOf
    <3> QED
      BY <1>1, <3>1 DEF New
  <2>3. q'[f] = q[f] /\ q[f].export = q'[n].export /\ q[f].oldtag = q'[n].tag /\ q[f].type = "Tflush"
    BY <1>3, <2>2 DEF Flushes
  <2>4. n # m
    BY <1>3, <1>7, <2>2, <2>3 DEF New
  <2>5. Flushes(f, n) /\ Due(n)
    BY <1>3, <1>6, <2>3, <2>4 DEF Flushes
  <2> QED
    BY <2>1, <2>5 DEF Once, Alone
<1>12. ASSUME NEW x \in Exports PROVE Sorted(x)'
  <2> SUFFICES ASSUME NEW k \in Msgs, NEW n \in Msgs, Before(work'[x], k, n), q'[k].tag = q'[n].tag
               PROVE  ~Owed(n)'
    BY DEF Sorted, Before
  <2>1. Before(work[x], k, n)
    BY <1>1
  <2>2. In(k, work[x]) /\ In(n, work[x])
    BY <2>1 DEF Before, In
  <2>3. k # m /\ n # m
    BY <1>4, <2>2
  <2> QED
    BY <1>3, <1>6, <2>1, <2>3 DEF Once, Sorted
<1>13. ASSUME NEW x \in Exports PROVE Passed(x)'
  <2>1. CASE x = e
    <3>1. q'[cur'[x]].type = "Tflush" => epc'[x] \notin {"flushw", "reply"}
      BY <1>3, <1>5, <2>1
    <3> QED
      BY <3>1 DEF Passed
  <2>2. CASE x # e
    <3>1. CASE cur[x] = None
      BY <1>5, <2>2, <3>1 DEF Passed
    <3>2. CASE cur[x] # None
      <4>1. PICK f \in Msgs : /\ f = cur[x] /\ f = cur'[x] /\ f # None /\ f # m
                             /\ q[f].export = x /\ q'[f] = q[f] /\ epc'[x] = epc[x]
        BY <1>0, <1>3, <1>4, <1>5, <2>2, <3>2 DEF Typed, Placed, AtCur
      <4>2. ASSUME q'[f].type = "Tflush", NEW n \in Msgs, Flushes(f, n)'
            PROVE  /\ epc'[x] \in {"flushw", "reply"} => ~Ahead(n)'
                   /\ epc'[x] = "reply" => ~Due(n)'
        <5>1. n # m /\ Flushes(f, n)
          BY <1>3, <2>2, <4>1, <4>2 DEF Flushes
        <5> QED
          BY <1>6, <4>1, <4>2, <5>1 DEF Once, Passed
      <4>3. \A n \in Msgs : Flushes(cur[x], n)' => Flushes(f, n)'
        BY <4>1 DEF Flushes
      <4> QED
        BY <4>1, <4>2, <4>3 DEF Passed
    <3> QED
      BY <3>1, <3>2
  <2> QED
    BY <2>1, <2>2
<1> QED
  BY <1>9, <1>10, <1>11, <1>12, <1>13 DEF Once

LEMMA OnceInit == Init => Once
<1> SUFFICES ASSUME Init PROVE Once
  OBVIOUS
<1>1. /\ \A m \in Msgs : q[m].st = "unread" /\ q[m].type = "T" /\ q[m].flush = << >>
      /\ \A e \in Exports : cur[e] = None /\ work[e] = << >>
      /\ \A s \in Slaves : fq[s] = None /\ spc[s] = "none"
      /\ head = << >> /\ cancelled = {}
  BY DEF Init
<1>2. \A x : ~In(x, << >>)
  BY DEF In
<1>3. \A f, m \in Msgs : ~Waits(f, m)
  BY <1>1, <1>2, ExportfsAssumption DEF Waits
<1>4. \A m \in Msgs : ~Owed(m)
  BY <1>1 DEF Owed
<1>5. Known /\ Tagged /\ Alone
  BY <1>1, <1>3, <1>4 DEF Known, Tagged, Alone
<1>6. \A e \in Exports : Sorted(e) /\ Passed(e)
  BY <1>1, <1>4 DEF Sorted, Passed
<1> QED
  BY <1>5, <1>6 DEF Once

LEMMA OnceNext == Inv /\ Once /\ [Next]_vars => Once'
<1> SUFFICES ASSUME Inv, Once, [Next]_vars PROVE Once'
  OBVIOUS
<1>1. CASE UNCHANGED vars
  <2>1. UNCHANGED <<spc, epc, cur, job, fq, q, head, work, answered, cancelled>>
    BY <1>1 DEF vars, procs, queue, exports, history
  <2>2. Same /\ Typed
    BY <2>1 DEF Same, Inv, Base
  <2>3. \A s \in Slaves : Onwards(s)
    BY <2>1 DEF Onwards
  <2>4. \A f, m \in Msgs : Waits(f, m)' => Waits(f, m)
    BY <2>1, WaitsKept
  <2>5. \A e \in Exports : \A m, n \in Msgs : Before(work[e], m, n)' => Before(work[e], m, n)
    BY <2>1 DEF Before
  <2> QED
    BY <2>1, <2>2, <2>3, <2>4, <2>5, OnceKept
<1>2. ASSUME NEW e \in Exports, NEW m \in Msgs, NEW tag \in Tags,
             readT(e, m, tag) \/ (\E oldtag \in Tags : readTflush(e, m, tag, oldtag))
      PROVE  Once'
  BY <1>2, ReadOnce DEF readT, readTflush
<1>3. ASSUME NEW e \in Exports, Serve(e) \/ hangup(e) PROVE Once'
  BY <1>3, QuietOnce, EnqueueOnce, FlushQueueOnce, FlushWorkOnce, EreplyOnce DEF Serve
<1>4. ASSUME NEW s \in Slaves, Slave(s) \/ (\E err \in BOOLEAN : fcallReturns(s, err))
      PROVE  Once'
  BY <1>4, PassOnce, TakeOnce, LinkOnce, AnswerOnce, SendOnce DEF Slave
<1> QED
  BY <1>1, <1>2, <1>3, <1>4 DEF Next

LEMMA OnceHolds == Spec => []Once
<1>1. Inv /\ Once /\ [Next]_vars => Once'
  BY OnceNext
<1> QED
  BY <1>1, OnceInit, InvHolds, PTL DEF Spec

\* A message is answered once, and a request never after the Rflush that
\* cancelled it, whichever of exportproc and the slaves answers.
THEOREM ExAnsweredOnce == Spec => AnsweredOnce
<1> DEFINE A == \A m \in Msgs : answered'[m] # answered[m] => answered[m] = 0 /\ m \notin cancelled
<1>1. Inv /\ Once /\ [Next]_vars => [A]_vars
  <2> SUFFICES ASSUME Inv, Once, Next, NEW m \in Msgs, answered'[m] # answered[m]
               PROVE  answered[m] = 0 /\ m \notin cancelled
    OBVIOUS
  <2>0. Typed /\ InHand /\ Placed
    BY DEF Inv, Base
  <2>1. \A x \in Msgs : exreply(x) => x = m
    BY <2>0 DEF exreply, Typed
  <2>2. ASSUME New(m), q[m].type = "Tflush" PROVE answered[m] = 0 /\ m \notin cancelled
    BY <2>2 DEF New, Once, Known
  <2>3. ASSUME Due(m) PROVE answered[m] = 0 /\ m \notin cancelled
    BY <2>3, DueOwed DEF Owed, Once
  <2>4. CASE \E e \in Exports : ereply(e)
    <3>1. PICK e \in Exports : ereply(e)
      BY <2>4
    <3>2. exreply(cur[e]) /\ cur[e] # None /\ cur[e] \in Msgs
      BY <2>0, <3>1 DEF ereply, egoto, InHand, AtMsg, Typed
    <3>3. m = cur[e] /\ New(m)
      BY <2>0, <2>1, <3>2 DEF Placed, AtCur
    <3>4. q[m].type \in {"T", "Tflush"}
      BY <2>0, ExqFields DEF Typed
    <3> QED
      BY <2>2, <2>3, <3>3, <3>4 DEF Due
  <2>5. CASE \E s \in Slaves : reply(s) \/ freply(s)
    <3>1. PICK s \in Slaves : reply(s) \/ freply(s)
      BY <2>5
    <3>2. CASE reply(s)
      <4>1. exreply(job[s]) /\ spc[s] = "reply" /\ job[s] \in Msgs
        BY <2>0, <3>2 DEF reply, sgoto, InHand, AtJob, AfterLink, Typed
      <4>2. m = job[s]
        BY <2>1, <4>1
      <4>3. Due(m)
        BY <2>0, <4>1, <4>2 DEF Placed, AtWork, AfterLink, Due, AtDue
      <4> QED
        BY <2>3, <4>3
    <3>3. CASE freply(s)
      <4>1. exreply(fq[s]) /\ fq[s] # None /\ fq[s] \in Msgs
        BY <2>0, <3>3 DEF freply, sgoto, InHand, Typed
      <4>2. m = fq[s] /\ New(m) /\ q[m].type = "Tflush"
        BY <2>0, <2>1, <4>1 DEF Placed, AtFlush, FlushOf
      <4> QED
        BY <2>2, <4>2
    <3> QED
      BY <3>1, <3>2, <3>3
  <2>6. CASE answered' = answered
    BY <2>6
  <2>7. ASSUME NEW e \in Exports, Serve(e) \/ hangup(e) PROVE ereply(e) \/ answered' = answered
    BY <2>7 DEF Serve, hangup, enqueue, spawn, wakeup, exflushedQueue, exflushedWork,
                exshutdownQueue, exshutdownWork, exportExfree, history
  <2>8. ASSUME NEW s \in Slaves, Slave(s) \/ (\E err \in BOOLEAN : fcallReturns(s, err))
        PROVE  reply(s) \/ freply(s) \/ answered' = answered
    BY <2>8 DEF Slave, fcallReturns, qlockQwait, SleepRwait, take, link, complete,
                nextFlush, unlink, history
  <2>9. ASSUME NEW e \in Exports, NEW n \in Msgs, NEW tag \in Tags,
               readT(e, n, tag) \/ (\E oldtag \in Tags : readTflush(e, n, tag, oldtag))
        PROVE  answered' = answered
    BY <2>9 DEF readT, readTflush, read
  <2> QED
    BY <2>4, <2>5, <2>6, <2>7, <2>8, <2>9 DEF Next
<1> QED
  BY <1>1, InvHolds, OnceHolds, PTL DEF Spec, AnsweredOnce

-----------------------------------------------------------------------------
(* The flushes of a request are answered in the order they were read.  While *)
(* one waits the client does not use the tag again, so that the request that *)
(* it waits for is the first on the work list with the tag, and the next     *)
(* flush of it finds the same one and queues behind.                         *)

Gone(e) == epc[e] \in {"exfree", "done"}

\* Two flushes of one request, or of two that had its tag, f read before g.
Earlier(f, g) == /\ Before(got, f, g)
                 /\ q[f].type = "Tflush" /\ q[g].type = "Tflush"
                 /\ q[f].export = q[g].export /\ q[f].oldtag = q[g].oldtag

Received == Distinct(got) /\ \A m \in Msgs : In(m, got) => q[m].st # "unread"

\* A flush that is not answered is at hand, or waits, but for a shut down export.
Heard == \A f \in Msgs : q[f].type = "Tflush" /\ answered[f] = 0 =>
            \/ \E e \in Exports : q[f].export = e /\ (Gone(e) \/ cur[e] = f)
            \/ \E m \in Msgs : Waits(f, m)

\* What a flush waits for is the first on the work list with the tag.
Foremost == \A f, m, n \in Msgs : Waits(f, m) /\ Flushes(f, n) =>
               \A e \in Exports : ~Before(work[e], n, m)

\* No flush waits for a slave that has promised not to send any more.
Emptied == \A m \in Msgs : q[m].finished => q[m].flush = << >> \/ q[m].shut

\* A flush is not answered, nor about to be, before an earlier one.
Ranked == \A f, g \in Msgs : Earlier(f, g) /\ answered[f] = 0 =>
             /\ answered[g] = 0
             /\ \A s \in Slaves : fq[s] # g
             /\ \A e \in Exports : cur[e] = g => epc[e] # "reply"
             /\ \A m \in Msgs : In(g, q[m].flush) =>
                   \/ q[m].shut \/ Before(q[m].flush, f, g)
                   \/ \E s \in Slaves : fq[s] = f /\ job[s] = m

Ordered == Received /\ Heard /\ Foremost /\ Emptied /\ Ranked

\* What a flush waits for is in the hands of a slave that will answer it.
LEMMA WaitsFacts ==
    ASSUME Inv, NEW f \in Msgs, NEW m \in Msgs, Waits(f, m)
    PROVE  /\ FlushOf(f, m) /\ ~New(m)
           /\ \E s \in Slaves : job[s] = m /\ spc[s] \in AfterLink
           /\ q[m].shut \/ (q[m].export \in Exports /\ In(m, work[q[m].export]))
           /\ q[m].shut => q[m].export \in Exports /\ Gone(q[m].export)
           /\ Emptied => q[m].shut \/ ~q[m].finished
<1>0. Typed /\ InHand /\ Placed /\ f # None /\ m # None
  BY ExportfsAssumption DEF Inv, Base
<1>1. FlushOf(f, m) /\ \E s \in Slaves : job[s] = m /\ spc[s] \in AfterLink
                          /\ (q[m].flush # << >> \/ spc[s] = "freply")
  <2>1. CASE In(f, q[m].flush)
    <3>1. FlushOf(f, m) /\ q[m].flush # << >>
      BY <1>0, <2>1 DEF Placed, OnFlush, In
    <3>2. PICK s \in Slaves : s = q[m].slave /\ job[s] = m
      BY <1>0, <3>1, ExqFields DEF Placed, OnFlush, Typed
    <3>3. spc[s] \in AtJob /\ q[m].slave # None
      BY <1>0, <3>1, <3>2 DEF InHand, Placed, OnFlush
    <3>4. spc[s] # "link"
      BY <1>0, <3>2, <3>3 DEF Placed, AtLink, New
    <3> QED
      BY <3>1, <3>2, <3>3, <3>4 DEF AtJob
  <2>2. CASE \E s \in Slaves : fq[s] = f /\ job[s] = m
    <3>1. PICK s \in Slaves : fq[s] = f /\ job[s] = m
      BY <2>2
    <3>2. spc[s] = "freply" /\ FlushOf(f, m)
      BY <1>0, <3>1 DEF InHand, Placed, AtFlush
    <3> QED
      BY <3>1, <3>2 DEF AfterLink
  <2> QED
    BY <2>1, <2>2 DEF Waits
<1>2. PICK s \in Slaves : job[s] = m /\ spc[s] \in AfterLink
                          /\ (q[m].flush # << >> \/ spc[s] = "freply")
  BY <1>1
<1>3. /\ q[m].slave = s /\ s # None
      /\ q[m].finished <=> spc[s] = "unlink"
      /\ q[m].shut \/ In(m, work[q[m].export])
      /\ q[m].export \in Exports
  BY <1>0, <1>2, ExqFields, ExportfsAssumption DEF Placed, AtWork, Typed
<1>4. q[m].shut => Gone(q[m].export)
  BY <1>0 DEF Placed, Gone
<1>5. Emptied => q[m].shut \/ ~q[m].finished
  BY <1>2, <1>3 DEF Emptied
<1> QED
  BY <1>1, <1>2, <1>3, <1>4, <1>5 DEF New

\* Nothing that a waiting flush would flush is to be put on the work list.
LEMMA NoneAhead ==
    ASSUME Inv, Once, NEW f \in Msgs, NEW m \in Msgs, NEW n \in Msgs, Waits(f, m), Flushes(f, n)
    PROVE  ~Ahead(n)
<1>0. Placed
  BY DEF Inv
<1> SUFFICES ASSUME Ahead(n) PROVE FALSE
  OBVIOUS
<1>1. New(n) /\ q[n].type = "T"
  BY <1>0 DEF Ahead, Placed, OnHead, AtLink
<1>2. Due(n)
  BY <1>1 DEF Ahead, Due, AtDue
<1>3. n = m
  BY <1>2 DEF Once, Alone
<1> QED
  BY <1>1, <1>3, WaitsFacts

\* Where an earlier flush is while exportproc is at a flush.
LEMMA Standing ==
    ASSUME Inv, Ordered, NEW e \in Exports, NEW f \in Msgs, NEW g \in Msgs,
           cur[e] = g, Earlier(f, g), answered[f] = 0
    PROVE  \E m \in Msgs : /\ Waits(f, m) /\ q[f].export = e /\ q[m].export = e
                           /\ q[m].tag = q[g].oldtag /\ q[f].oldtag = q[g].oldtag
                           /\ q[f].type = "Tflush"
                           /\ In(m, work[e]) /\ ~q[m].finished
<1>0. Placed /\ InHand /\ g # None
  BY ExportfsAssumption DEF Inv, Base
<1>1. q[g].export = e /\ ~Gone(e)
  BY <1>0 DEF Placed, AtCur, InHand, AtMsg, Gone
<1>2. /\ q[f].export = e /\ q[f].type = "Tflush" /\ q[f].oldtag = q[g].oldtag
      /\ f # g
  BY <1>1 DEF Earlier, Ordered, Received, Before, Distinct
<1>3. PICK m \in Msgs : Waits(f, m)
  BY <1>1, <1>2 DEF Ordered, Heard
<1>4. FlushOf(f, m) /\ Emptied
  BY <1>3, WaitsFacts DEF Ordered
<1>5. q[m].export = e /\ q[m].tag = q[g].oldtag
  BY <1>2, <1>4 DEF FlushOf
<1>6. ~q[m].shut
  BY <1>1, <1>3, <1>5, WaitsFacts
<1> QED
  BY <1>2, <1>3, <1>4, <1>5, <1>6, WaitsFacts

-----------------------------------------------------------------------------
(* Steps that leave the flushes in their order.                              *)

LEMMA EarlierKept ==
    ASSUME Same, UNCHANGED got PROVE \A f, g \in Msgs : Earlier(f, g)' <=> Earlier(f, g)
<1>1. ASSUME NEW f \in Msgs, NEW g \in Msgs PROVE Earlier(f, g)' <=> Earlier(f, g)
  BY DEF Earlier, Before, Same
<1> QED
  BY <1>1

LEMMA ReceivedKept == ASSUME Received, Same, UNCHANGED got PROVE Received'
BY DEF Received, Same, Distinct, In

LEMMA ForemostKept ==
    ASSUME Foremost, Same,
           \A f, m \in Msgs : Waits(f, m)' => Waits(f, m),
           \A e \in Exports : \A m, n \in Msgs : Before(work[e], m, n)' => Before(work[e], m, n)
    PROVE  Foremost'
<1>1. \A f, n \in Msgs : Flushes(f, n)' => Flushes(f, n)
  BY DEF Same, Flushes
<1>2. ASSUME NEW f \in Msgs, NEW m \in Msgs, NEW n \in Msgs, Waits(f, m)', Flushes(f, n)',
             NEW e \in Exports
      PROVE  ~Before(work[e], n, m)'
  BY <1>1, <1>2 DEF Foremost
<1>3. \A e \in Exports : \A m, n \in Msgs : Before(work[e], m, n)' <=> Before(work'[e], m, n)
  BY DEF Before
<1> QED
  BY <1>2, <1>3 DEF Foremost

\* What answers are sent, and what becomes of the flushes that wait.
Settled == \A m \in Msgs : answered'[m] = 0 => answered[m] = 0

ExqKept(m) == /\ q[m].shut => q'[m].shut
              /\ \/ q'[m].flush = q[m].flush
                 \/ q'[m].flush = << >> /\ (q[m].flush = << >> \/ q[m].shut)
              /\ q'[m].finished => q[m].finished \/ q'[m].flush = << >> \/ q'[m].shut

Staying == /\ \A e \in Exports : Gone(e) => Gone(e)'
           /\ \A m \in Msgs : ExqKept(m)
           /\ \A s \in Slaves : fq[s] # None =>
                 answered'[fq[s]] # 0 \/ (fq'[s] = fq[s] /\ job'[s] = job[s])

LEMMA HeardKept ==
    ASSUME Inv, Heard, Same, Settled, Staying,
           \A e \in Exports : cur[e] # None =>
              cur'[e] = cur[e] \/ answered'[cur[e]] # 0 \/ q[cur[e]].type = "T"
    PROVE  Heard'
<1> SUFFICES ASSUME NEW f \in Msgs, q'[f].type = "Tflush", answered'[f] = 0
             PROVE  \/ \E e \in Exports : q'[f].export = e /\ (Gone(e)' \/ cur'[e] = f)
                    \/ \E m \in Msgs : Waits(f, m)'
  BY DEF Heard, Waits, Gone
<1>0. f # None
  BY ExportfsAssumption
<1>1. q[f].type = "Tflush" /\ answered[f] = 0 /\ q'[f].export = q[f].export
  BY DEF Same, Settled
<1>2. CASE \E e \in Exports : q[f].export = e /\ (Gone(e) \/ cur[e] = f)
  <2>1. PICK e \in Exports : q[f].export = e /\ (Gone(e) \/ cur[e] = f)
    BY <1>2
  <2>2. Gone(e)' \/ cur'[e] = f
    BY <1>0, <1>1, <2>1 DEF Staying
  <2> QED
    BY <1>1, <2>1, <2>2
<1>3. CASE \E m \in Msgs : Waits(f, m)
  <2>1. PICK m \in Msgs : Waits(f, m)
    BY <1>3
  <2>2. CASE \E s \in Slaves : fq[s] = f /\ job[s] = m
    <3>1. \E s \in Slaves : fq'[s] = f /\ job'[s] = m
      BY <1>0, <2>2 DEF Staying
    <3> QED
      BY <3>1 DEF Waits
  <2>3. CASE In(f, q[m].flush) /\ q'[m].flush = q[m].flush
    BY <2>3 DEF Waits
  <2>4. CASE In(f, q[m].flush) /\ q'[m].flush # q[m].flush
    <3>1. q[m].shut
      BY <2>4 DEF Staying, ExqKept, In
    <3>2. q[m].export \in Exports /\ Gone(q[m].export) /\ q[f].export = q[m].export
      BY <2>1, <3>1, WaitsFacts DEF FlushOf
    <3> QED
      BY <1>1, <3>2 DEF Staying
  <2> QED
    BY <2>1, <2>2, <2>3, <2>4 DEF Waits
<1> QED
  BY <1>1, <1>2, <1>3 DEF Heard

LEMMA RankedKept ==
    ASSUME Ranked, Same, Settled, Staying, UNCHANGED got,
           \A s \in Slaves : fq'[s] \in {fq[s], None},
           \A g \in Msgs : answered'[g] # answered[g] =>
              \A f \in Msgs : Earlier(f, g) => answered[f] # 0,
           \A e \in Exports, g \in Msgs : epc'[e] = "reply" /\ cur'[e] = g =>
              \/ epc[e] = "reply" /\ cur[e] = g
              \/ \A f \in Msgs : Earlier(f, g) => answered[f] # 0
    PROVE  Ranked'
<1> SUFFICES ASSUME NEW f \in Msgs, NEW g \in Msgs, Earlier(f, g), answered'[f] = 0
             PROVE  /\ answered'[g] = 0
                    /\ \A s \in Slaves : fq'[s] # g
                    /\ \A e \in Exports : cur'[e] = g => epc'[e] # "reply"
                    /\ \A m \in Msgs : In(g, q'[m].flush) =>
                          \/ q'[m].shut \/ Before(q'[m].flush, f, g)
                          \/ \E s \in Slaves : fq'[s] = f /\ job'[s] = m
  <2>1. \A m, f, g \in Msgs : /\ In(g, q[m].flush)' <=> In(g, q'[m].flush)
                              /\ Before(q[m].flush, f, g)' <=> Before(q'[m].flush, f, g)
    BY DEF In, Before
  <2> QED
    BY <2>1, EarlierKept DEF Ranked
<1>0. f # None /\ g # None
  BY ExportfsAssumption
<1>1. /\ answered[f] = 0 /\ answered[g] = 0
      /\ \A s \in Slaves : fq[s] # g
      /\ \A e \in Exports : cur[e] = g => epc[e] # "reply"
      /\ \A m \in Msgs : In(g, q[m].flush) =>
            \/ q[m].shut \/ Before(q[m].flush, f, g)
            \/ \E s \in Slaves : fq[s] = f /\ job[s] = m
  BY DEF Ranked, Settled
<1>2. answered'[g] = 0 /\ \A s \in Slaves : fq'[s] # g
  BY <1>0, <1>1
<1>3. \A e \in Exports : cur'[e] = g => epc'[e] # "reply"
  BY <1>1
<1>4. ASSUME NEW m \in Msgs, In(g, q'[m].flush)
      PROVE  \/ q'[m].shut \/ Before(q'[m].flush, f, g)
             \/ \E s \in Slaves : fq'[s] = f /\ job'[s] = m
  <2>1. q'[m].flush = q[m].flush
    BY <1>4 DEF Staying, ExqKept, In
  <2>2. CASE q[m].shut
    BY <2>2 DEF Staying, ExqKept
  <2>3. CASE Before(q[m].flush, f, g)
    BY <2>1, <2>3
  <2>4. CASE \E s \in Slaves : fq[s] = f /\ job[s] = m
    BY <1>0, <2>4 DEF Staying
  <2> QED
    BY <1>1, <1>4, <2>1, <2>2, <2>3, <2>4
<1> QED
  BY <1>2, <1>3, <1>4

LEMMA EmptiedKept == ASSUME Emptied, \A m \in Msgs : ExqKept(m) PROVE Emptied'
BY DEF Emptied, ExqKept

LEMMA FreeKept ==
    ASSUME q \in [Msgs -> Exq], NEW F,
           \A m \in Msgs : m \in F => q[m].flush = << >> \/ q[m].shut,
           q' = FreeAll(F, q)
    PROVE  \A m \in Msgs : ExqKept(m)
<1>1. ASSUME NEW m \in Msgs
      PROVE  /\ q'[m].shut = q[m].shut /\ q'[m].finished = q[m].finished
             /\ \/ q'[m].flush = q[m].flush
                \/ q'[m].flush = << >> /\ (q[m].flush = << >> \/ q[m].shut)
  BY FreeFields
<1> QED
  BY <1>1 DEF ExqKept

\* What is left to say of a step that only takes flushes out of the wait.
LEMMA OrderedKept ==
    ASSUME Inv, Ordered, Same, Settled, Staying, UNCHANGED got,
           \A e \in Exports : cur[e] # None =>
              cur'[e] = cur[e] \/ answered'[cur[e]] # 0 \/ q[cur[e]].type = "T",
           \A e \in Exports, g \in Msgs : epc'[e] = "reply" /\ cur'[e] = g =>
              \/ epc[e] = "reply" /\ cur[e] = g
              \/ \A f \in Msgs : Earlier(f, g) => answered[f] # 0,
           \A s \in Slaves : fq'[s] \in {fq[s], None},
           \A g \in Msgs : answered'[g] # answered[g] =>
              \A f \in Msgs : Earlier(f, g) => answered[f] # 0
    PROVE  Foremost' => Ordered'
<1>1. Received'
  BY ReceivedKept DEF Ordered
<1>2. Heard'
  BY HeardKept DEF Ordered
<1>3. Emptied'
  BY EmptiedKept DEF Ordered, Staying
<1>4. Ranked'
  BY RankedKept DEF Ordered
<1> QED
  BY <1>1, <1>2, <1>3, <1>4 DEF Ordered

\* exportproc, when it sends no answer.
LEMMA QuietOrdered ==
    ASSUME Inv, Ordered, NEW e \in Exports,
           \/ enqueue(e) \/ spawn(e) \/ wakeup(e) \/ hangup(e) \/ exportExfree(e)
           \/ exshutdownQueue(e) \/ exshutdownWork(e)
    PROVE  Ordered'
<1>0. Base /\ Typed /\ Placed /\ q \in [Msgs -> Exq]
  BY DEF Inv, Base, Typed
<1>1. Same
  BY ServeSame DEF Serve
<1>2. UNCHANGED <<job, fq, got, answered>>
  BY DEF enqueue, spawn, wakeup, hangup, exportExfree, exshutdownQueue, exshutdownWork, history
<1>3. \E from, to \in ExportLabels : /\ egoto(e, from, to) /\ to # "reply"
                                     /\ from = "exfree" => to = "done"
                                     /\ from # "done"
  BY DEF enqueue, spawn, wakeup, hangup, exportExfree, exshutdownQueue, exshutdownWork, ExportLabels
<1>4. \A x \in Exports : /\ Gone(x) => Gone(x)'
                         /\ epc'[x] = "reply" => epc[x] = "reply"
  BY <1>0, <1>3 DEF egoto, Typed, Gone
<1>5. cur' = cur \/ (enqueue(e) /\ cur' = [cur EXCEPT ![e] = None])
  BY DEF enqueue, spawn, wakeup, hangup, exportExfree, exshutdownQueue, exshutdownWork
<1>6. \A x \in Exports : cur'[x] = cur[x] \/ (cur'[x] = None /\ (cur[x] = None \/ q[cur[x]].type = "T"))
  BY <1>0, <1>5 DEF Typed, Placed, AtCur, enqueue, egoto
<1>7. /\ \A m \in Msgs : ExqKept(m)
      /\ \A m \in Msgs : q'[m].flush = q[m].flush \/ q'[m].flush = << >>
  <2>1. CASE UNCHANGED q
    BY <2>1 DEF ExqKept
  <2>2. CASE exshutdownQueue(e)
    <3>1. PICK F : F = {m \in ToSet(head) : q[m].export = e}
      OBVIOUS
    <3>2. q' = FreeAll(F, q)
      BY <2>2, <3>1 DEF exshutdownQueue
    <3>3. \A m \in F : m \in Msgs /\ In(m, head)
      BY <1>0, <3>1, ToSetIn DEF Typed, ToSet
    <3>4. \A m \in Msgs : m \in F => q[m].flush = << >>
      BY <1>0, <3>3 DEF Placed, OnHead, New
    <3> QED
      BY <1>0, <3>2, <3>4, FreeKept, FreeFields
  <2>3. CASE exshutdownWork(e)
    <3>1. \E M : q' = [m \in Msgs |-> IF m \in M THEN [q[m] EXCEPT !.shut = TRUE] ELSE q[m]]
      BY <2>3 DEF exshutdownWork
    <3>2. \A m \in Msgs : /\ q[m].shut => q'[m].shut
                          /\ q'[m].flush = q[m].flush /\ q'[m].finished = q[m].finished
      BY <1>0, <3>1 DEF Exq
    <3> QED
      BY <3>2 DEF ExqKept
  <2> QED
    BY <2>1, <2>2, <2>3 DEF enqueue, spawn, wakeup, hangup, exportExfree
<1>8. \A x \in Exports : \A m, n \in Msgs : Before(work[x], m, n)' => Before(work[x], m, n)
  <2>1. work' = work \/ work' = [work EXCEPT ![e] = << >>]
    BY DEF enqueue, spawn, wakeup, hangup, exportExfree, exshutdownQueue, exshutdownWork, exports
  <2>2. \A x \in Exports : work'[x] = work[x] \/ work'[x] = << >>
    BY <1>0, <2>1 DEF Typed
  <2> QED
    BY <2>2 DEF Before
<1>9. Foremost'
  <2>1. \A f, m \in Msgs : Waits(f, m)' => Waits(f, m)
    BY <1>2, <1>7, WaitsKept
  <2> QED
    BY <1>1, <1>8, <2>1, ForemostKept DEF Ordered
<1>10. Settled /\ Staying
  BY <1>2, <1>4, <1>7 DEF Settled, Staying
<1>11. \A x \in Exports, g \in Msgs : epc'[x] = "reply" /\ cur'[x] = g => epc[x] = "reply" /\ cur[x] = g
  BY <1>4, <1>6, ExportfsAssumption
<1> QED
  BY <1>1, <1>2, <1>6, <1>9, <1>10, <1>11, OrderedKept

\* exflushedWork, when it queues no flush.
LEMMA FoundFinished ==
    ASSUME Inv, NEW e \in Exports, exflushedWork(e), q' = q, NEW c, c = cur[e]
    PROVE  /\ cur' = cur /\ epc' = [epc EXCEPT ![e] = "reply"]
           /\ \/ \A i \in 1 .. Len(work[e]) : q[work[e][i]].tag # q[c].oldtag
              \/ \E n \in 1 .. Len(work[e]) :
                    /\ q[work[e][n]].tag = q[c].oldtag /\ q[work[e][n]].finished
                    /\ \A i \in 1 .. Len(work[e]) : q[work[e][i]].tag = q[c].oldtag => n <= i
<1>0. Base /\ Typed
  BY DEF Inv, Base
<1>1. ASSUME NEW n \in 1 .. Len(work[e]), q' = [q EXCEPT ![work[e][n]].flush = Append(@, c)]
      PROVE  FALSE
  <2>1. PICK m \in Msgs : m = work[e][n]
    BY <1>0 DEF Typed
  <2>2. q[m].flush \in Seq(Msgs)
    BY <1>0, ExqFields DEF Typed
  <2>3. q'[m].flush = Append(q[m].flush, c)
    BY <1>0, <1>1, <2>1 DEF Typed, Exq
  <2>4. Len(Append(q[m].flush, c)) = Len(q[m].flush) + 1 /\ Len(q[m].flush) \in Nat
    BY <2>2
  <2> QED
    BY <2>3, <2>4
<1> QED
  BY <1>0, <1>1, WorkFound

\* exflushed leaves a flush to exportproc to answer only when no earlier one
\* waits.
LEMMA FoundOrdered ==
    ASSUME Inv, Once, Ordered, NEW e \in Exports,
           exflushedQueue(e) \/ (exflushedWork(e) /\ q' = q)
    PROVE  Ordered'
<1>0. Base /\ Typed /\ Placed /\ InHand /\ q \in [Msgs -> Exq]
  BY DEF Inv, Base, Typed
<1>1. Same
  BY ServeSame DEF Serve
<1>2. UNCHANGED <<job, fq, got, answered, work>> /\ epc[e] \in {"flushq", "flushw"}
  BY DEF exflushedQueue, exflushedWork, history
<1>3. PICK c \in Msgs : c = cur[e] /\ c # None /\ q[c].export = e
  BY <1>0, <1>2 DEF InHand, AtMsg, Typed, Placed, AtCur
<1>4. /\ cur' = cur /\ \E to \in {"flushw", "reply"} : epc' = [epc EXCEPT ![e] = to]
      /\ \A m \in Msgs : ExqKept(m)
      /\ \A m \in Msgs : q'[m].flush = q[m].flush \/ q'[m].flush = << >>
      /\ epc' = [epc EXCEPT ![e] = "reply"] => \A f \in Msgs : Earlier(f, c) => answered[f] # 0
  <2>1. CASE exflushedQueue(e)
    <3>1. cur' = cur
      BY <2>1 DEF exflushedQueue
    <3>2. CASE /\ epc' = [epc EXCEPT ![e] = "flushw"] /\ q' = q
      <4>1. epc'[e] = "flushw"
        BY <1>0, <3>2 DEF Typed
      <4>2. epc' # [epc EXCEPT ![e] = "reply"]
        BY <1>0, <4>1 DEF Typed
      <4> QED
        BY <3>1, <3>2, <4>2 DEF ExqKept
    <3>3. CASE \E n \in 1 .. Len(head) : /\ Wanted(e, q[cur[e]].oldtag, head[n])
                                         /\ q' = FreeAll(Freed(head[n]), q)
                                         /\ epc' = [epc EXCEPT ![e] = "reply"]
      <4>1. PICK m \in Msgs : In(m, head) /\ Wanted(e, q[c].oldtag, m) /\ q' = FreeAll(Freed(m), q)
        BY <1>0, <1>3, <3>3 DEF In, Typed
      <4>2. New(m) /\ Freed(m) = {m} /\ q[m].flush = << >>
        BY <1>0, <4>1 DEF Placed, OnHead, New, Freed, ToSet
      <4>3. \A x \in Msgs : x \in {m} => q[x].flush = << >>
        BY <4>2
      <4>4. \A x \in Msgs : ExqKept(x)
        BY <1>0, <4>1, <4>2, <4>3, FreeKept
      <4>5. ASSUME NEW f \in Msgs, Earlier(f, c), answered[f] = 0 PROVE FALSE
        <5>1. PICK k \in Msgs : Waits(f, k) /\ q[f].type = "Tflush" /\ q[f].export = e
                                /\ q[f].oldtag = q[c].oldtag
          BY <1>3, <4>5, Standing
        <5>2. Flushes(f, m) /\ Ahead(m)
          BY <4>1, <5>1 DEF Flushes, Wanted, Ahead
        <5> QED
          BY <5>1, <5>2, NoneAhead
      <4>6. \A x \in Msgs : q'[x].flush = q[x].flush \/ q'[x].flush = << >>
        BY <4>4 DEF ExqKept
      <4> QED
        BY <3>1, <3>3, <4>4, <4>5, <4>6
    <3> QED
      BY <1>0, <2>1, <3>1, <3>2, <3>3, QueueFound
  <2>2. CASE exflushedWork(e) /\ q' = q
    <3>1. \/ \A i \in 1 .. Len(work[e]) : q[work[e][i]].tag # q[c].oldtag
          \/ \E n \in 1 .. Len(work[e]) :
                /\ q[work[e][n]].tag = q[c].oldtag /\ q[work[e][n]].finished
                /\ \A i \in 1 .. Len(work[e]) : q[work[e][i]].tag = q[c].oldtag => n <= i
      BY <1>0, <1>3, <2>2, FoundFinished
    <3>2. cur' = cur /\ epc' = [epc EXCEPT ![e] = "reply"]
      BY <1>0, <1>3, <2>2, FoundFinished
    <3>3. ASSUME NEW f \in Msgs, Earlier(f, c), answered[f] = 0 PROVE FALSE
      <4>1. PICK m \in Msgs : /\ Waits(f, m) /\ q[f].export = e /\ q[m].export = e
                              /\ q[m].tag = q[c].oldtag /\ q[f].oldtag = q[c].oldtag
                              /\ q[f].type = "Tflush"
                              /\ In(m, work[e]) /\ ~q[m].finished
        BY <1>3, <3>3, Standing
      <4>2. PICK i \in 1 .. Len(work[e]) : work[e][i] = m
        BY <4>1 DEF In
      <4>3. PICK n \in 1 .. Len(work[e]) :
                /\ q[work[e][n]].tag = q[c].oldtag /\ q[work[e][n]].finished
                /\ n <= i
        BY <3>1, <4>1, <4>2
      <4>4. PICK k \in Msgs : k = work[e][n]
        BY <1>0 DEF Typed
      <4>5. k # m /\ n < i /\ In(k, work[e])
        BY <4>1, <4>2, <4>3, <4>4 DEF In
      <4>6. Flushes(f, k) /\ Before(work[e], k, m)
        BY <1>0, <4>1, <4>2, <4>3, <4>4, <4>5 DEF Flushes, Before, Placed, OnWork
      <4> QED
        BY <4>1, <4>6 DEF Ordered, Foremost
    <3> QED
      BY <2>2, <3>2, <3>3 DEF ExqKept
  <2> QED
    BY <2>1, <2>2
<1>5. PICK to \in {"flushw", "reply"} : epc' = [epc EXCEPT ![e] = to]
  BY <1>4
<1>6. /\ epc'[e] = to /\ \A x \in Exports : x # e => epc'[x] = epc[x]
  BY <1>0, <1>5 DEF Typed
<1>7. Settled /\ Staying
  BY <1>2, <1>4, <1>6 DEF Settled, Staying, Gone
<1>8. \A x \in Exports, g \in Msgs : epc'[x] = "reply" /\ cur'[x] = g =>
         \/ epc[x] = "reply" /\ cur[x] = g
         \/ \A f \in Msgs : Earlier(f, g) => answered[f] # 0
  BY <1>3, <1>4, <1>5, <1>6
<1>9. Foremost'
  <2>1. \A f, m \in Msgs : Waits(f, m)' => Waits(f, m)
    BY <1>2, <1>4, WaitsKept
  <2>2. \A x \in Exports : \A m, n \in Msgs : Before(work[x], m, n)' => Before(work[x], m, n)
    BY <1>2 DEF Before
  <2> QED
    BY <1>1, <2>1, <2>2, ForemostKept DEF Ordered
<1> QED
  BY <1>1, <1>2, <1>4, <1>7, <1>8, <1>9, OrderedKept

\* exflushed queues a flush: behind the earlier ones that wait.
LEMMA JoinOrdered ==
    ASSUME Inv, Once, Ordered, NEW e \in Exports, exflushedWork(e), q' # q
    PROVE  Ordered'
<1>0. Base /\ Typed /\ Placed /\ InHand /\ q \in [Msgs -> Exq]
  BY DEF Inv, Base, Typed
<1>1. Same
  BY ServeSame DEF Serve
<1>2. UNCHANGED <<job, fq, got, answered, work, head, spc>> /\ epc[e] = "flushw"
  BY DEF exflushedWork, history, queue
<1>3. PICK c \in Msgs : c = cur[e] /\ c # None
  BY <1>0, <1>2 DEF InHand, AtMsg, Typed
<1>4. PICK n \in 1 .. Len(work[e]) :
         /\ q[work[e][n]].tag = q[cur[e]].oldtag
         /\ \A i \in 1 .. Len(work[e]) : q[work[e][i]].tag = q[cur[e]].oldtag => n <= i
         /\ ~q[work[e][n]].finished
         /\ q' = [q EXCEPT ![work[e][n]].flush = Append(@, cur[e])]
         /\ epc' = [epc EXCEPT ![e] = "read"]
         /\ cur' = [cur EXCEPT ![e] = None]
  BY <1>0, WorkFound
<1>5. PICK m \in Msgs : m = work[e][n]
  BY <1>0 DEF Typed
<1>6. /\ q[m].tag = q[c].oldtag /\ ~q[m].finished /\ In(m, work[e]) /\ q[m].export = e
      /\ ~q[m].shut
  BY <1>0, <1>3, <1>4, <1>5 DEF In, Placed, OnWork
<1>7. q[m].flush \in Seq(Msgs)
  BY <1>0, ExqFields
<1>8. /\ q'[m].flush = Append(q[m].flush, c)
      /\ \A x \in Msgs : x # m => q'[x] = q[x]
      /\ \A x \in Msgs : q'[x].shut = q[x].shut /\ q'[x].finished = q[x].finished
  BY <1>0, <1>3, <1>4, <1>5 DEF Exq
<1>9. /\ cur'[e] = None /\ \A x \in Exports : x # e => cur'[x] = cur[x]
      /\ epc'[e] = "read" /\ \A x \in Exports : x # e => epc'[x] = epc[x]
  BY <1>0, <1>4 DEF Typed
<1>10. q[c].export = e /\ q[c].type = "Tflush" /\ answered[c] = 0 /\ ~Gone(e)
  BY <1>0, <1>2, <1>3 DEF Placed, AtCur, New, Gone
<1>11. /\ ~In(c, q[m].flush)
       /\ \A x \in Msgs : ~In(c, q[x].flush)
       /\ \A s \in Slaves : fq[s] # c
  BY <1>3, Apart
\* The queues of flushes.
<1>12. /\ \A f \in Msgs : In(f, q[m].flush) => In(f, q'[m].flush) /\ Before(q'[m].flush, f, c)
       /\ \A f, g \in Msgs : Before(q[m].flush, f, g) => Before(q'[m].flush, f, g)
       /\ In(c, q'[m].flush)
       /\ \A f \in Msgs : In(f, q'[m].flush) => In(f, q[m].flush) \/ f = c
  <2>1. Distinct(q[m].flush)
    BY <1>0 DEF Placed, OnFlush
  <2>2. \A f \in Msgs : In(f, q'[m].flush) <=> In(f, q[m].flush) \/ f = c
    BY <1>7, <1>8, <1>11, <2>1, JoinQueue
  <2> QED
    BY <1>7, <1>8, <2>2, JoinBehind
<1>13. ASSUME NEW f \in Msgs, NEW x \in Msgs
       PROVE  /\ Waits(f, x)' <=> Waits(f, x) \/ (f = c /\ x = m)
  <2>1. In(f, q[x].flush)' <=> In(f, q'[x].flush)
    BY DEF In
  <2>2. In(f, q'[x].flush) <=> In(f, q[x].flush) \/ (f = c /\ x = m)
    BY <1>8, <1>12
  <2> QED
    BY <1>2, <2>1, <2>2 DEF Waits
<1>14. Received'
  BY <1>1, <1>2, ReceivedKept DEF Ordered
<1>15. Heard'
  <2> SUFFICES ASSUME NEW f \in Msgs, q'[f].type = "Tflush", answered'[f] = 0
               PROVE  \/ \E x \in Exports : q'[f].export = x /\ (Gone(x)' \/ cur'[x] = f)
                      \/ \E x \in Msgs : Waits(f, x)'
    BY DEF Heard, Waits, Gone, In
  <2>1. CASE f = c
    BY <1>13, <2>1
  <2>2. CASE f # c
    <3>1. q[f].type = "Tflush" /\ answered[f] = 0 /\ q'[f].export = q[f].export
      BY <1>1, <1>2 DEF Same
    <3>2. CASE \E x \in Exports : q[f].export = x /\ (Gone(x) \/ cur[x] = f)
      BY <1>3, <1>9, <1>10, <2>2, <3>1, <3>2 DEF Gone
    <3>3. CASE \E x \in Msgs : Waits(f, x)
      BY <1>13, <3>3
    <3> QED
      BY <3>1, <3>2, <3>3 DEF Ordered, Heard
  <2> QED
    BY <2>1, <2>2
<1>16. Foremost'
  <2>1. \A f, k \in Msgs : Flushes(f, k)' => Flushes(f, k)
    BY <1>1 DEF Same, Flushes
  <2>2. \A x \in Exports, k, j \in Msgs : Before(work[x], k, j)' <=> Before(work[x], k, j)
    BY <1>2 DEF Before
  <2> SUFFICES ASSUME NEW f \in Msgs, NEW k \in Msgs, NEW j \in Msgs, Waits(f, k)', Flushes(f, j),
                      NEW x \in Exports, Before(work[x], j, k)
               PROVE  FALSE
    BY <2>1, <2>2 DEF Foremost
  <2>3. ~Waits(f, k)
    BY DEF Ordered, Foremost
  <2>4. f = c /\ k = m
    BY <1>13, <2>3
  <2>5. PICK a, b \in 1 .. Len(work[x]) : a < b /\ work[x][a] = j /\ work[x][b] = m
    BY <2>4 DEF Before
  <2>6. x = e
    BY <1>0, <1>6, <2>5 DEF Placed, OnWork, In
  <2>7. b = n
    BY <1>0, <1>5, <2>5, <2>6 DEF Placed, OnWork, Distinct
  <2>8. q[j].tag = q[cur[e]].oldtag
    BY <1>3, <2>4 DEF Flushes
  <2> QED
    BY <1>4, <2>5, <2>6, <2>7, <2>8
<1>17. Emptied'
  BY <1>6, <1>8 DEF Ordered, Emptied
<1>18. Ranked'
  <2>1. \A x, f, g \in Msgs : /\ In(g, q[x].flush)' <=> In(g, q'[x].flush)
                              /\ Before(q[x].flush, f, g)' <=> Before(q'[x].flush, f, g)
    BY DEF In, Before
  <2> SUFFICES ASSUME NEW f \in Msgs, NEW g \in Msgs, Earlier(f, g), answered[f] = 0
               PROVE  /\ answered[g] = 0
                      /\ \A s \in Slaves : fq[s] # g
                      /\ \A x \in Exports : cur'[x] = g => epc'[x] # "reply"
                      /\ \A x \in Msgs : In(g, q'[x].flush) =>
                            \/ q'[x].shut \/ Before(q'[x].flush, f, g)
                            \/ \E s \in Slaves : fq[s] = f /\ job[s] = x
    BY <1>1, <1>2, <2>1, EarlierKept DEF Ranked
  <2>2. /\ answered[g] = 0
        /\ \A s \in Slaves : fq[s] # g
        /\ \A x \in Exports : cur[x] = g => epc[x] # "reply"
        /\ \A x \in Msgs : In(g, q[x].flush) =>
              \/ q[x].shut \/ Before(q[x].flush, f, g)
              \/ \E s \in Slaves : fq[s] = f /\ job[s] = x
    BY DEF Ordered, Ranked
  <2>3. \A x \in Exports : cur'[x] = g => epc'[x] # "reply"
    BY <1>9, <2>2
  <2>4. ASSUME NEW x \in Msgs, In(g, q'[x].flush)
        PROVE  \/ q'[x].shut \/ Before(q'[x].flush, f, g)
               \/ \E s \in Slaves : fq[s] = f /\ job[s] = x
    <3>1. CASE x # m \/ g # c
      BY <1>8, <1>12, <2>2, <2>4, <3>1
    <3>2. CASE x = m /\ g = c
      <4>1. PICK k \in Msgs : /\ Waits(f, k) /\ q[f].export = e /\ q[k].export = e
                              /\ q[k].tag = q[c].oldtag /\ q[f].oldtag = q[c].oldtag
                              /\ q[f].type = "Tflush" /\ In(k, work[e])
        BY <1>3, <3>2, Standing
      <4>2. PICK i \in 1 .. Len(work[e]) : work[e][i] = k
        BY <4>1 DEF In
      <4>3. n <= i
        BY <1>3, <1>4, <4>1, <4>2
      <4>4. ~(n < i)
        <5>1. Flushes(f, m)
          BY <1>6, <4>1 DEF Flushes
        <5>2. ~Before(work[e], m, k)
          BY <4>1, <5>1 DEF Ordered, Foremost
        <5> QED
          BY <1>5, <4>2, <5>2 DEF Before
      <4>5. k = m
        BY <1>0, <1>5, <4>2, <4>3, <4>4 DEF Typed
      <4> QED
        BY <1>12, <3>2, <4>1, <4>5 DEF Waits
    <3> QED
      BY <3>1, <3>2
  <2> QED
    BY <2>2, <2>3, <2>4
<1> QED
  BY <1>14, <1>15, <1>16, <1>17, <1>18 DEF Ordered

\* exportproc answers, itself.
LEMMA EreplyOrdered == ASSUME Inv, Ordered, NEW e \in Exports, ereply(e) PROVE Ordered'
<1>0. Base /\ Typed /\ Placed /\ InHand /\ q \in [Msgs -> Exq]
  BY DEF Inv, Base, Typed
<1>1. Same
  BY ServeSame DEF Serve
<1>2. UNCHANGED <<job, fq, got, work>> /\ epc[e] = "reply" /\ exreply(cur[e])
  BY DEF ereply, egoto, exreply
<1>3. PICK c \in Msgs : c = cur[e] /\ c # None /\ New(c)
  BY <1>0, <1>2 DEF InHand, AtMsg, Typed, Placed, AtCur
<1>4. /\ cur'[e] = None /\ \A x \in Exports : x # e => cur'[x] = cur[x]
      /\ epc'[e] = "read" /\ \A x \in Exports : x # e => epc'[x] = epc[x]
  <2>1. cur' = [cur EXCEPT ![e] = None] /\ epc' = [epc EXCEPT ![e] = "read"]
    BY DEF ereply, egoto
  <2> QED
    BY <1>0, <2>1 DEF Typed
<1>5. answered'[c] # 0 /\ \A x \in Msgs : x # c => answered'[x] = answered[x]
  <2>1. answered' = [answered EXCEPT ![c] = @ + 1]
    BY <1>2, <1>3 DEF exreply
  <2> QED
    BY <1>0, <1>3, <2>1 DEF Typed, New
<1>6. /\ \A m \in Msgs : ExqKept(m)
      /\ \A m \in Msgs : q'[m].flush = q[m].flush \/ q'[m].flush = << >>
  <2>1. Freed(c) = {c} /\ q[c].flush = << >>
    BY <1>3 DEF Freed, New, ToSet
  <2>2. q' = FreeAll({c}, q) /\ \A m \in Msgs : m \in {c} => q[m].flush = << >>
    BY <1>3, <2>1 DEF ereply
  <2> QED
    BY <1>0, <2>2, FreeKept, FreeFields
<1>7. Settled /\ Staying
  BY <1>2, <1>3, <1>4, <1>5, <1>6 DEF Settled, Staying, Gone, New
<1>8. Foremost'
  <2>1. \A f, m \in Msgs : Waits(f, m)' => Waits(f, m)
    BY <1>2, <1>6, WaitsKept
  <2>2. \A x \in Exports : \A m, n \in Msgs : Before(work[x], m, n)' => Before(work[x], m, n)
    BY <1>2 DEF Before
  <2> QED
    BY <1>1, <2>1, <2>2, ForemostKept DEF Ordered
<1>9. \A g \in Msgs : answered'[g] # answered[g] => \A f \in Msgs : Earlier(f, g) => answered[f] # 0
  <2> SUFFICES ASSUME NEW f \in Msgs, Earlier(f, c), answered[f] = 0 PROVE FALSE
    BY <1>5
  <2> QED
    BY <1>2, <1>3 DEF Ordered, Ranked
<1>10. \A x \in Exports, g \in Msgs : epc'[x] = "reply" /\ cur'[x] = g => epc[x] = "reply" /\ cur[x] = g
  BY <1>4
<1>11. \A x \in Exports : cur[x] # None => cur'[x] = cur[x] \/ answered'[cur[x]] # 0
  BY <1>3, <1>4, <1>5
<1> QED
  BY <1>1, <1>2, <1>7, <1>8, <1>9, <1>10, <1>11, OrderedKept

\* A slave, but when it takes a flush to answer.
LEMMA SlaveOrdered ==
    ASSUME Inv, Ordered, Same, Settled, UNCHANGED <<epc, cur, got>>,
           \A m \in Msgs : ExqKept(m),
           \A s \in Slaves : /\ fq'[s] \in {fq[s], None}
                             /\ fq[s] # None => /\ job'[s] = job[s]
                                                /\ fq'[s] = fq[s] \/ answered'[fq[s]] # 0,
           \A g \in Msgs : answered'[g] # answered[g] =>
              \A f \in Msgs : Earlier(f, g) => answered[f] # 0,
           \A f, m, n \in Msgs : Waits(f, m) /\ Flushes(f, n) =>
              \A e \in Exports : Before(work'[e], n, m) => Before(work[e], n, m)
    PROVE  Ordered'
<1>1. \A f, m \in Msgs : Waits(f, m)' => Waits(f, m)
  <2> SUFFICES ASSUME NEW f \in Msgs, NEW m \in Msgs, Waits(f, m)' PROVE Waits(f, m)
    OBVIOUS
  <2>0. f # None
    BY ExportfsAssumption
  <2>1. CASE In(f, q'[m].flush)
    <3>1. q'[m].flush = q[m].flush
      BY <2>1 DEF ExqKept, In
    <3> QED
      BY <2>1, <3>1 DEF Waits
  <2>2. CASE \E s \in Slaves : fq'[s] = f /\ job'[s] = m
    BY <2>0, <2>2 DEF Waits
  <2> QED
    BY <2>1, <2>2 DEF Waits, In
<1>2. Foremost'
  <2>1. \A f, n \in Msgs : Flushes(f, n)' => Flushes(f, n)
    BY DEF Same, Flushes
  <2>2. \A e \in Exports, n, m \in Msgs : Before(work[e], n, m)' <=> Before(work'[e], n, m)
    BY DEF Before
  <2> QED
    BY <1>1, <2>1, <2>2 DEF Ordered, Foremost
<1>3. Staying
  BY DEF Staying, Gone
<1>4. \A e \in Exports, g \in Msgs : epc'[e] = "reply" /\ cur'[e] = g => epc[e] = "reply" /\ cur[e] = g
  OBVIOUS
<1> QED
  BY <1>2, <1>3, <1>4, OrderedKept

\* A slave that is not at the answer to a flush, and sends none.
LEMMA StepOrdered ==
    ASSUME Inv, Once, Ordered, NEW s \in Slaves,
           \/ qlockQwait(s) \/ SleepRwait(s) \/ take(s) \/ link(s)
           \/ (\E err \in BOOLEAN : fcallReturns(s, err))
    PROVE  Ordered'
<1>0. Base /\ Typed /\ Placed /\ InHand /\ q \in [Msgs -> Exq]
  BY DEF Inv, Base, Typed
<1>1. Same
  BY SlaveSame DEF Slave
<1>2. /\ UNCHANGED <<epc, cur, got, fq, answered>>
      /\ spc[s] \in {"idle", "sleep", "take", "link", "call"}
  BY DEF qlockQwait, SleepRwait, take, link, fcallReturns, sgoto, history
<1>3. fq[s] = None
  BY <1>0, <1>2 DEF InHand
<1>4. \A x \in Slaves : x # s => job'[x] = job[x]
  BY <1>0 DEF qlockQwait, SleepRwait, take, link, fcallReturns, Typed
<1>5. \A m \in Msgs : ExqKept(m)
  <2>1. CASE qlockQwait(s) \/ SleepRwait(s) \/ take(s)
    BY <2>1 DEF qlockQwait, SleepRwait, take, ExqKept
  <2>2. CASE link(s)
    <3>1. PICK m \in Msgs : m = job[s] /\ q[m].export # None
      BY <1>0, <2>2 DEF link, sgoto, InHand, AtJob, Typed, Placed, AtLink, New
    <3>2. q' = [q EXCEPT ![m].slave = s, ![m].busy = TRUE]
      BY <2>2, <3>1 DEF link
    <3>3. \A x \in Msgs : q'[x].shut = q[x].shut /\ q'[x].flush = q[x].flush
                          /\ q'[x].finished = q[x].finished
      BY <1>0, <3>1, <3>2 DEF Exq
    <3> QED
      BY <3>3 DEF ExqKept
  <2>3. CASE \E err \in BOOLEAN : fcallReturns(s, err)
    <3>1. PICK m : m = job[s]
      OBVIOUS
    <3>2. /\ m \in Msgs
          /\ \A x \in Msgs : x # m => q'[x] = q[x]
          /\ \E err \in BOOLEAN : q'[m] = [q[m] EXCEPT !.err = err]
      <4>1. m \in Msgs /\ \A x \in Msgs : x # m => q'[x] = q[x]
        BY <1>0, <2>3, <3>1, FcallEffect
      <4>2. \E err \in BOOLEAN : q'[m] = [q[m] EXCEPT !.err = err]
        BY <1>0, <2>3, <3>1, FcallEffect
      <4> QED
        BY <4>1, <4>2
    <3>3. \A x \in Msgs : q'[x].shut = q[x].shut /\ q'[x].flush = q[x].flush
                          /\ q'[x].finished = q[x].finished
      BY <1>0, <3>2 DEF Exq
    <3> QED
      BY <3>3 DEF ExqKept
  <2> QED
    BY <2>1, <2>2, <2>3
<1>6. ASSUME NEW f \in Msgs, NEW m \in Msgs, NEW n \in Msgs, Waits(f, m), Flushes(f, n),
             NEW e \in Exports, Before(work'[e], n, m)
      PROVE  Before(work[e], n, m)
  <2>1. CASE work' = work
    BY <1>6, <2>1
  <2>2. CASE link(s)
    <3>1. PICK k \in Msgs : k = job[s] /\ q[k].export # None
      BY <1>0, <2>2 DEF link, sgoto, InHand, AtJob, Typed, Placed, AtLink, New
    <3>2. spc[s] = "link" /\ q[k].export \in Exports
          /\ work' = [work EXCEPT ![q[k].export] = <<k>> \o work[q[k].export]]
      BY <1>0, <2>2, <3>1, LinkEffect
    <3>3. n # k
      BY <1>6, <3>1, <3>2, NoneAhead DEF Ahead
    <3>4. work'[e] = work[e] \/ work'[e] = <<k>> \o work[e]
      BY <1>0, <3>2 DEF Typed
    <3>5. work[e] \in Seq(Msgs)
      BY <1>0 DEF Typed
    <3>6. Before(<<k>> \o work[e], n, m) => Before(work[e], n, m)
      BY <3>1, <3>3, <3>5, PushOrder
    <3> QED
      BY <1>6, <3>4, <3>6
  <2> QED
    BY <2>1, <2>2 DEF qlockQwait, SleepRwait, take, fcallReturns, exports
<1>7. Settled
  BY <1>2 DEF Settled
<1> QED
  BY <1>1, <1>2, <1>3, <1>4, <1>5, <1>6, <1>7, SlaveOrdered

\* A slave sends an answer.
LEMMA SendOrdered ==
    ASSUME Inv, Ordered, NEW s \in Slaves, reply(s) \/ freply(s) PROVE Ordered'
<1>0. Base /\ Typed /\ Placed /\ InHand /\ q \in [Msgs -> Exq]
  BY DEF Inv, Base, Typed
<1>1. Same
  BY SlaveSame DEF Slave
<1>2. UNCHANGED <<epc, cur, job, got, work>>
  BY <1>0, SendEffect
<1>3. CASE reply(s)
  <2>1. PICK c \in Msgs : c = job[s]
    BY <1>0, SendEffect
  <2>2. UNCHANGED <<fq, q>> /\ answered' = [answered EXCEPT ![c] = @ + 1] /\ spc[s] = "reply"
    BY <1>3, <2>1 DEF reply, exreply, sgoto
  <2>3. \A x \in Msgs : /\ x # c => answered'[x] = answered[x]
                        /\ answered'[x] = 0 => answered[x] = 0
    BY <1>0, <2>2 DEF Typed
  <2>4. q[c].type = "T"
    BY <1>0, <2>1, <2>2 DEF Placed, AtWork, AfterLink
  <2>5. Settled /\ (\A m \in Msgs : ExqKept(m))
    BY <2>2, <2>3 DEF Settled, ExqKept
  <2>6. \A g \in Msgs : answered'[g] # answered[g] => \A f \in Msgs : ~Earlier(f, g)
    BY <2>3, <2>4 DEF Earlier
  <2> QED
    BY <1>1, <1>2, <2>2, <2>5, <2>6, SlaveOrdered
<1>4. CASE freply(s)
  <2>1. PICK c \in Msgs : c = fq[s] /\ c # None
    BY <1>0, <1>4 DEF freply, sgoto, InHand, Typed
  <2>2. /\ answered' = [answered EXCEPT ![c] = @ + 1]
        /\ fq' = [fq EXCEPT ![s] = None]
        /\ q' = FreeAll({c}, q)
    BY <1>4, <2>1 DEF freply, exreply
  <2>3. /\ answered'[c] # 0
        /\ \A x \in Msgs : /\ x # c => answered'[x] = answered[x]
                           /\ answered'[x] = 0 => answered[x] = 0
    BY <1>0, <2>2 DEF Typed
  <2>4. q[c].flush = << >>
    BY <1>0, <2>1 DEF Placed, AtFlush, FlushOf, New
  <2>5. \A m \in Msgs : ExqKept(m)
    <3>1. \A m \in Msgs : m \in {c} => q[m].flush = << >>
      BY <2>4
    <3> QED
      BY <1>0, <2>2, <3>1, FreeKept
  <2>6. \A x \in Slaves : /\ fq'[x] \in {fq[x], None}
                          /\ fq'[x] = fq[x] \/ fq[x] = c
    BY <1>0, <2>1, <2>2 DEF Typed
  <2>7. ASSUME NEW f \in Msgs, NEW g \in Msgs, answered'[g] # answered[g], Earlier(f, g)
        PROVE  answered[f] # 0
    <3>1. g = c /\ \E x \in Slaves : fq[x] = g
      BY <2>1, <2>3, <2>7
    <3> QED
      BY <2>7, <3>1 DEF Ordered, Ranked
  <2>8. Settled
    BY <2>3 DEF Settled
  <2> QED
    BY <1>1, <1>2, <2>3, <2>5, <2>6, <2>7, <2>8, SlaveOrdered
<1> QED
  BY <1>3, <1>4

\* A slave is done with a request: no flush waits for it, or the export is shut.
LEMMA UnlinkOrdered == ASSUME Inv, Ordered, NEW s \in Slaves, unlink(s) PROVE Ordered'
<1>0. Base /\ Typed /\ Placed /\ InHand /\ q \in [Msgs -> Exq]
  BY DEF Inv, Base, Typed
<1>1. Same
  BY SlaveSame DEF Slave
<1>2. PICK m \in Msgs : /\ m = job[s] /\ q[m].export # None /\ spc[s] = "unlink"
                        /\ q[m].finished
  BY <1>0 DEF unlink, sgoto, InHand, Typed, AtJob, AfterLink, Placed, AtWork
<1>3. /\ q' = FreeAll(Freed(m), q) /\ q[m].export \in Exports
      /\ job' = [job EXCEPT ![s] = None]
      /\ work' = [work EXCEPT ![q[m].export] = Without(work[q[m].export], {m})]
      /\ UNCHANGED <<epc, cur, fq, got, answered>>
  BY <1>0, <1>2, UnlinkEffect
<1>4. \A n \in Msgs : ExqKept(n)
  <2>1. q[m].flush = << >> \/ q[m].shut
    BY <1>2 DEF Ordered, Emptied
  <2>2. ASSUME NEW n \in Msgs, n \in Freed(m) PROVE q[n].flush = << >> \/ q[n].shut
    <3>1. n = m \/ In(n, q[m].flush)
      BY <1>0, <2>2, ExqFields, ToSetIn DEF Freed
    <3>2. In(n, q[m].flush) => q[n].flush = << >>
      BY <1>0 DEF Placed, OnFlush, FlushOf, New
    <3> QED
      BY <2>1, <3>1, <3>2
  <2> QED
    BY <1>0, <1>3, <2>2, FreeKept
<1>5. fq[s] = None /\ \A x \in Slaves : x # s => job'[x] = job[x]
  BY <1>0, <1>2, <1>3 DEF InHand, Typed
<1>6. ASSUME NEW e \in Exports, NEW k \in Msgs, NEW n \in Msgs, Before(work'[e], n, k)
      PROVE  Before(work[e], n, k)
  <2>1. work'[e] = work[e] \/ work'[e] = Without(work[e], {m})
    BY <1>0, <1>3 DEF Typed
  <2> QED
    BY <1>0, <1>6, <2>1, WithoutBefore DEF Typed
<1>7. Settled
  BY <1>3 DEF Settled
<1> QED
  BY <1>1, <1>3, <1>4, <1>5, <1>6, <1>7, SlaveOrdered

\* A slave takes the first of the flushes that wait.
LEMMA TakeFlushOrdered ==
    ASSUME Inv, Ordered, NEW s \in Slaves, complete(s) \/ nextFlush(s),
           NEW m, m = job[s], ToFlush(s, m)
    PROVE  Ordered'
<1>0. Base /\ Typed /\ Placed /\ InHand /\ q \in [Msgs -> Exq]
  BY DEF Inv, Base, Typed
<1>1. Same
  BY SlaveSame DEF Slave
<1>2. /\ m \in Msgs /\ \A x \in Msgs : x # m => q'[x] = q[x]
      /\ UNCHANGED <<epc, cur, job, work, got, answered>>
  BY <1>0, AnswerEffect
<1>3. q[m].flush \in Seq(Msgs) /\ q[m].flush # << >> /\ ~q[m].shut /\ Distinct(q[m].flush)
  BY <1>0, <1>2, ExqFields DEF ToFlush, Placed, OnFlush
<1>4. PICK h \in Msgs : h = Head(q[m].flush)
  BY <1>3, TailFacts
<1>5. /\ q'[m].flush = Tail(q[m].flush)
      /\ \A x \in Msgs : q'[x].shut = q[x].shut /\ q'[x].finished = q[x].finished
  <2>1. /\ q'[m].flush = Tail(q[m].flush)
        /\ q'[m].shut = q[m].shut /\ q'[m].finished = q[m].finished
    BY <1>0, <1>2 DEF ToFlush, Exq
  <2> QED
    BY <1>2, <2>1
<1>6. fq[s] = None /\ fq'[s] = h /\ \A x \in Slaves : x # s => fq'[x] = fq[x]
  BY <1>0, <1>4 DEF ToFlush, InHand, Typed
<1>7. \A x \in Slaves : job[x] = m => x = s
  <2>1. spc[s] \in AtJob
    BY DEF ToFlush, AtJob, AfterLink
  <2>2. \A x \in Slaves : job[x] = m => spc[x] \in AtJob
    BY <1>0, <1>2, ExportfsAssumption DEF InHand
  <2> QED
    BY <2>1, <2>2, Apart
<1>8. /\ In(h, q[m].flush)
      /\ \A f \in Msgs : In(f, q'[m].flush) <=> In(f, q[m].flush) /\ f # h
  BY <1>3, <1>4, <1>5, LeaveQueue
<1>9. ASSUME NEW f \in Msgs, NEW x \in Msgs PROVE Waits(f, x)' <=> Waits(f, x)
  <2>0. In(f, q[x].flush)' <=> In(f, q'[x].flush)
    BY DEF In
  <2>1. CASE x # m
    <3>1. (\E y \in Slaves : fq'[y] = f /\ job'[y] = x) <=> (\E y \in Slaves : fq[y] = f /\ job[y] = x)
      BY <1>2, <1>6, <2>1
    <3> QED
      BY <1>2, <2>0, <2>1, <3>1 DEF Waits
  <2>2. CASE x = m
    <3>1. ~(\E y \in Slaves : fq[y] = f /\ job[y] = m)
      BY <1>6, <1>7, ExportfsAssumption
    <3>2. (\E y \in Slaves : fq'[y] = f /\ job'[y] = m) <=> f = h
      BY <1>2, <1>6, <1>7
    <3> QED
      BY <1>8, <2>0, <2>2, <3>1, <3>2 DEF Waits
  <2> QED
    BY <2>1, <2>2
<1>10. Received'
  BY <1>1, <1>2, ReceivedKept DEF Ordered
<1>11. Heard'
  <2>1. \A f \in Msgs : q'[f].type = q[f].type /\ q'[f].export = q[f].export
    BY <1>1 DEF Same
  <2>2. \A f \in Msgs : (\E x \in Msgs : Waits(f, x)) => \E x \in Msgs : Waits(f, x)'
    BY <1>9
  <2>3. \A x \in Exports : Gone(x)' <=> Gone(x)
    BY <1>2 DEF Gone
  <2> SUFFICES ASSUME NEW f \in Msgs, q'[f].type = "Tflush", answered'[f] = 0
               PROVE  \/ \E x \in Exports : q'[f].export = x /\ (Gone(x)' \/ cur'[x] = f)
                      \/ \E x \in Msgs : Waits(f, x)'
    BY DEF Heard, Waits, Gone, In
  <2> QED
    BY <1>2, <2>1, <2>2, <2>3 DEF Ordered, Heard
<1>12. Foremost'
  <2>1. \A x \in Exports : \A k, n \in Msgs : Before(work[x], k, n)' => Before(work[x], k, n)
    BY <1>2 DEF Before
  <2> QED
    BY <1>1, <1>9, <2>1, ForemostKept DEF Ordered
<1>13. Emptied'
  <2>1. ~q[m].finished
    BY <1>0, <1>2 DEF ToFlush, Placed, AtWork, AfterLink
  <2> QED
    BY <1>2, <1>5, <2>1 DEF Ordered, Emptied
<1>14. Ranked'
  <2>1. \A x, f, g \in Msgs : /\ In(g, q[x].flush)' <=> In(g, q'[x].flush)
                              /\ Before(q[x].flush, f, g)' <=> Before(q'[x].flush, f, g)
    BY DEF In, Before
  <2> SUFFICES ASSUME NEW f \in Msgs, NEW g \in Msgs, Earlier(f, g), answered[f] = 0
               PROVE  /\ answered[g] = 0
                      /\ \A x \in Slaves : fq'[x] # g
                      /\ \A x \in Exports : cur[x] = g => epc[x] # "reply"
                      /\ \A x \in Msgs : In(g, q'[x].flush) =>
                            \/ q'[x].shut \/ Before(q'[x].flush, f, g)
                            \/ \E y \in Slaves : fq'[y] = f /\ job[y] = x
    BY <1>1, <1>2, <2>1, EarlierKept DEF Ranked
  <2>2. /\ answered[g] = 0
        /\ \A x \in Slaves : fq[x] # g
        /\ \A x \in Exports : cur[x] = g => epc[x] # "reply"
        /\ \A x \in Msgs : In(g, q[x].flush) =>
              \/ q[x].shut \/ Before(q[x].flush, f, g)
              \/ \E y \in Slaves : fq[y] = f /\ job[y] = x
    BY DEF Ordered, Ranked
  <2>3. ~(\E y \in Slaves : fq[y] = f /\ job[y] = m)
    BY <1>6, <1>7, ExportfsAssumption
  <2>4. In(g, q[m].flush) => g # h /\ (f = h \/ Before(q'[m].flush, f, g))
    <3>1. Before(q[m].flush, f, g) => g # h /\ (f = h \/ Before(Tail(q[m].flush), f, g))
      BY <1>3, <1>4, LeaveBehind
    <3> QED
      BY <1>2, <1>3, <1>5, <2>2, <2>3, <3>1
  <2>5. \A x \in Slaves : fq'[x] # g
    BY <1>6, <1>8, <2>2, <2>4
  <2>6. ASSUME NEW x \in Msgs, In(g, q'[x].flush)
        PROVE  \/ q'[x].shut \/ Before(q'[x].flush, f, g)
               \/ \E y \in Slaves : fq'[y] = f /\ job[y] = x
    <3>1. CASE x = m
      BY <1>6, <1>8, <2>4, <2>6, <3>1
    <3>2. CASE x # m
      <4>1. CASE \E y \in Slaves : fq[y] = f /\ job[y] = x
        <5>1. PICK y \in Slaves : fq[y] = f /\ job[y] = x
          BY <4>1
        <5>2. fq'[y] = f
          BY <1>6, <3>2, <5>1
        <5> QED
          BY <5>1, <5>2
      <4> QED
        BY <1>2, <2>2, <2>6, <3>2, <4>1
    <3> QED
      BY <3>1, <3>2
  <2> QED
    BY <2>2, <2>5, <2>6
<1> QED
  BY <1>10, <1>11, <1>12, <1>13, <1>14 DEF Ordered

\* A slave goes on to its answer, or takes the next flush, or promises to send
\* no more.
LEMMA AnswerOrdered ==
    ASSUME Inv, Ordered, NEW s \in Slaves, complete(s) \/ nextFlush(s) PROVE Ordered'
<1>0. Base /\ Typed /\ Placed /\ InHand /\ q \in [Msgs -> Exq]
  BY DEF Inv, Base, Typed
<1>1. Same
  BY SlaveSame DEF Slave
<1>2. PICK m : m = job[s]
  OBVIOUS
<1>3. /\ m \in Msgs /\ \A x \in Msgs : x # m => q'[x] = q[x]
      /\ UNCHANGED <<epc, cur, job, work, got, answered>>
      /\ ToReply(s, m) \/ ToFlush(s, m) \/ ToUnlink(s, m)
  BY <1>0, <1>2, AnswerEffect
<1>4. CASE ToReply(s, m) \/ ToUnlink(s, m)
  <2>1. /\ fq' = fq
        /\ q'[m].shut = q[m].shut /\ q'[m].flush = q[m].flush
        /\ q'[m].finished => q[m].finished \/ q[m].flush = << >> \/ q[m].shut
    BY <1>0, <1>3, <1>4 DEF ToReply, ToUnlink, Exq
  <2>2. \A x \in Msgs : ExqKept(x)
    BY <1>3, <2>1 DEF ExqKept
  <2>3. Settled
    BY <1>3 DEF Settled
  <2> QED
    BY <1>1, <1>3, <2>1, <2>2, <2>3, SlaveOrdered
<1> QED
  BY <1>2, <1>3, <1>4, TakeFlushOrdered

\* A message is read: it is the last, and no flush that waits flushes it.
LEMMA ReadOrdered ==
    ASSUME Inv, Ordered, NEW e \in Exports, NEW m \in Msgs, NEW next, NEW type,
           NEW tag \in Tags, NEW oldtag, read(e, m, next, type, tag, oldtag),
           type = "T" \/ (type = "Tflush" /\ next = "flushq")
    PROVE  Ordered'
<1>0. Base /\ Typed /\ Placed /\ InHand
  BY DEF Inv, Base
<1>1. /\ q[m].st = "unread" /\ epc[e] = "read" /\ got' = Append(got, m)
      /\ UNCHANGED <<job, fq, work, answered>>
  BY DEF read, egoto
<1>2. q \in [Msgs -> Exq] /\ q[m] \in Exq
  BY <1>0 DEF Typed
<1>3. /\ q'[m].st = "live" /\ q'[m].export = e /\ q'[m].type = type
      /\ q'[m].oldtag = oldtag /\ q'[m].flush = q[m].flush
      /\ q'[m].shut = q[m].shut /\ q'[m].finished = q[m].finished
      /\ \A x \in Msgs : x # m => q'[x] = q[x]
  <2>1. q' = [q EXCEPT ![m].st = "live", ![m].export = e, ![m].type = type,
                       ![m].tag = tag, ![m].oldtag = oldtag]
    BY DEF read
  <2> QED
    BY <1>2, <2>1 DEF Exq
<1>4. /\ \A s \in Slaves : job[s] # m /\ fq[s] # m
      /\ \A x \in Exports : cur[x] # m /\ ~In(m, work[x])
      /\ \A x \in Msgs : ~In(m, q[x].flush)
  BY <1>1, UnreadApart
<1>5. /\ cur'[e] = m /\ \A x \in Exports : x # e => cur'[x] = cur[x]
      /\ epc'[e] = next /\ \A x \in Exports : x # e => epc'[x] = epc[x]
  <2>1. epc' = [epc EXCEPT ![e] = next] /\ cur' = [cur EXCEPT ![e] = m]
    BY DEF read, egoto
  <2> QED
    BY <1>0, <2>1 DEF Typed
<1>6. \A x \in Msgs : q'[x].flush = q[x].flush /\ q'[x].shut = q[x].shut
                        /\ q'[x].finished = q[x].finished
  BY <1>3
<1>7. \A f, x \in Msgs : Waits(f, x)' <=> Waits(f, x)
  <2>1. \A f, x \in Msgs : In(f, q[x].flush)' <=> In(f, q'[x].flush)
    BY DEF In
  <2> QED
    BY <1>1, <1>6, <2>1 DEF Waits
<1>8. Distinct(got) /\ ~In(m, got)
  BY <1>1 DEF Ordered, Received
<1>9. /\ Distinct(got') /\ \A x \in Msgs : In(x, got') <=> In(x, got) \/ x = m
  BY <1>0, <1>1, <1>8, JoinQueue DEF Typed
<1>10. Received'
  <2>1. \A x \in Msgs : In(x, got') => q'[x].st # "unread"
    BY <1>3, <1>9 DEF Ordered, Received
  <2> QED
    BY <1>9, <2>1 DEF Received, In, Distinct
<1>11. Heard'
  <2> SUFFICES ASSUME NEW f \in Msgs, q'[f].type = "Tflush", answered'[f] = 0
               PROVE  \/ \E x \in Exports : q'[f].export = x /\ (Gone(x)' \/ cur'[x] = f)
                      \/ \E x \in Msgs : Waits(f, x)'
    BY DEF Heard, Waits, Gone, In
  <2>1. CASE f = m
    BY <1>3, <1>5, <2>1
  <2>2. CASE f # m
    <3>1. q'[f] = q[f] /\ answered[f] = 0 /\ f # None
      BY <1>1, <1>3, <2>2, ExportfsAssumption
    <3>2. CASE \E x \in Exports : q[f].export = x /\ (Gone(x) \/ cur[x] = f)
      <4>1. PICK x \in Exports : q[f].export = x /\ (Gone(x) \/ cur[x] = f)
        BY <3>2
      <4>2. ~Gone(e) /\ cur[e] = None
        BY <1>0, <1>1 DEF Gone, InHand, AtMsg
      <4>3. x # e
        BY <3>1, <4>1, <4>2
      <4> QED
        BY <1>5, <3>1, <4>1, <4>3 DEF Gone
    <3>3. CASE \E x \in Msgs : Waits(f, x)
      BY <1>7, <3>3
    <3> QED
      BY <3>1, <3>2, <3>3 DEF Ordered, Heard
  <2> QED
    BY <2>1, <2>2
<1>12. Foremost'
  <2>1. \A x \in Exports, n, k \in Msgs : Before(work[x], n, k)' <=> Before(work[x], n, k)
    BY <1>1 DEF Before
  <2> SUFFICES ASSUME NEW f \in Msgs, NEW k \in Msgs, NEW n \in Msgs, Waits(f, k), Flushes(f, n)',
                      NEW x \in Exports, Before(work[x], n, k)
               PROVE  FALSE
    BY <1>7, <2>1 DEF Foremost
  <2>2. f # m
    BY <1>4 DEF Waits
  <2>3. n # m
    BY <1>4 DEF Before, In
  <2>4. Flushes(f, n)
    BY <1>3, <2>2, <2>3 DEF Flushes
  <2> QED
    BY <2>4 DEF Ordered, Foremost
<1>13. Emptied'
  BY <1>6 DEF Ordered, Emptied
<1>14. Ranked'
  <2>1. \A x, f, g \in Msgs : /\ In(g, q[x].flush)' <=> In(g, q'[x].flush)
                              /\ Before(q[x].flush, f, g)' <=> Before(q'[x].flush, f, g)
    BY DEF In, Before
  <2>2. \A f, g \in Msgs : Before(got', f, g) => Before(got, f, g) \/ (In(f, got) /\ g = m)
    BY <1>0, <1>1, JoinOrder DEF Typed
  <2>3. \A f, g \in Msgs : /\ Before(got, f, g)' <=> Before(got', f, g)
                           /\ Before(got, f, g) => In(f, got) /\ In(g, got)
    BY DEF Before, In
  <2> SUFFICES ASSUME NEW f \in Msgs, NEW g \in Msgs, Earlier(f, g)', answered[f] = 0
               PROVE  /\ answered[g] = 0
                      /\ \A s \in Slaves : fq[s] # g
                      /\ \A x \in Exports : cur'[x] = g => epc'[x] # "reply"
                      /\ \A x \in Msgs : In(g, q'[x].flush) =>
                            \/ q'[x].shut \/ Before(q'[x].flush, f, g)
                            \/ \E s \in Slaves : fq[s] = f /\ job[s] = x
    BY <1>1, <2>1 DEF Ranked
  <2>4. CASE g = m
    <3>1. type = "Tflush"
      BY <1>3, <2>4 DEF Earlier
    <3>2. answered[m] = 0
      BY <1>0, <1>1 DEF Placed, Unread
    <3> QED
      BY <1>4, <1>5, <1>6, <2>4, <3>1, <3>2
  <2>5. CASE g # m
    <3>1. Before(got, f, g) /\ f # m
      BY <1>8, <2>2, <2>3, <2>5 DEF Earlier
    <3>2. Earlier(f, g)
      BY <1>3, <2>5, <3>1 DEF Earlier
    <3>3. /\ answered[g] = 0
          /\ \A s \in Slaves : fq[s] # g
          /\ \A x \in Exports : cur[x] = g => epc[x] # "reply"
          /\ \A x \in Msgs : In(g, q[x].flush) =>
                \/ q[x].shut \/ Before(q[x].flush, f, g)
                \/ \E s \in Slaves : fq[s] = f /\ job[s] = x
      BY <3>2 DEF Ordered, Ranked
    <3> QED
      BY <1>5, <1>6, <2>5, <3>3
  <2> QED
    BY <2>4, <2>5
<1> QED
  BY <1>10, <1>11, <1>12, <1>13, <1>14 DEF Ordered

LEMMA OrderedInit == Init => Ordered
<1> SUFFICES ASSUME Init PROVE Ordered
  OBVIOUS
<1>1. /\ \A m \in Msgs : q[m].type = "T" /\ ~q[m].finished /\ q[m].flush = << >>
      /\ \A e \in Exports : work[e] = << >>
      /\ got = << >>
  BY DEF Init
<1>2. \A x, y : ~In(x, << >>) /\ ~Before(<< >>, x, y)
  BY DEF In, Before
<1>3. Received
  BY <1>1, <1>2 DEF Received, Distinct
<1>4. Heard /\ Foremost /\ Emptied /\ Ranked
  BY <1>1, <1>2 DEF Heard, Foremost, Emptied, Ranked, Earlier
<1> QED
  BY <1>3, <1>4 DEF Ordered

LEMMA OrderedNext == Inv /\ Once /\ Ordered /\ [Next]_vars => Ordered'
<1> SUFFICES ASSUME Inv, Once, Ordered, [Next]_vars PROVE Ordered'
  OBVIOUS
<1>1. CASE UNCHANGED vars
  <2>1. UNCHANGED <<epc, cur, job, fq, q, work, got, answered>>
    BY <1>1 DEF vars, procs, exports, history
  <2>2. Same /\ Settled /\ \A m \in Msgs : ExqKept(m)
    BY <2>1 DEF Same, Settled, ExqKept
  <2> QED
    BY <2>1, <2>2, SlaveOrdered
<1>2. ASSUME NEW e \in Exports, NEW m \in Msgs, NEW tag \in Tags,
             readT(e, m, tag) \/ (\E oldtag \in Tags : readTflush(e, m, tag, oldtag))
      PROVE  Ordered'
  BY <1>2, ReadOrdered DEF readT, readTflush
<1>3. ASSUME NEW e \in Exports, Serve(e) \/ hangup(e) PROVE Ordered'
  BY <1>3, QuietOrdered, FoundOrdered, JoinOrdered, EreplyOrdered DEF Serve
<1>4. ASSUME NEW s \in Slaves, Slave(s) \/ (\E err \in BOOLEAN : fcallReturns(s, err))
      PROVE  Ordered'
  BY <1>4, StepOrdered, AnswerOrdered, SendOrdered, UnlinkOrdered DEF Slave
<1> QED
  BY <1>1, <1>2, <1>3, <1>4 DEF Next

\* Several flushes of a request are answered in the order they came, whichever
\* of exportproc and the slaves answers each: exreply sends a flush's answer
\* only when no earlier flush of the same tag is still to be answered.
THEOREM ExFlushesInOrder == Spec => []FlushesInOrder
<1>1. Inv /\ Once /\ Ordered /\ [Next]_vars => Ordered'
  BY OrderedNext
<1>2. Inv /\ Ordered => FlushesInOrder
  <2> SUFFICES ASSUME Inv, Ordered, NEW j \in 1 .. Len(got), NEW i \in 1 .. j - 1,
                      q[got[i]].type = "Tflush", q[got[j]].type = "Tflush",
                      q[got[i]].export = q[got[j]].export,
                      q[got[i]].oldtag = q[got[j]].oldtag,
                      answered[got[j]] > 0
               PROVE  answered[got[i]] > 0
    BY DEF FlushesInOrder
  <2>1. Typed /\ got \in Seq(Msgs)
    BY DEF Inv, Base, Typed
  <2>2. i \in 1 .. Len(got) /\ i < j
    BY <2>1
  <2>3. got[i] \in Msgs /\ got[j] \in Msgs
    BY <2>1, <2>2
  <2>4. Earlier(got[i], got[j])
    BY <2>2 DEF Earlier, Before
  <2>5. answered[got[i]] # 0
    BY <2>3, <2>4 DEF Ordered, Ranked
  <2> QED
    BY <2>1, <2>3, <2>5 DEF Typed
<1> QED
  BY <1>1, <1>2, OrderedInit, InvHolds, OnceHolds, PTL DEF Spec
=============================================================================
