------------------------------ MODULE Exportfs ------------------------------
(***************************************************************************)
(* The 9P server of emu/port/exportfs.c.  The exportproc of a connection   *)
(* reads T-messages into Exqs, answers some flushes at once and queues the *)
(* requests on exq.head; kprocs running exslave take requests off it, put  *)
(* them on the work list of their Export, do them, and answer them and the *)
(* flushes that arrived meanwhile.                                         *)
(*                                                                         *)
(* An Exq is identified with the message in it and is not used again, so   *)
(* that memory that has been freed stays recognisable.  What is done under *)
(* a spin lock is one action, but where one lock is waited for with        *)
(* another held: exslave takes fs->l holding exq.l.  The QLock qwait and   *)
(* Sleep, Wakeup and swiproc behave as KProc establishes.  A write on the  *)
(* connection succeeds, or fails without notice: exreply ignores it.       *)
(***************************************************************************)
EXTENDS Naturals, FiniteSets, SequencesExt, Queues

CONSTANTS Exports,     \* the connections served
          Slaves,      \* the kprocs that run, or may come to run, exslave
          Msgs,        \* the T-messages
          Tags,
          None

ASSUME ExportfsAssumption == None \notin Exports \cup Slaves \cup Msgs \cup Tags

VARIABLES spc,      \* spc[s]: what the slave s is doing
          epc,      \* epc[e]: what e's exportproc is doing
          cur,      \* cur[e]: the message it is at; None between messages
          job,      \* job[s]: the slave's q
          fq,       \* fq[s]: the flush the slave is answering
          killed,   \* the slaves with up->killed set
          swipend,  \* the slaves with up->swipend set
          q,        \* q[m]: the Exq of m
          head,     \* the Exqs on the list from exq.head
          tail,     \* exq.tail: the last Exq queued, perhaps freed since
          exql,     \* the slave that has exq.l from one action to the next
          qwait,    \* the slave that has the QLock exq.qwait
          qwaitq,   \* the slaves queued for it
          rwait,    \* exq.rwait.p
          work,     \* work[e]: fs->work
          fsl,      \* fsl[e]: fs->l has been left locked
          ref,      \* ref[e]: fs->r.ref
          got,      \* the messages in the order they were read
          answered, \* answered[m]: how often m was answered
          cancelled \* the requests flushed before they were answered

procs == <<spc, epc, cur, job, fq, killed, swipend>>
queue == <<head, tail, exql>>
idlers == <<qwait, qwaitq, rwait>>
exports == <<work, fsl, ref>>
history == <<got, answered, cancelled>>
vars == <<procs, q, queue, idlers, exports, history>>

Exq == [st: {"unread", "live", "freed"}, export: Exports \cup {None},
        type: {"T", "Tflush"}, tag: Tags \cup {None}, oldtag: Tags \cup {None},
        busy: BOOLEAN, finished: BOOLEAN, shut: BOOLEAN, err: BOOLEAN,
        flush: Seq(Msgs), slave: Slaves \cup {None}]

Init == /\ spc = [s \in Slaves |-> "none"]
        /\ epc = [e \in Exports |-> "read"]
        /\ cur = [e \in Exports |-> None]
        /\ job = [s \in Slaves |-> None] /\ fq = job
        /\ killed = {} /\ swipend = {}
        /\ q = [m \in Msgs |-> [st |-> "unread", export |-> None, type |-> "T",
                                tag |-> None, oldtag |-> None,
                                busy |-> FALSE, finished |-> FALSE, shut |-> FALSE,
                                err |-> FALSE, flush |-> << >>, slave |-> None]]
        /\ head = << >> /\ tail = None /\ exql = None
        /\ qwait = None /\ qwaitq = << >> /\ rwait = None
        /\ work = [e \in Exports |-> << >>]
        /\ fsl = [e \in Exports |-> FALSE]
        /\ ref = [e \in Exports |-> 1]
        /\ got = << >>
        /\ answered = [m \in Msgs |-> 0]
        /\ cancelled = {}

egoto(e, from, to) == epc[e] = from /\ epc' = [epc EXCEPT ![e] = to]
sgoto(s, from, to) == spc[s] = from /\ spc' = [spc EXCEPT ![s] = to]

\* The messages of e with the tag t that want an answer.
Pending(e, t) == {m \in Msgs : /\ q[m].st # "unread" /\ q[m].export = e /\ q[m].tag = t
                               /\ answered[m] = 0 /\ m \notin cancelled}

\* exreply: the Rflush of a flush cancels what it flushed.
exreply(m) ==
    /\ answered' = [answered EXCEPT ![m] = @ + 1]
    /\ cancelled' = IF q[m].type = "Tflush"
                    THEN cancelled \cup Pending(q[m].export, q[m].oldtag) ELSE cancelled
    /\ UNCHANGED got

\* Mutant of Freed: exfreeq forgets the flushes queued on m.
FreedAlone(m) == {m}

\* exfreeq of m, with the flushes queued on it.
Freed(m) == {m} \cup ToSet(q[m].flush)
FreeAll(F, x) == [m \in Msgs |-> IF m \in F THEN [x[m] EXCEPT !.st = "freed", !.flush = << >>]
                                            ELSE x[m]]
exfree(e, n) == ref' = [ref EXCEPT ![e] = @ - n]

-----------------------------------------------------------------------------
(* exportproc.                                                             *)

\* A client uses a tag again when the message that had it has been answered or
\* cancelled, and no flush of it is outstanding.  It does not flush a flush.
TagFree(e, t) ==
    /\ Pending(e, t) = {}
    /\ \A m \in Msgs : q[m].export = e /\ q[m].oldtag = t => answered[m] > 0

read(e, m, next, type, tag, oldtag) ==
    /\ egoto(e, "read", next)
    /\ q[m].st = "unread"
    /\ TagFree(e, tag)
    /\ cur' = [cur EXCEPT ![e] = m]
    /\ q' = [q EXCEPT ![m].st = "live", ![m].export = e, ![m].type = type,
                      ![m].tag = tag, ![m].oldtag = oldtag]
    /\ ref' = [ref EXCEPT ![e] = @ + 1]
    /\ got' = Append(got, m)
    /\ UNCHANGED <<spc, job, fq, killed, swipend, queue, idlers, work, fsl, answered, cancelled>>

\* A request that would write to a readonly export is refused at once.
readT(e, m, tag) == \E next \in {"queue", "reply"} : read(e, m, next, "T", tag, None)

readTflush(e, m, tag, oldtag) ==
    /\ read(e, m, "flushq", "Tflush", tag, oldtag)
    /\ oldtag # tag
    /\ \A x \in Pending(e, oldtag) : q[x].type = "T"

\* If the list is not empty the request is linked to exq.tail; when that is an
\* Exq that is no longer on the list, so is the request.
enqueue(e) == /\ egoto(e, "queue", "spawn")
              /\ exql = None
              /\ head' = IF head = << >> THEN <<cur[e]>>
                         ELSE IF tail = Last(head) THEN Append(head, cur[e]) ELSE head
              /\ tail' = cur[e]
              /\ cur' = [cur EXCEPT ![e] = None]
              /\ UNCHANGED <<spc, job, fq, killed, swipend, q, exql, idlers, exports, history>>

\* Another slave, unless one is queued behind the one that waits for work.
spawn(e) == /\ egoto(e, "spawn", "wakeup")
            /\ IF qwaitq = << >>
               THEN \E s \in Slaves : sgoto(s, "none", "idle")
               ELSE UNCHANGED spc
            /\ UNCHANGED <<cur, job, fq, killed, swipend, q, queue, idlers, exports, history>>

\* Mutant of wakeup: it is left out.
wakeupNone(e) == /\ egoto(e, "wakeup", "read")
                 /\ UNCHANGED <<spc, cur, job, fq, killed, swipend, q, queue, idlers, exports, history>>

wakeup(e) == /\ egoto(e, "wakeup", "read")
             /\ rwait' = None
             /\ spc' = [s \in Slaves |-> IF s = rwait THEN "take" ELSE spc[s]]
             /\ UNCHANGED <<cur, job, fq, killed, swipend, q, queue, qwait, qwaitq, exports, history>>

\* Mutant of exflushedQueue: the flush is answered and the request left alone.
exflushedNever(e) ==
    /\ egoto(e, "flushq", "reply")
    /\ UNCHANGED <<spc, cur, job, fq, killed, swipend, q, queue, idlers, exports, history>>

\* exflushed: first look for the request on the list of exq.
exflushedQueue(e) ==
    LET f == cur[e]
        found == {n \in 1 .. Len(head) : q[head[n]].export = e /\ q[head[n]].tag = q[f].oldtag}
        n == CHOOSE n \in found : \A k \in found : n <= k
    IN /\ epc[e] = "flushq"
       /\ exql = None
       /\ IF found # {}
          THEN /\ head' = RemoveAt(head, n)
               /\ q' = FreeAll(Freed(head[n]), q)
               /\ exfree(e, Cardinality(Freed(head[n])))
               /\ epc' = [epc EXCEPT ![e] = "reply"]
          ELSE /\ epc' = [epc EXCEPT ![e] = "flushw"]
               /\ UNCHANGED <<head, q, ref>>
       /\ UNCHANGED <<spc, cur, job, fq, killed, swipend, tail, exql, idlers, work, fsl, history>>

\* swiproc(p, 0) of each p in S: it pulls one out of the Sleep or the host call
\* that an fcall, or exreply's write, is in; not one that is yet to get there,
\* or that waits for a lock.
swiproc(S) == /\ killed' = killed \cup S
              /\ \E X \in SUBSET {s \in Slaves : s \in S /\ spc[s] \in {"call", "reply", "freply"}} :
                    swipend' = swipend \cup X

\* Then on the work list.  A request that is finished is found with fs->l held,
\* and exflushed returns.
exflushedWork(e) ==
    LET f == cur[e]
        found == {n \in 1 .. Len(work[e]) : q[work[e][n]].tag = q[f].oldtag}
        m == work[e][CHOOSE n \in found : \A k \in found : n <= k]
    IN /\ epc[e] = "flushw"
       /\ ~fsl[e]
       /\ \/ /\ found = {}
             /\ epc' = [epc EXCEPT ![e] = "reply"]
             /\ UNCHANGED <<cur, killed, swipend, q, fsl>>
          \/ /\ found # {} /\ q[m].finished
             /\ fsl' = [fsl EXCEPT ![e] = TRUE]
             /\ epc' = [epc EXCEPT ![e] = "reply"]
             /\ UNCHANGED <<cur, killed, swipend, q>>
          \/ /\ found # {} /\ ~q[m].finished
             /\ q' = [q EXCEPT ![m].flush = Append(@, f)]
             /\ IF q[m].busy THEN swiproc({q[m].slave}) ELSE UNCHANGED <<killed, swipend>>
             /\ epc' = [epc EXCEPT ![e] = "read"]
             /\ cur' = [cur EXCEPT ![e] = None]
             /\ UNCHANGED fsl
       /\ UNCHANGED <<spc, job, fq, queue, idlers, work, ref, history>>

\* exportproc's own exreply, and exfreeq.
ereply(e) == /\ egoto(e, "reply", "read")
             /\ exreply(cur[e])
             /\ q' = FreeAll(Freed(cur[e]), q)
             /\ exfree(e, 1)
             /\ cur' = [cur EXCEPT ![e] = None]
             /\ UNCHANGED <<spc, job, fq, killed, swipend, queue, idlers, work, fsl>>

hangup(e) == /\ egoto(e, "read", "shutq")
             /\ UNCHANGED <<spc, cur, job, fq, killed, swipend, q, queue, idlers, exports, history>>

\* exshutdown: free the work not started, and give up the work in progress.
exshutdownQueue(e) ==
    LET mine == {m \in ToSet(head) : q[m].export = e}
    IN /\ egoto(e, "shutq", "shutw")
       /\ exql = None
       /\ head' = Without(head, mine)
       /\ q' = FreeAll(mine, q)
       /\ exfree(e, Cardinality(mine))
       /\ UNCHANGED <<spc, cur, job, fq, killed, swipend, tail, exql, idlers, work, fsl, history>>

\* Mutant of exshutdownWork: q->shut is not set.
exshutdownMild(e) == /\ egoto(e, "shutw", "exfree")
                     /\ ~fsl[e]
                     /\ work' = [work EXCEPT ![e] = << >>]
                     /\ swiproc({q[m].slave : m \in ToSet(work[e])})
                     /\ UNCHANGED <<spc, cur, job, fq, q, queue, idlers, fsl, ref, history>>

exshutdownWork(e) ==
    LET mine == ToSet(work[e])
    IN /\ egoto(e, "shutw", "exfree")
       /\ ~fsl[e]
       /\ work' = [work EXCEPT ![e] = << >>]
       /\ q' = [m \in Msgs |-> IF m \in mine THEN [q[m] EXCEPT !.shut = TRUE] ELSE q[m]]
       /\ swiproc({q[m].slave : m \in mine})
       /\ UNCHANGED <<spc, cur, job, fq, queue, idlers, fsl, ref, history>>

\* Mutant of exportExfree: one exfree too many.
exportExfreeTwice(e) ==
    /\ egoto(e, "exfree", "done")
    /\ exfree(e, 2)
    /\ UNCHANGED <<spc, cur, job, fq, killed, swipend, q, queue, idlers, work, fsl, history>>

exportExfree(e) == /\ egoto(e, "exfree", "done")
                   /\ exfree(e, 1)
                   /\ UNCHANGED <<spc, cur, job, fq, killed, swipend, q, queue, idlers, work, fsl, history>>

-----------------------------------------------------------------------------
(* exslave.                                                                *)

qlockQwait(s) == /\ \/ /\ qwait = None
                       /\ qwait' = s
                       /\ sgoto(s, "idle", "sleep")
                       /\ UNCHANGED qwaitq
                    \/ /\ qwait # None
                       /\ qwaitq' = Append(qwaitq, s)
                       /\ sgoto(s, "idle", "queued")
                       /\ UNCHANGED qwait
                 /\ UNCHANGED <<epc, cur, job, fq, killed, swipend, q, queue, rwait, exports, history>>

\* qunlock(&exq.qwait) by s, which goes on to next.
qunlockQwait(s, next) ==
    IF qwaitq # << >>
    THEN /\ qwait' = Head(qwaitq) /\ qwaitq' = Tail(qwaitq)
         /\ spc' = [spc EXCEPT ![s] = next, ![Head(qwaitq)] = "sleep"]
    ELSE /\ qwait' = None /\ UNCHANGED qwaitq
         /\ spc' = [spc EXCEPT ![s] = next]

\* Sleep on exq.rwait until there is work.  Having slept or not it raises Eintr
\* for a kill that was left over; it clears swipend before it sleeps.
SleepRwait(s) == /\ spc[s] = "sleep"
                 /\ \/ /\ s \in killed \/ (head # << >> /\ s \in swipend)
                       /\ qunlockQwait(s, "idle")
                       /\ UNCHANGED rwait
                    \/ /\ s \notin killed /\ (head # << >> => s \notin swipend)
                       /\ spc' = [spc EXCEPT ![s] = IF head # << >> THEN "take" ELSE "asleep"]
                       /\ rwait' = IF head # << >> THEN rwait ELSE s
                       /\ UNCHANGED <<qwait, qwaitq>>
                 /\ killed' = killed \ {s} /\ swipend' = swipend \ {s}
                 /\ UNCHANGED <<epc, cur, job, fq, q, queue, exports, history>>

\* Take the first request, keeping exq.l, if it has not been flushed meanwhile.
take(s) == /\ spc[s] = "take"
           /\ exql = None
           /\ IF head = << >>
              THEN /\ qunlockQwait(s, "idle")
                   /\ UNCHANGED <<head, exql, job>>
              ELSE /\ qunlockQwait(s, "link")
                   /\ head' = Tail(head)
                   /\ exql' = s
                   /\ job' = [job EXCEPT ![s] = Head(head)]
           /\ UNCHANGED <<epc, cur, fq, killed, swipend, q, tail, rwait, exports, history>>

\* notkilled; put it on the work list; let exq.l go.
link(s) == LET m == job[s]
               e == q[m].export
           IN /\ sgoto(s, "link", "call")
              /\ ~fsl[e]
              /\ killed' = killed \ {s}
              /\ q' = [q EXCEPT ![m].slave = s, ![m].busy = TRUE]
              /\ work' = [work EXCEPT ![e] = <<m>> \o @]
              /\ exql' = None
              /\ UNCHANGED <<epc, cur, job, fq, swipend, head, tail, idlers, fsl, ref, history>>

\* A Sleep or a host call of s may take what swiproc left for it: the one takes
\* both marks, the other up->swipend alone.
Interrupted(s) == /\ swipend' \in {swipend, swipend \ {s}}
                  /\ killed' \in {killed, killed \ {s}}

\* The fcall returns, with an error perhaps: Eintr, for one.
fcallReturns(s, err) ==
    /\ sgoto(s, "call", "called")
    /\ Interrupted(s)
    /\ q' = [q EXCEPT ![job[s]].err = err]
    /\ UNCHANGED <<epc, cur, job, fq, queue, idlers, exports, history>>

\* Mutants of NextFlush: the last flush first; no flush at all.
NextFlushLast(s, x) ==
    LET m == job[s]
    IN IF x[m].flush # << >> /\ ~x[m].shut
       THEN /\ fq' = [fq EXCEPT ![s] = Last(x[m].flush)]
            /\ q' = [x EXCEPT ![m].flush = Front(@)]
            /\ spc' = [spc EXCEPT ![s] = "freply"]
       ELSE /\ q' = [x EXCEPT ![m].finished = TRUE]
            /\ spc' = [spc EXCEPT ![s] = "unlink"]
            /\ UNCHANGED fq

NextFlushNone(s, x) == /\ q' = [x EXCEPT ![job[s]].finished = TRUE]
                       /\ spc' = [spc EXCEPT ![s] = "unlink"]
                       /\ UNCHANGED fq

\* Under q->l: take the next flush to answer, or promise not to send any more.
NextFlush(s, x) ==
    LET m == job[s]
    IN IF x[m].flush # << >> /\ ~x[m].shut
       THEN /\ fq' = [fq EXCEPT ![s] = Head(x[m].flush)]
            /\ q' = [x EXCEPT ![m].flush = Tail(@)]
            /\ spc' = [spc EXCEPT ![s] = "freply"]
       ELSE /\ q' = [x EXCEPT ![m].finished = TRUE]
            /\ spc' = [spc EXCEPT ![s] = "unlink"]
            /\ UNCHANGED fq

\* Mutants of complete: a flush that is pending silences any fcall; a kill that
\* came in time for the fcall is not taken back.
completeSilent(s) == LET m == job[s]
                         x == [q EXCEPT ![m].busy = FALSE]
                     IN /\ spc[s] = "called"
                        /\ killed' = killed \ {s}
                        /\ IF ~q[m].shut /\ q[m].flush = << >>
                           THEN /\ q' = x
                                /\ spc' = [spc EXCEPT ![s] = "reply"]
                                /\ UNCHANGED fq
                           ELSE NextFlush(s, x)
                        /\ UNCHANGED <<epc, cur, job, swipend, queue, idlers, exports, history>>

completeKilled(s) == LET m == job[s]
                         x == [q EXCEPT ![m].busy = FALSE]
                     IN /\ spc[s] = "called"
                        /\ IF ~q[m].shut /\ (q[m].flush = << >> \/ ~q[m].err)
                           THEN /\ q' = x
                                /\ spc' = [spc EXCEPT ![s] = "reply"]
                                /\ UNCHANGED fq
                           ELSE NextFlush(s, x)
                        /\ UNCHANGED <<epc, cur, job, killed, swipend, queue, idlers, exports, history>>

\* An fcall that completed without error must be answered even if a flush is
\* pending.
complete(s) == LET m == job[s]
                   x == [q EXCEPT ![m].busy = FALSE]
               IN /\ spc[s] = "called"
                  /\ killed' = killed \ {s}
                  /\ IF ~q[m].shut /\ (q[m].flush = << >> \/ ~q[m].err)
                     THEN /\ q' = x
                          /\ spc' = [spc EXCEPT ![s] = "reply"]
                          /\ UNCHANGED fq
                     ELSE NextFlush(s, x)
                  /\ UNCHANGED <<epc, cur, job, swipend, queue, idlers, exports, history>>

reply(s) == /\ sgoto(s, "reply", "replied")
            /\ exreply(job[s])
            /\ Interrupted(s)
            /\ UNCHANGED <<epc, cur, job, fq, q, queue, idlers, exports>>

nextFlush(s) == /\ spc[s] = "replied"
                /\ NextFlush(s, q)
                /\ UNCHANGED <<epc, cur, job, killed, swipend, queue, idlers, exports, history>>

freply(s) == /\ sgoto(s, "freply", "replied")
             /\ exreply(fq[s])
             /\ Interrupted(s)
             /\ q' = FreeAll({fq[s]}, q)
             /\ exfree(q[fq[s]].export, 1)
             /\ fq' = [fq EXCEPT ![s] = None]
             /\ UNCHANGED <<epc, cur, job, queue, idlers, work, fsl>>

\* Mutant of unlink: q stays on the work list.
unlinkNot(s) == LET m == job[s]
                    e == q[m].export
                IN /\ sgoto(s, "unlink", "idle")
                   /\ ~fsl[e]
                   /\ killed' = killed \ {s}
                   /\ q' = FreeAll(Freed(m), q)
                   /\ exfree(e, Cardinality(Freed(m)))
                   /\ job' = [job EXCEPT ![s] = None]
                   /\ UNCHANGED <<epc, cur, fq, swipend, queue, idlers, work, fsl, history>>

\* Take q off the work list, if exshutdown has not; notkilled; exfreeq.
unlink(s) == LET m == job[s]
                 e == q[m].export
             IN /\ sgoto(s, "unlink", "idle")
                /\ ~fsl[e]
                /\ work' = [work EXCEPT ![e] = Without(@, {m})]
                /\ killed' = killed \ {s}
                /\ q' = FreeAll(Freed(m), q)
                /\ exfree(e, Cardinality(Freed(m)))
                /\ job' = [job EXCEPT ![s] = None]
                /\ UNCHANGED <<epc, cur, fq, swipend, queue, idlers, fsl, history>>

-----------------------------------------------------------------------------
\* What exportproc does without being asked.
Serve(e) == \/ enqueue(e) \/ spawn(e) \/ wakeup(e)
            \/ exflushedQueue(e) \/ exflushedWork(e) \/ ereply(e)
            \/ exshutdownQueue(e) \/ exshutdownWork(e) \/ exportExfree(e)

Slave(s) == \/ qlockQwait(s) \/ SleepRwait(s) \/ take(s) \/ link(s)
            \/ complete(s) \/ reply(s) \/ nextFlush(s) \/ freply(s) \/ unlink(s)

Next == \/ \E e \in Exports :
             \/ Serve(e) \/ hangup(e)
             \/ \E m \in Msgs, tag \in Tags :
                   readT(e, m, tag) \/ \E oldtag \in Tags : readTflush(e, m, tag, oldtag)
        \/ \E s \in Slaves : Slave(s) \/ \E err \in BOOLEAN : fcallReturns(s, err)

Spec == Init /\ [][Next]_vars

\* Host threads keep running.  An fcall may never return, killed or not: a kill
\* that comes before it is in a Sleep or a host call does not interrupt that,
\* nor does one while it waits for a QLock.
Fairness == /\ \A e \in Exports : WF_vars(Serve(e))
            /\ \A s \in Slaves : WF_vars(Slave(s))

FairSpec == Spec /\ Fairness

-----------------------------------------------------------------------------
SlaveLabels == {"none", "idle", "queued", "sleep", "asleep", "take", "link", "call",
                "called", "reply", "replied", "freply", "unlink"}
ExportLabels == {"read", "queue", "spawn", "wakeup", "flushq", "flushw", "reply",
                 "shutq", "shutw", "exfree", "done"}

TypeOK == /\ spc \in [Slaves -> SlaveLabels] /\ epc \in [Exports -> ExportLabels]
          /\ cur \in [Exports -> Msgs \cup {None}]
          /\ job \in [Slaves -> Msgs \cup {None}] /\ fq \in [Slaves -> Msgs \cup {None}]
          /\ killed \subseteq Slaves /\ swipend \subseteq Slaves
          /\ q \in [Msgs -> Exq]
          /\ head \in Seq(Msgs) /\ tail \in Msgs \cup {None} /\ exql \in Slaves \cup {None}
          /\ qwait \in Slaves \cup {None} /\ qwaitq \in Seq(Slaves)
          /\ rwait \in Slaves \cup {None}
          /\ work \in [Exports -> Seq(Msgs)] /\ fsl \in [Exports -> BOOLEAN]
          /\ ref \in [Exports -> Nat]
          /\ got \in Seq(Msgs) /\ answered \in [Msgs -> Nat] /\ cancelled \subseteq Msgs

\* A message is answered once, and a request never after the Rflush that
\* cancelled it, by whichever of exportproc and the slaves: the client may have
\* used the tag again.
AnsweredOnce == [][\A m \in Msgs : answered'[m] # answered[m] =>
                                      answered[m] = 0 /\ m \notin cancelled]_vars

\* Several flushes of a request are answered in the order they came.
FlushesInOrder ==
    \A j \in 1 .. Len(got) : \A i \in 1 .. j - 1 :
        LET f == q[got[i]]
            g == q[got[j]]
        IN f.type = "Tflush" /\ g.type = "Tflush"
             /\ f.export = g.export /\ f.oldtag = g.oldtag
             /\ answered[got[j]] > 0
           => answered[got[i]] > 0

\* An fcall that completed without error is answered, a flush or no flush, for
\* the server has changed state; but for a connection that has shut down.
CompletedAnswered ==
    \A m \in Msgs : q[m].st = "freed" /\ q[m].slave # None /\ ~q[m].err /\ ~q[m].shut
                      => answered[m] = 1

\* No list leads to an Exq that has been freed, and no kproc is at one.
FreedUnreached ==
    LET used == ToSet(head) \cup (UNION {ToSet(work[e]) : e \in Exports})
                  \cup (UNION {ToSet(q[m].flush) : m \in Msgs})
                  \cup {cur[e] : e \in Exports}
                  \cup {job[s] : s \in Slaves} \cup {fq[s] : s \in Slaves}
    IN \A m \in used \ {None} : q[m].st = "live"

\* The variables have their types, and an Export has a reference for its
\* exportproc and one for each Exq: it is freed when the last is, and so not
\* while any kproc can come to use it.
RefsCounted ==
    /\ TypeOK
    /\ \A e \in Exports :
            ref[e] = Cardinality({m \in Msgs : q[m].st = "live" /\ q[m].export = e})
                       + IF epc[e] = "done" THEN 0 ELSE 1

\* up->killed of a flush interrupts the fcall of the request it flushes: not the
\* reply to it, which would be lost, nor the next request of the slave.
KillsHit ==
    \A s \in killed :
        \/ spc[s] \in {"call", "called"}
        \/ job[s] # None /\ q[job[s]].shut

\* A shut down Export leaves no request to be started, and every slave that is
\* still at one of its has been told.
ShutDown ==
    \A e \in Exports : epc[e] \in {"exfree", "done"} =>
        /\ work[e] = << >>
        /\ \A m \in ToSet(head) : q[m].export # e
        /\ \A s \in Slaves : job[s] # None /\ q[job[s]].export = e
                               => q[job[s]].shut

\* A request that is not yet finished can be found for a flush or a shutdown.
\* It cannot when exflushed has freed the Exq that exq.tail points to.
Findable ==
    \A m \in Msgs :
        q[m].st = "live" /\ q[m].type = "T" /\ ~q[m].finished /\ ~q[m].shut =>
            \/ m \in ToSet(head) \cup ToSet(work[q[m].export])
            \/ cur[q[m].export] = m
            \/ exql # None /\ job[exql] = m

\* A flush is answered, if an fcall that is killed returns; but not when exflushed
\* has left fs->l locked.
KilledReturn == \A s \in Slaves : []<>~(spc[s] = "call" /\ s \in killed)

Closing(m) == \E e \in Exports : q[m].export = e /\ epc[e] \in {"shutq", "shutw", "exfree", "done"}
FlushAnswered ==
    KilledReturn => \A m \in Msgs : q[m].st = "live" /\ q[m].type = "Tflush"
                                       ~> answered[m] > 0 \/ Closing(m)

\* While fs->l is free a flush is answered, if an fcall that is killed returns:
\* whether it is flushed while queued, taken, linked, called or replied to.
FlushAnsweredUnlocked ==
    KilledReturn => \A m \in Msgs :
        q[m].st = "live" /\ q[m].type = "Tflush"
          ~> answered[m] > 0 \/ Closing(m) \/ \E e \in Exports : fsl[e]

\* A request on the list is taken off it, so long as fcalls return: a request
\* may find no slave, more having come than slaves were idle, but not for ever.
RequestTaken ==
    (\A s \in Slaves : []<>(spc[s] # "call")) =>
        \A m \in Msgs : m \in ToSet(head) ~> m \notin ToSet(head) \/ \E e \in Exports : fsl[e]

\* When the client hangs up the Export goes, if its fcalls return.
ExportFreed ==
    (\A s \in Slaves : []<>(spc[s] # "call")) =>
        \A e \in Exports : epc[e] = "shutq" ~> ref[e] = 0 \/ fsl[e] \/ ~Findable
=============================================================================
