----------------------------- MODULE MCExportfs -----------------------------
(* Exportfs for TLC: one connection, three messages that may be requests or *)
(* flushes, a slave for each, and three tags, so that a request can have two *)
(* flushes and a tag is used again.                                         *)
EXTENDS Exportfs, TLC

CONSTANTS e1, s1, s2, s3, m1, m2, m3, m4, t1, t2, t3

MCExports == {e1}
MCSlaves == {s1, s2, s3}
MCSlaves1 == {s1}
MCSlaves2 == {s1, s2}
MCMsgs == {m1, m2, m3}
MCTags == {t1, t2, t3}
MCTags2 == {t1, t2}
Symmetry == Permutations(MCSlaves) \cup Permutations(MCTags)

\* What swiproc has left for a slave goes where notkilled clears it or SleepRwait
\* looks at it, not yet as the slave leaves the fcall or a reply: nothing looks at it
\* in between, and swiproc may have left swipend or not.
Late == \A s \in Slaves : spc'[s] \in {"called", "replied"} =>
            (s \in killed => s \in killed') /\ (s \in swipend => s \in swipend')

\* Messages come in one order: the other orders are like it.
MCSpec == Init /\ [][Next /\ Late /\ IsPrefix(got', <<m1, m2, m3>>)]_vars

\* For Findable: a request that is queued, one that is flushed behind it, the
\* flush, and a request queued after that.
MCMsgs4 == {m1, m2, m3, m4}
MCSpec4 == Init /\ [][Next /\ IsPrefix(got', <<m1, m2, m3, m4>>)]_vars

\* For liveness, without symmetry: m1 and m2 are requests, m1 the first, and m3
\* is a flush of one of them, so that two slaves are as many as can be made.
InOrder == /\ q'[m1].type = "T" /\ q'[m1].tag \in {None, t1}
           /\ q'[m2].type = "T" /\ (q[m1].st = "unread" => q'[m2].st = "unread")
           /\ q'[m3].st = "unread" \/ q'[m3].type = "Tflush"

LiveSpec == Init /\ [][Next /\ InOrder]_vars /\ Fairness

\* For FlushAnswered: m1 is a request and the others flush it.
TwoFlushes == \A m \in Msgs \ {m1} : q'[m].st = "unread" \/ q'[m].oldtag = q'[m1].tag

FlushSpec == Init /\ [][Next /\ q'[m1].type = "T" /\ TwoFlushes]_vars /\ Fairness
=============================================================================
