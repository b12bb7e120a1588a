-------------------------------- MODULE Qio --------------------------------
(***************************************************************************)
(* A Queue of emu/port/qio.c in stream mode, between the Procs that read   *)
(* it (qread, qbread) and those that write it (qwrite, qbwrite): the       *)
(* blocks, the flow control, and hanging up, closing and reopening.        *)
(*                                                                         *)
(* A critical section of q->l is one action.  What the code does outside   *)
(* it is a step of its own: qread copies a block out, and may then put the *)
(* rest of it back, with q->l dropped; qbwrite tests qnotfull without q->l *)
(* before it sets Qflow; and a Wakeup comes after the unlock that decided  *)
(* on it.  q->rlock and q->wlock are the FIFO QLocks of KProc, here the    *)
(* sequences of the Procs that have or await them.  Sleep and Wakeup are   *)
(* KProc's too: Sleep tests its condition under the Rendez's lock, and     *)
(* raises Eintr when the Proc has been interrupted, which may be at any    *)
(* time.                                                                   *)
(*                                                                         *)
(* The bytes are numbered as they are queued, so that the order in which   *)
(* they leave can be stated.                                               *)
(***************************************************************************)
EXTENDS Naturals, SequencesExt

CONSTANTS Readers,    \* the Procs that read the queue
          Writers,    \* the Procs that write it
          None,       \* the nil pointer
          Limit,      \* q->limit
          Maxatomic,  \* the most bytes in a block
          Reads,      \* the counts qread and qbread are called with
          Writes,     \* the counts qwrite is called with
          MaxBytes    \* bound of the model: bytes written before a reopening

Procs == Readers \cup Writers

ASSUME QioAssumption == /\ Readers \cap Writers = {}
                        /\ None \notin Procs
                        /\ Limit \in Nat \ {0, 1}
                        /\ Maxatomic \in Nat \ {0}
                        /\ Reads \subseteq Nat
                        /\ Writes \subseteq Nat
                        /\ MaxBytes \in Nat

\* Bound of the model: q->eof is counted up to the first value that raises an error.
EofMax == 4

VARIABLES q,          \* the blocks from q->bfirst to q->blast
          len,        \* q->len, the bytes the blocks have allocated
          dlen,       \* q->dlen, the bytes they hold
          closed,     \* Qclosed of q->state
          flow,       \* Qflow
          starve,     \* Qstarve
          eof,        \* q->eof
          rlock,      \* the Procs at q->rlock, its holder first
          wlock,      \* the Procs at q->wlock, its holder first
          rr,         \* q->rr.p
          wr,         \* q->wr.p
          pc,         \* pc[p]: what Proc p is doing
          hand,       \* the block that qread has removed and is copying
          todo,       \* todo[w]: what qwrite has still to queue
          sent,       \* history: the number of bytes queued
          got         \* history: the number of bytes that have left the queue

blocks == <<q, len, dlen>>
state == <<closed, flow, starve, eof>>
waits == <<rlock, wlock, rr, wr>>
history == <<sent, got>>
vars == <<blocks, state, waits, pc, hand, todo, history>>

Labels == {"idle", "qlock", "copy", "full", "setflow", "sleep", "asleep", "woken",
           "wake", "more"}

BLEN(b) == Len(b.data)
BALLOC(b) == b.alloc

Init == /\ q = << >> /\ len = 0 /\ dlen = 0
        /\ closed = FALSE /\ flow = FALSE /\ starve = TRUE /\ eof = 0
        /\ rlock = << >> /\ wlock = << >>
        /\ rr = None /\ wr = None
        /\ pc = [p \in Procs |-> "idle"]
        /\ hand = None
        /\ todo = [w \in Writers |-> 0]
        /\ sent = 0 /\ got = 0

notempty == closed \/ q # << >>
qnotfull == len < Limit \/ closed

Goto(p, l) == pc' = [pc EXCEPT ![p] = l]

\* p goes to l after Wakeup of the Rendez on which z, if it is a Proc, sleeps.
GotoWaking(p, l, z) == pc' = [x \in Procs |-> IF x = p THEN l ELSE IF x = z THEN "woken" ELSE pc[x]]

-----------------------------------------------------------------------------
(* Readers.                                                                *)

\* qread or qbread: qlock(&q->rlock).
qread(r) == /\ pc[r] = "idle"
            /\ rlock' = Append(rlock, r)
            /\ Goto(r, "qlock")
            /\ UNCHANGED <<blocks, state, wlock, rr, wr, hand, todo, history>>

\* r has q->rlock and has just locked q->l.
Checks(r) == /\ pc[r] \in {"qlock", "woken"}
             /\ r = Head(rlock)

\* qwait at the end of a closed queue: the read returns 0 or, after a few of
\* them, raises an error.
qwaitClosed(r) == /\ Checks(r)
                  /\ q = << >> /\ closed
                  /\ eof' = IF eof < EofMax THEN eof + 1 ELSE eof
                  /\ rlock' = Tail(rlock)
                  /\ Goto(r, "idle")
                  /\ UNCHANGED <<blocks, closed, flow, starve, wlock, rr, wr, hand, todo, history>>

\* qwait at the end of an open queue: ask to be woken.
qwaitStarve(r) == /\ Checks(r)
                  /\ ~notempty
                  /\ starve' = TRUE
                  /\ Goto(r, "sleep")
                  /\ UNCHANGED <<blocks, closed, flow, eof, waits, hand, todo, history>>

\* qremove.
qremove(r) == /\ Checks(r)
              /\ q # << >>
              /\ hand' = Head(q)
              /\ q' = Tail(q)
              /\ len' = len - BALLOC(Head(q))
              /\ dlen' = dlen - BLEN(Head(q))
              /\ Goto(r, "copy")
              /\ UNCHANGED <<state, waits, todo, history>>

\* qwakeup_unlock, with newlen bytes in the queue: let the writers go on.
qwakeup_unlock(r, newlen) ==
    IF flow /\ newlen < Limit \div 2
    THEN /\ flow' = FALSE
         /\ Goto(r, "wake")
         /\ UNCHANGED rlock
    ELSE /\ rlock' = Tail(rlock)
         /\ Goto(r, "idle")
         /\ UNCHANGED flow

\* Mutant of copy: the rest of the block goes to the end of the queue.
copyToTail(r, n) ==
    /\ pc[r] = "copy"
    /\ hand' = None
    /\ IF n < BLEN(hand)
       THEN /\ q' = Append(q, [hand EXCEPT !.data = SubSeq(@, n + 1, Len(@))])
            /\ len' = len + BALLOC(hand)
            /\ dlen' = dlen + BLEN(hand) - n
            /\ got' = got + n
       ELSE /\ got' = got + BLEN(hand)
            /\ UNCHANGED blocks
    /\ qwakeup_unlock(r, len')
    /\ UNCHANGED <<closed, starve, eof, wlock, rr, wr, todo, sent>>

\* bl2mem, for n bytes, and what qread does with the rest of the block.
copy(r, n) ==
    /\ pc[r] = "copy"
    /\ hand' = None
    /\ IF n < BLEN(hand)
       THEN /\ q' = <<[hand EXCEPT !.data = SubSeq(@, n + 1, Len(@))]>> \o q
            /\ len' = len + BALLOC(hand)
            /\ dlen' = dlen + BLEN(hand) - n
            /\ got' = got + n
       ELSE /\ got' = got + BLEN(hand)
            /\ UNCHANGED blocks
    /\ qwakeup_unlock(r, len')
    /\ UNCHANGED <<closed, starve, eof, wlock, rr, wr, todo, sent>>

\* qbread of n bytes: what it does not want goes back in a block of its own.
qbread(r, n) ==
    /\ Checks(r)
    /\ q # << >>
    /\ LET b == Head(q)
           rest == SubSeq(b.data, n + 1, BLEN(b))
       IN  IF n < BLEN(b)
           THEN /\ q' = <<[data |-> rest, alloc |-> Len(rest)]>> \o Tail(q)
                /\ len' = len - BALLOC(b) + Len(rest)
                /\ dlen' = dlen - n
                /\ got' = got + n
           ELSE /\ q' = Tail(q)
                /\ len' = len - BALLOC(b)
                /\ dlen' = dlen - BLEN(b)
                /\ got' = got + BLEN(b)
    /\ qwakeup_unlock(r, len')
    /\ UNCHANGED <<closed, starve, eof, wlock, rr, wr, hand, todo, sent>>

\* The Wakeup of qwakeup_unlock, and qunlock(&q->rlock).
wakeWriter(r) == /\ r \in Readers /\ pc[r] = "wake"
                 /\ GotoWaking(r, "idle", wr)
                 /\ wr' = None
                 /\ rlock' = Tail(rlock)
                 /\ UNCHANGED <<blocks, state, wlock, rr, hand, todo, history>>

\* Sleep(&q->rr, notempty, q).
SleepReader(r) ==
    /\ pc[r] = "sleep"
    /\ \/ /\ notempty
          /\ Goto(r, "woken")
          /\ UNCHANGED rr
       \/ /\ ~notempty
          /\ rr' = r
          /\ Goto(r, "asleep")
    /\ UNCHANGED <<blocks, state, rlock, wlock, wr, hand, todo, history>>

\* Sleep raises Eintr, and the handler lets q->rlock go.
EintrReader(r) == /\ pc[r] \in {"sleep", "asleep", "woken"}
                  /\ rr' = IF rr = r THEN None ELSE rr
                  /\ rlock' = Tail(rlock)
                  /\ Goto(r, "idle")
                  /\ UNCHANGED <<blocks, state, wlock, wr, hand, todo, history>>

-----------------------------------------------------------------------------
(* Writers.                                                                *)

\* The bytes queued so far and those the writes begun have to queue.
Pending == sent + FoldFunction(+, 0, todo)

\* qwrite of n bytes: the first block is made; qbwrite is qlock(&q->wlock).
qwrite(w, n) == /\ pc[w] = "idle"
                /\ Pending + n <= MaxBytes
                /\ todo' = [todo EXCEPT ![w] = n]
                /\ wlock' = Append(wlock, w)
                /\ Goto(w, "qlock")
                /\ UNCHANGED <<blocks, state, rlock, rr, wr, hand, history>>

\* The next block of the same write.
more(w) == /\ pc[w] = "more"
           /\ wlock' = Append(wlock, w)
           /\ Goto(w, "qlock")
           /\ UNCHANGED <<blocks, state, rlock, rr, wr, hand, todo, history>>

\* The write ends with an error: q->wlock is let go.
Fails(w) == /\ wlock' = Tail(wlock)
            /\ todo' = [todo EXCEPT ![w] = 0]
            /\ Goto(w, "idle")

qbwriteClosed(w) == /\ pc[w] = "qlock" /\ w = Head(wlock)
                    /\ closed
                    /\ Fails(w)
                    /\ UNCHANGED <<blocks, state, rlock, rr, wr, hand, history>>

\* Mutant of qbwrite: a write that waited for q->wlock does not see Qclosed.
qbwriteBlind(w) ==
    /\ pc[w] = "qlock" /\ w = Head(wlock)
    /\ LET n == IF todo[w] > Maxatomic THEN Maxatomic ELSE todo[w]
       IN  /\ q' = Append(q, [data |-> [i \in 1 .. n |-> sent + i], alloc |-> n])
           /\ len' = len + n
           /\ dlen' = dlen + n
           /\ todo' = [todo EXCEPT ![w] = @ - n]
           /\ sent' = sent + n
    /\ starve' = FALSE
    /\ Goto(w, IF starve THEN "wake" ELSE "full")
    /\ UNCHANGED <<closed, flow, eof, waits, hand, got>>

\* Queue a block; a starved reader is to be woken.
qbwrite(w) ==
    /\ pc[w] = "qlock" /\ w = Head(wlock)
    /\ ~closed
    /\ LET n == IF todo[w] > Maxatomic THEN Maxatomic ELSE todo[w]
       IN  /\ q' = Append(q, [data |-> [i \in 1 .. n |-> sent + i], alloc |-> n])
           /\ len' = len + n
           /\ dlen' = dlen + n
           /\ todo' = [todo EXCEPT ![w] = @ - n]
           /\ sent' = sent + n
    /\ starve' = FALSE
    /\ Goto(w, IF starve THEN "wake" ELSE "full")
    /\ UNCHANGED <<closed, flow, eof, waits, hand, got>>

wakeReader(w) == /\ w \in Writers /\ pc[w] = "wake"
                 /\ GotoWaking(w, "full", rr)
                 /\ rr' = None
                 /\ UNCHANGED <<blocks, state, rlock, wlock, wr, hand, todo, history>>

\* qnotfull: qbwrite returns, and qwrite goes on to its next block or returns.
qbwriteDone(w) == /\ pc[w] \in {"full", "woken"}
                  /\ qnotfull
                  /\ wlock' = Tail(wlock)
                  /\ Goto(w, IF todo[w] > 0 THEN "more" ELSE "idle")
                  /\ UNCHANGED <<blocks, state, rlock, rr, wr, hand, todo, history>>

qbwriteFull(w) == /\ pc[w] \in {"full", "woken"}
                  /\ ~qnotfull
                  /\ Goto(w, "setflow")
                  /\ UNCHANGED <<blocks, state, waits, hand, todo, history>>

setflow(w) == /\ pc[w] = "setflow"
              /\ flow' = TRUE
              /\ Goto(w, "sleep")
              /\ UNCHANGED <<blocks, closed, starve, eof, waits, hand, todo, history>>

\* Mutant of SleepWriter: the condition is not tested again.
SleepWriterUntested(w) ==
    /\ pc[w] = "sleep"
    /\ wr' = w
    /\ Goto(w, "asleep")
    /\ UNCHANGED <<blocks, state, rlock, wlock, rr, hand, todo, history>>

\* Sleep(&q->wr, qnotfull, q).
SleepWriter(w) ==
    /\ pc[w] = "sleep"
    /\ \/ /\ qnotfull
          /\ Goto(w, "woken")
          /\ UNCHANGED wr
       \/ /\ ~qnotfull
          /\ wr' = w
          /\ Goto(w, "asleep")
    /\ UNCHANGED <<blocks, state, rlock, wlock, rr, hand, todo, history>>

\* Sleep raises Eintr: the block is queued all the same.
EintrWriter(w) == /\ pc[w] \in {"sleep", "asleep", "woken"}
                  /\ wr' = IF wr = w THEN None ELSE wr
                  /\ Fails(w)
                  /\ UNCHANGED <<blocks, state, rlock, rr, hand, history>>

-----------------------------------------------------------------------------
(* The state of the queue.                                                 *)

\* Mutant of qclose: the counts are reset but the blocks are not unlinked.
qcloseKeeps == /\ closed' = TRUE /\ flow' = FALSE /\ starve' = FALSE
               /\ len' = 0 /\ dlen' = 0
               /\ UNCHANGED <<q, eof, waits, pc, hand, todo, history>>

\* qclose up to its unlock: what is queued is released.
qclose == /\ closed' = TRUE /\ flow' = FALSE /\ starve' = FALSE
          /\ q' = << >> /\ len' = 0 /\ dlen' = 0
          /\ got' = sent
          /\ UNCHANGED <<eof, waits, pc, hand, todo, sent>>

\* qhangup up to its unlock: what is queued stays.
qhangup == /\ closed' = TRUE
           /\ UNCHANGED <<blocks, flow, starve, eof, waits, pc, hand, todo, history>>

\* Mutant of WakeReader: nobody is woken.
WakeReaderNot == UNCHANGED vars

\* The Wakeups of qclose and qhangup.
WakeReader == /\ pc' = [p \in Procs |-> IF p = rr THEN "woken" ELSE pc[p]]
              /\ rr' = None
              /\ UNCHANGED <<blocks, state, rlock, wlock, wr, hand, todo, history>>

WakeWriter == /\ pc' = [p \in Procs |-> IF p = wr THEN "woken" ELSE pc[p]]
              /\ wr' = None
              /\ UNCHANGED <<blocks, state, rlock, wlock, rr, hand, todo, history>>

\* qreopen; the bytes are numbered anew if none is left.
qreopen == /\ closed' = FALSE /\ starve' = TRUE /\ eof' = 0
           /\ sent' = sent - (IF q = << >> THEN sent ELSE 0)
           /\ got' = got - (IF q = << >> THEN got ELSE 0)
           /\ UNCHANGED <<blocks, flow, waits, pc, hand, todo>>

-----------------------------------------------------------------------------
\* What a Proc in the middle of a read or a write does next.
ReaderStep(r) == \/ qwaitClosed(r) \/ qwaitStarve(r) \/ qremove(r)
                 \/ \E n \in Reads : copy(r, n) \/ qbread(r, n)
                 \/ wakeWriter(r) \/ SleepReader(r)

WriterStep(w) == \/ more(w) \/ qbwriteClosed(w) \/ qbwrite(w) \/ wakeReader(w)
                 \/ qbwriteDone(w) \/ qbwriteFull(w) \/ setflow(w) \/ SleepWriter(w)
=============================================================================
