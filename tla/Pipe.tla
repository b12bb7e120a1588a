-------------------------------- MODULE Pipe --------------------------------
(***************************************************************************)
(* One direction of a pipe (emu/port/devpipe.c): the Readers have side 0   *)
(* open and read q[0], the Writers have side 1 open and write it.  The     *)
(* other direction is q[1], its mirror image.                              *)
(*                                                                         *)
(* A Proc inside a read or a write holds a reference to the Chan it uses,  *)
(* so that side's last Chan is not closed under it.  pipeopen and          *)
(* pipeclose hold p->l throughout, so there is one of them at a time; the  *)
(* reads and writes do not take p->l.                                      *)
(*                                                                         *)
(* A write that fails, of a Chan that is not mounted, also sets the kill   *)
(* of the Prog that the Proc is out with, if it has none, without the VM.  *)
(* That is no state of the pipe, and is left out.                          *)
(***************************************************************************)
EXTENDS Qio

CONSTANT MaxRef       \* bound of the model: the Chans open on each side

Sides == {0, 1}

\* A Block: the bytes that it holds, no more than it has allocated.
Block == {b \in [data : Seq(Nat), alloc : 0 .. Maxatomic] : Len(b.data) <= b.alloc}

\* The nil pointer points to none.
ASSUME PipeAssumption == MaxRef \in [Sides -> Nat] /\ None \notin Block

VARIABLES qref,       \* p->qref
          closing     \* what the Proc in pipeclose, which has p->l, does next

pvars == <<vars, qref, closing>>

PInit == /\ Init
         /\ qref = [s \in Sides |-> 0]
         /\ closing = "no"

\* The Procs that use the Chans of a side.
Users(s) == IF s = 0 THEN Readers ELSE Writers
InUse(s) == \E p \in Users(s) : pc[p] # "idle"

pipeopen(s) == /\ closing = "no"
               /\ qref[s] < MaxRef[s]
               /\ qref' = [qref EXCEPT ![s] = @ + 1]
               /\ UNCHANGED <<vars, closing>>

piperead(r) == /\ qref[0] > 0
               /\ qread(r)
               /\ UNCHANGED <<qref, closing>>

pipewrite(w, n) == /\ qref[1] > 0
                   /\ qwrite(w, n)
                   /\ UNCHANGED <<qref, closing>>

\* A Chan of side s is closed; the last one hangs the stream up.
pipeclose(s) == /\ closing = "no"
                /\ qref[s] > 0 /\ (qref[s] = 1 => ~InUse(s))
                /\ qref' = [qref EXCEPT ![s] = @ - 1]
                /\ IF qref[s] > 1
                   THEN UNCHANGED <<vars, closing>>
                   ELSE /\ closing' = "rr"
                        /\ IF s = 0 THEN qclose ELSE qhangup

pipecloseWake == \/ closing = "rr" /\ WakeReader /\ closing' = "wr" /\ UNCHANGED qref
                 \/ closing = "wr" /\ WakeWriter /\ closing' = "check" /\ UNCHANGED qref

\* If both sides are closed, they are reusable.
pipecloseEnd == /\ closing = "check"
                /\ closing' = "no"
                /\ IF qref = [s \in Sides |-> 0] THEN qreopen ELSE UNCHANGED vars
                /\ UNCHANGED qref

Close == pipecloseWake \/ pipecloseEnd
Step(p) == /\ IF p \in Readers THEN ReaderStep(p) ELSE WriterStep(p)
           /\ UNCHANGED <<qref, closing>>
Eintr(p) == /\ IF p \in Readers THEN EintrReader(p) ELSE EintrWriter(p)
            /\ UNCHANGED <<qref, closing>>

Next == \/ \E s \in Sides : pipeopen(s) \/ pipeclose(s)
        \/ Close
        \/ \E r \in Readers : piperead(r)
        \/ \E w \in Writers, n \in Writes : pipewrite(w, n)
        \/ \E p \in Procs : Step(p) \/ Eintr(p)

Spec == PInit /\ [][Next]_pvars

\* A Proc inside a read or a write, or inside pipeclose, goes on.  Nothing
\* makes a Proc begin one, or interrupts it.
Fairness == WF_pvars(Close) /\ \A p \in Procs : WF_pvars(Step(p))
FairSpec == Spec /\ Fairness

-----------------------------------------------------------------------------
TypeOK == /\ q \in Seq(Block)
          /\ len \in Nat /\ dlen \in Nat
          /\ closed \in BOOLEAN /\ flow \in BOOLEAN /\ starve \in BOOLEAN
          /\ eof \in 0 .. EofMax
          /\ rlock \in Seq(Readers) /\ wlock \in Seq(Writers)
          /\ rr \in Readers \cup {None} /\ wr \in Writers \cup {None}
          /\ pc \in [Procs -> Labels]
          /\ hand \in Block \cup {None}
          /\ todo \in [Writers -> Nat]
          /\ sent \in Nat /\ got \in 0 .. sent
          /\ qref \in [Sides -> Nat] /\ \A s \in Sides : qref[s] <= MaxRef[s]
          /\ closing \in {"no", "rr", "wr", "check"}

InHand == IF hand = None THEN << >> ELSE <<hand>>

\* The blocks of s made one.
Whole(s) ==
    LET join[n \in 0 .. Len(s)] ==
            IF n = 0 THEN [data |-> << >>, alloc |-> 0]
            ELSE [data |-> join[n - 1].data \o s[n].data, alloc |-> join[n - 1].alloc + s[n].alloc]
    IN join[Len(s)]
Bytes(s) == Whole(s).data

\* What has been written and not yet read is in the queue, or in the hand of
\* the one Proc that reads, in the order it was written: nothing is lost,
\* duplicated or overtaken by what is written while qread has q->l dropped.
InOrder == Bytes(InHand \o q) = [i \in 1 .. sent - got |-> got + i]

\* The variables have their types, and the counts that flow control and stat go
\* by are those of the blocks queued.
Counted == /\ TypeOK
           /\ dlen = Len(Bytes(q))
           /\ len = Whole(q).alloc

\* An end-of-file is final: once a read has seen it nothing is queued again,
\* not even by a write that was under way, until the pipe is reopened.  A pipe
\* whose readers are gone holds no data either, so that none of it is there for
\* those who open the pipe next.
EofFinal == eof > 0 \/ (closing = "no" /\ qref[0] = 0 /\ closed)
              => closed /\ q = << >> /\ hand = None

\* A stream that is hung up ends every read and write of it: none sleeps on,
\* or waits for a lock that is never let go.
HangupReturns == \A p \in Procs : closed /\ pc[p] # "idle" ~> pc[p] = "idle"

\* A writer that sleeps for flow control goes on when the queue is below its
\* low-water mark, or has been closed.
WriterResumes == \A w \in Writers :
    pc[w] = "asleep" /\ hand = None /\ (len < Limit \div 2 \/ closed) ~> pc[w] # "asleep"
=============================================================================
