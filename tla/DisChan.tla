------------------------------- MODULE DisChan -------------------------------
(***************************************************************************)
(* Channels of Dis and alt: libinterp/alt.c, the channel instructions of   *)
(* libinterp/xec.c, csend and crecv of emu/port/inferno.c by which kprocs  *)
(* communicate with Progs, cblock, killcomm, killprog and exprog of        *)
(* emu/port/dis.c.                                                         *)
(*                                                                         *)
(* A Prog that waits is on the queue of every channel it waits for, once.  *)
(* All of it runs with the virtual machine acquired, so an instruction is  *)
(* one action; but a kproc in cblock has released the machine, and runs    *)
(* between the instructions of others until it has acquired it again.      *)
(*                                                                         *)
(* What a Prog is doing is a list of cases <<direction, channel>>: one for *)
(* send, recv, csend and crecv, several for an alt, the sends first, with  *)
(* an array of channels to receive from put in its place.                  *)
(***************************************************************************)
EXTENDS Naturals, Sequences, SequencesExt, Queues

CONSTANTS Progs, Chans, Vals, None,
          Kprocs,       \* the Progs that communicate by csend and crecv
          Cap,          \* Cap[c]: the length of c's buffer, 0 if there is none
          Alts          \* the lists of cases that alts of the program have

\* No alt has a case twice.
ASSUME DisChanAssumption ==
    /\ Kprocs \subseteq Progs
    /\ Cap \in [Chans -> Nat]
    /\ \A a \in Alts : a \in Seq({"send", "recv"} \X Chans) /\ IsInjective(a)

VARIABLES state,        \* Prog.state
          kill,         \* Prog.kill: nil, an exception, or killed (Pkilled)
          q,            \* q[<<d, c>>]: the Progs of c->send, c->recv
          buf,          \* the values in c->buf
          op,           \* op[p]: the cases of what p does: p->chan, p->R.s
          cell,         \* what p->ptr points at: the value to send, or received
          result,       \* the case p communicated in: *p->R.d of an alt
          ptr,          \* ptr[p]: p->ptr is not nil (in cblock)
          addrunset,    \* addrunset[p]: p->addrun is cwakeme
          pc,           \* where p's kproc is in cblock
          excepting     \* the Prog that exprog is at, between swiprog and kill

mine == <<op, cell, result>>
kproc == <<ptr, addrunset, pc>>
vars == <<state, kill, q, buf, mine, kproc, excepting>>

Dirs == {"send", "recv"}
Cases == Dirs \X Chans
Opposite(k) == <<IF k[1] = "send" THEN "recv" ELSE "send", k[2]>>

Init == /\ state = [p \in Progs |-> "ready"]
        /\ kill = [p \in Progs |-> "nil"]
        /\ q = [k \in Cases |-> << >>]
        /\ buf = [c \in Chans |-> << >>]
        /\ op = [p \in Progs |-> << >>]
        /\ cell = [p \in Progs |-> None]
        /\ result = [p \in Progs |-> None]
        /\ ptr = [p \in Progs |-> FALSE]
        /\ addrunset = [p \in Progs |-> FALSE]
        /\ pc = [p \in Progs |-> "run"]
        /\ excepting = None

\* p may execute the next instruction; nobody else has the virtual machine.
Runs(p) == /\ excepting = None
           /\ state[p] = "ready" /\ kill[p] = "nil"
           /\ op[p] = << >>

CANGET(c) == Len(buf[c]) > 0
CANPUT(c) == Len(buf[c]) < Cap[c]

\* Case k can be done at once, by the queues qs.
Ready(qs, k) == \/ qs[Opposite(k)] # << >>
                \/ IF k[1] = "send" THEN CANPUT(k[2]) ELSE CANGET(k[2])

\* Mutant of cqadd: the latest to wait is served first.
cqaddFirst(qs, k, p) == [qs EXCEPT ![k] = <<p>> \o @]

cqadd(qs, k, p) == [qs EXCEPT ![k] = Append(@, p)]
cqdel(qs, k) == [qs EXCEPT ![k] = Tail(@)]

cqdelp(qs, k, p) == [qs EXCEPT ![k] = Without(@, {p})]

\* Mutant of altdone: the last case is left marked.
altdoneShort(qs, a, p) ==
    [k \in Cases |-> IF \E n \in 1 .. Len(a) - 1 : a[n] = k
                     THEN Without(qs[k], {p}) ELSE qs[k]]

\* altdone and altunmark: take p off the queues of all its cases.
altdone(qs, a, p) ==
    [k \in Cases |-> IF \E n \in 1 .. Len(a) : a[n] = k
                     THEN Without(qs[k], {p}) ELSE qs[k]]

\* addrun: a Prog goes on the run queue; a kproc in cblock is woken (cwakeme).
addrun(p) ==
    IF addrunset[p]
    THEN /\ addrunset' = [addrunset EXCEPT ![p] = FALSE]
         /\ pc' = [pc EXCEPT ![p] = IF @ = "asleep" THEN "back" ELSE @]
         /\ UNCHANGED state
    ELSE /\ state' = [state EXCEPT ![p] = "ready"]
         /\ UNCHANGED <<addrunset, pc>>

-----------------------------------------------------------------------------
(* Communication.  a is what p does, n the case it does, qs the queues     *)
(* with p marked on them if it is in an alt, which altdone then undoes.    *)

\* The first of the queue k, h, is taken off it and, from an alt, off the others.
partner(qs, h, k) == IF state[h] = "alt" THEN altdone(cqdel(qs, k), op[h], h)
                                         ELSE cqdel(qs, k)

\* Which of its cases a partner is told it has done: the one on that channel.
told(h, k) == CHOOSE n \in 1 .. Len(op[h]) : op[h][n] = k

\* The moving of v from one Prog to the other ends both operations.
settle(p, a, n, v, h, k, w) ==
    /\ op' = [op EXCEPT ![p] = a]
    /\ result' = [result EXCEPT ![p] = n, ![h] = told(h, k)]
    /\ cell' = [cell EXCEPT ![p] = v, ![h] = w]
    /\ ptr' = [ptr EXCEPT ![h] = FALSE]
    /\ addrun(h)

\* With no partner, the buffer ends p's.
settleAlone(p, a, n, v) ==
    /\ op' = [op EXCEPT ![p] = a]
    /\ result' = [result EXCEPT ![p] = n]
    /\ cell' = [cell EXCEPT ![p] = v]
    /\ UNCHANGED <<kproc, state>>

cputb(p, a, n, v, qs) ==
    LET c == a[n][2]
    IN /\ qs[<<"recv", c>>] = << >>
       /\ CANPUT(c)
       /\ buf' = [buf EXCEPT ![c] = Append(@, v)]
       /\ q' = altdone(qs, a, p)
       /\ settleAlone(p, a, n, v)

cgetb(p, a, n, qs) ==
    LET c == a[n][2]
    IN /\ qs[<<"send", c>>] = << >>
       /\ CANGET(c)
       /\ buf' = [buf EXCEPT ![c] = Tail(@)]
       /\ q' = altdone(qs, a, p)
       /\ settleAlone(p, a, n, Head(buf[c]))

isend(p, a, n, v, qs) ==
    LET k == Opposite(a[n])
        h == Head(qs[k])
    IN /\ qs[k] # << >> /\ h # p
       /\ q' = altdone(partner(qs, h, k), a, p)
       /\ settle(p, a, n, v, h, k, v)
       /\ UNCHANGED buf

\* From a channel with a buffer the first value is taken, and the sender's put
\* behind the others.
irecv(p, a, n, qs) ==
    LET k == Opposite(a[n])
        c == a[n][2]
        h == Head(qs[k])
        b == IF Cap[c] = 0 THEN <<cell[h]>> ELSE Append(buf[c], cell[h])
    IN /\ qs[k] # << >> /\ h # p
       /\ q' = altdone(partner(qs, h, k), a, p)
       /\ settle(p, a, n, Head(b), h, k, cell[h])
       /\ buf' = [buf EXCEPT ![c] = Tail(b)]

Communicate(p, a, n, v, qs) ==
    /\ \/ a[n][1] = "send" /\ v # None /\ (isend(p, a, n, v, qs) \/ cputb(p, a, n, v, qs))
       \/ a[n][1] = "recv" /\ (irecv(p, a, n, qs) \/ cgetb(p, a, n, qs))
    /\ UNCHANGED <<kill, excepting>>

\* p's operation is over, and what it left is of no more use.
Over(p) == /\ op' = [op EXCEPT ![p] = << >>]
           /\ cell' = [cell EXCEPT ![p] = None]
           /\ result' = [result EXCEPT ![p] = None]

\* The values p may send with the cases a.
Sendable(a) == IF \E n \in 1 .. Len(a) : a[n][1] = "send" THEN Vals ELSE {None}

-----------------------------------------------------------------------------
(* The instructions.                                                       *)

\* send and recv, or csend and crecv, that need not wait.
Immediate(p, k) == /\ Runs(p)
                   /\ \E v \in Sendable(<<k>>) : Communicate(p, <<k>>, 1, v, q)

\* isend and irecv wait: delrun(Psend), delrun(Precv).
Block(p, k) ==
    /\ Runs(p) /\ ~Ready(q, k)
    /\ state' = [state EXCEPT ![p] = k[1]]
    /\ q' = cqadd(q, k, p)
    /\ op' = [op EXCEPT ![p] = <<k>>]
    /\ \E v \in Sendable(<<k>>) : cell' = [cell EXCEPT ![p] = v]
    /\ UNCHANGED <<kill, buf, result, kproc, excepting>>

\* ccom and the first part of cblock: the kproc lets the virtual machine go.
ccom(p, k) ==
    /\ p \in Kprocs
    /\ Runs(p) /\ ~Ready(q, k)
    /\ state' = [state EXCEPT ![p] = "release"]
    /\ q' = cqadd(q, k, p)
    /\ op' = [op EXCEPT ![p] = <<k>>]
    /\ \E v \in Sendable(<<k>>) : cell' = [cell EXCEPT ![p] = v]
    /\ ptr' = [ptr EXCEPT ![p] = TRUE]
    /\ addrunset' = [addrunset EXCEPT ![p] = TRUE]
    /\ pc' = [pc EXCEPT ![p] = "released"]
    /\ UNCHANGED <<kill, buf, result, excepting>>

\* altrdy: the queues with p on those of all its cases, except sends on a
\* channel on which p is the first to receive.
Marked(p, a) ==
    LET recvs == [k \in Cases |-> IF k[1] = "recv" /\ (\E n \in 1 .. Len(a) : a[n] = k)
                                  THEN Append(q[k], p) ELSE q[k]]
    IN [k \in Cases |-> IF /\ k[1] = "send" /\ \E n \in 1 .. Len(a) : a[n] = k
                           /\ recvs[Opposite(k)] = << >> \/ Head(recvs[Opposite(k)]) # p
                        THEN Append(q[k], p) ELSE recvs[k]]

\* altrdy raises exAlt.
exAlt(a) == \E m, n \in 1 .. Len(a) :
    a[m][1] = "send" /\ a[n] = Opposite(a[m]) /\ q[a[n]] = << >>

\* altrdy's count: the cases that can be done at once.
ReadyCases(qs, a) == Without([n \in 1 .. Len(a) |-> n], {n \in 1 .. Len(a) : ~Ready(qs, a[n])})
nrdy(a) == Len(ReadyCases(q, a))

\* altcomm takes one of the first nrdy cases that look ready now that p is
\* marked.  Were p's own mark among them (a receive on a channel that the same
\* alt sends on, with a third case ready) it would communicate with itself; isend
\* and irecv above leave that out.
Picks(p, a) == {ReadyCases(Marked(p, a), a)[i] : i \in 1 .. nrdy(a)}

\* Mutant of altBlock: only the cases after the first are looked at.
altBlockHasty(p, a) ==
    /\ Runs(p) /\ ~exAlt(a) /\ \A n \in 2 .. Len(a) : ~Ready(q, a[n])
    /\ state' = [state EXCEPT ![p] = "alt"]
    /\ q' = Marked(p, a)
    /\ op' = [op EXCEPT ![p] = a]
    /\ \E v \in Sendable(a) : cell' = [cell EXCEPT ![p] = v]
    /\ UNCHANGED <<kill, buf, result, kproc, excepting>>

\* xecalt finds no case ready: wait for all of them (delrun(Palt)).
altBlock(p, a) ==
    /\ Runs(p) /\ ~exAlt(a) /\ nrdy(a) = 0
    /\ state' = [state EXCEPT ![p] = "alt"]
    /\ q' = Marked(p, a)
    /\ op' = [op EXCEPT ![p] = a]
    /\ \E v \in Sendable(a) : cell' = [cell EXCEPT ![p] = v]
    /\ UNCHANGED <<kill, buf, result, kproc, excepting>>

\* xecalt finds cases ready and does one of them, at random.  With none ready an
\* nbalt, and with an exception an alt, leaves all as it was.
altcomm(p, a) ==
    /\ Runs(p) /\ ~exAlt(a)
    /\ \E n \in Picks(p, a), v \in Sendable(a) : Communicate(p, a, n, v, Marked(p, a))

\* p goes on with what it got.
Proceed(p) == /\ excepting = None
              /\ state[p] = "ready" /\ kill[p] = "nil"
              /\ op[p] # << >>
              /\ Over(p)
              /\ UNCHANGED <<state, kill, q, buf, kproc, excepting>>

-----------------------------------------------------------------------------
(* The rest of cblock, without the virtual machine.                        *)

\* Mutant of Sleep: a kproc is killed only if it sleeps.
SleepDeaf(p) == /\ pc[p] = "released"
                /\ pc' = [pc EXCEPT ![p] = IF ~addrunset[p] THEN "back" ELSE "asleep"]
                /\ UNCHANGED <<state, kill, q, buf, mine, ptr, addrunset, excepting>>

\* Sleep(o->rend, cdone, p), with the Rendez locked.
Sleep(p) == /\ pc[p] = "released"
            /\ pc' = [pc EXCEPT ![p] =
                        IF ~addrunset[p] \/ kill[p] # "nil" THEN "back" ELSE "asleep"]
            /\ UNCHANGED <<state, kill, q, buf, mine, ptr, addrunset, excepting>>

\* Back from Sleep: error(Eintr) if p has been killed.
Back(p) == /\ pc[p] = "back"
           /\ pc' = [pc EXCEPT ![p] = IF kill[p] # "nil" THEN "eintr" ELSE "acquire"]
           /\ UNCHANGED <<state, kill, q, buf, mine, ptr, addrunset, excepting>>

acquire(p) == /\ excepting = None
              /\ pc[p] = "acquire"
              /\ pc' = [pc EXCEPT ![p] = "run"]
              /\ state' = [state EXCEPT ![p] = "ready"]
              /\ UNCHANGED <<kill, q, buf, mine, ptr, addrunset, excepting>>

\* The error handlers of cblock and ccom: p leaves the queue unless a partner, or
\* killcomm, has taken it off.
acquireError(p) ==
    /\ excepting = None
    /\ pc[p] = "eintr"
    /\ pc' = [pc EXCEPT ![p] = "run"]
    /\ state' = [state EXCEPT ![p] = "ready"]
    /\ addrunset' = [addrunset EXCEPT ![p] = FALSE]
    /\ q' = IF ptr[p] THEN cqdelp(q, op[p][1], p) ELSE q
    /\ ptr' = [ptr EXCEPT ![p] = FALSE]
    /\ Over(p)
    /\ UNCHANGED <<kill, buf, excepting>>

-----------------------------------------------------------------------------
(* Exceptions, kills and hangups.                                          *)

\* swiprog: the Sleep of p's kproc, if it has got that far, ends with Eintr.
swiprog(p) == pc' = [pc EXCEPT ![p] = IF @ = "asleep" THEN "eintr" ELSE @]

\* What altdone and cqdelp do for a Prog that waits in Palt, Psend or Precv.
Unqueued(p) == IF state[p] \in {"alt", "send", "recv"} THEN altdone(q, op[p], p) ELSE q

\* killprog of a Prog that is in Dis, or its own exit: it is deleted.
killprog(p) ==
    /\ excepting = None
    /\ state[p] \in {"ready", "alt", "send", "recv"}
    /\ q' = Unqueued(p)
    /\ state' = [state EXCEPT ![p] = "dead"]
    /\ kill' = [kill EXCEPT ![p] = "nil"]
    /\ Over(p)
    /\ UNCHANGED <<buf, kproc, excepting>>

\* killprog of a Prog in Prelease: it is left to its kproc.
killReleased(p) ==
    /\ excepting = None
    /\ state[p] = "release"
    /\ state' = [state EXCEPT ![p] = "exiting"]
    /\ kill' = [kill EXCEPT ![p] = "killed"]
    /\ swiprog(p)
    /\ UNCHANGED <<q, buf, mine, ptr, addrunset, excepting>>

Except(p) == kill' = [kill EXCEPT ![p] = IF @ = "nil" THEN "exception" ELSE @]

exprog(p) ==
    /\ excepting = None
    /\ state[p] \in {"ready", "alt", "send", "recv"}
    /\ q' = Unqueued(p)
    /\ state' = [state EXCEPT ![p] = "ready"]
    /\ Except(p)
    /\ Over(p)
    /\ UNCHANGED <<buf, kproc, excepting>>

\* exprog of a Prog in Prelease: swiprog first, then p->kill.
exprogReleased(p) == /\ excepting = None
                     /\ state[p] = "release"
                     /\ excepting' = p
                     /\ swiprog(p)
                     /\ UNCHANGED <<state, kill, q, buf, mine, ptr, addrunset>>

exprogKill(p) == /\ excepting = p
                 /\ excepting' = None
                 /\ Except(p)
                 /\ UNCHANGED <<state, q, buf, mine, kproc>>

\* xec, or the return of the C function to it: an exception set is raised, and
\* ends a killed Prog.
Raise(p) == /\ excepting = None
            /\ state[p] = "ready" /\ kill[p] # "nil"
            /\ state' = [state EXCEPT ![p] = IF kill[p] = "killed" THEN "dead" ELSE @]
            /\ kill' = [kill EXCEPT ![p] = "nil"]
            /\ Over(p)
            /\ UNCHANGED <<q, buf, kproc, excepting>>

newprog(p) == /\ excepting = None
              /\ state[p] = "dead"
              /\ state' = [state EXCEPT ![p] = "ready"]
              /\ UNCHANGED <<kill, q, buf, mine, kproc, excepting>>

\* The Progs killcomm finds on the queues of c.
On(c) == {p \in Progs : \E d \in Dirs : Contains(q[<<d, c>>], p)}

\* killcomm empties the queues of c, and altgone takes what waited there in an
\* alt off the other channels.
Others(c) == [k \in Cases |-> IF k[2] = c THEN << >>
                              ELSE Without(q[k], On(c))]

\* freechan: the last reference to c goes while Progs wait for it, and c is then
\* made anew.  The cases of an alt hold references to their channels, but for
\* an array of channels to receive from.
freechan(c) ==
    /\ excepting = None
    /\ \A p \in Progs : state[p] = "alt" => \A n \in 1 .. Len(op[p]) : op[p][n] # <<"send", c>>
    /\ q' = Others(c)
    /\ buf' = [buf EXCEPT ![c] = << >>]
    /\ ptr' = [p \in Progs |-> ptr[p] /\ p \notin On(c)]
    /\ kill' = [p \in Progs |-> IF p \in On(c) /\ state[p] \in {"alt", "send", "recv"}
                                THEN "exception" ELSE kill[p]]
    /\ state' = [p \in Progs |-> IF p \in On(c) /\ state[p] \in {"alt", "send", "recv"}
                                 THEN "ready" ELSE state[p]]
    /\ pc' = [p \in Progs |-> IF p \in On(c) /\ state[p] = "release" /\ pc[p] = "asleep"
                              THEN "eintr" ELSE pc[p]]
    /\ op' = [p \in Progs |-> IF p \in On(c) /\ ~ptr[p] THEN << >> ELSE op[p]]
    /\ cell' = [p \in Progs |-> IF p \in On(c) /\ ~ptr[p] THEN None ELSE cell[p]]
    /\ UNCHANGED <<result, addrunset, excepting>>

-----------------------------------------------------------------------------
Next == \/ \E p \in Progs :
              \/ \E k \in Cases : Immediate(p, k) \/ Block(p, k) \/ ccom(p, k)
              \/ \E a \in Alts : altBlock(p, a) \/ altcomm(p, a)
              \/ Proceed(p) \/ Sleep(p) \/ Back(p) \/ acquire(p) \/ acquireError(p)
              \/ killprog(p) \/ killReleased(p) \/ exprog(p)
              \/ exprogReleased(p) \/ exprogKill(p) \/ Raise(p) \/ newprog(p)
        \/ \E c \in Chans : freechan(c)

Spec == Init /\ [][Next]_vars

-----------------------------------------------------------------------------
TypeOK == /\ state \in [Progs -> {"ready", "alt", "send", "recv", "release", "exiting", "dead"}]
          /\ kill \in [Progs -> {"nil", "exception", "killed"}]
          /\ q \in [Cases -> Seq(Progs)]
          /\ buf \in [Chans -> Seq(Vals)]
          /\ op \in [Progs -> Seq(Cases)]
          /\ cell \in [Progs -> Vals \cup {None}]
          /\ result \in [Progs -> Nat \cup {None}]
          /\ ptr \in [Progs -> BOOLEAN]
          /\ addrunset \in [Progs -> BOOLEAN]
          /\ pc \in [Progs -> {"run", "released", "asleep", "back", "acquire", "eintr"}]
          /\ excepting \in Progs \cup {None}

\* p waits to communicate: in Dis, or in a kproc whose p->ptr is still set.
Waiting(p) == state[p] \in {"alt", "send", "recv"} \/ ptr[p]

\* The queues agree with the Progs: on the queue of each channel and direction
\* are those that wait for it, each once.  A Prog left on a queue by an alt that
\* is over, an exception, a kill or a hangup would be handed a value that nobody
\* takes; one missing would wait for ever.
Queued == /\ TypeOK
          /\ \A k \in Cases :
                /\ IsInjective(q[k])
                /\ \A p \in Progs : Contains(q[k], p) <=> Waiting(p) /\ Contains(op[p], k)

\* Nobody waits in vain: never does a sender wait while there is a receiver or
\* room in the buffer, nor a receiver while there is a value.
NoneInVain == \A k \in Cases : q[k] # << >> => ~Ready(q, k)

\* A kproc that sleeps in cblock has neither communicated nor been killed: a
\* wakeup or a kill that comes between its release of the virtual machine and
\* its Sleep is not lost.
NotLeftAsleep == \A p \in Progs : pc[p] = "asleep" => addrunset[p] /\ kill[p] # "killed"
=============================================================================
