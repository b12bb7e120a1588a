---------------------------- MODULE DisChanProofs ----------------------------
(* Proofs, for any number of Progs, kprocs and channels, about kprocs in    *)
(* cblock and about who is on the queues of channels.                       *)
EXTENDS DisChanPromise, QueueLemmas

Places == {"run", "released", "asleep", "back", "acquire", "eintr"}
Kills == {"nil", "exception", "killed"}

BlockTyped == /\ pc \in [Progs -> Places]
              /\ addrunset \in [Progs -> BOOLEAN]
              /\ kill \in [Progs -> Kills]

BlockInv == BlockTyped /\ NotLeftAsleep

Asleep(x) == pc[x] = "asleep"

\* A step keeps BlockInv if no kproc falls asleep in it and those that stay
\* asleep have not been killed or woken.
Harmless == BlockTyped' /\ \A x \in Progs : Asleep(x)' =>
                /\ Asleep(x)
                /\ addrunset'[x] = addrunset[x]
                /\ kill'[x] = kill[x] \/ kill'[x] \in {"nil", "exception"}

LEMMA HarmlessKeeps == BlockInv /\ Harmless => BlockInv'
BY DEF BlockInv, Harmless, Asleep, NotLeftAsleep

LEMMA QuietHarmless ==
    ASSUME BlockTyped, UNCHANGED <<pc, addrunset>>,
           kill' \in [Progs -> Kills],
           \A x \in Progs : kill'[x] = kill[x] \/ kill'[x] \in {"nil", "exception"}
    PROVE  Harmless
BY DEF Harmless, BlockTyped, Asleep

\* Exceptions do not kill.
LEMMA ExceptHarmless ==
    ASSUME BlockTyped, NEW p \in Progs, UNCHANGED <<pc, addrunset>>, Except(p)
    PROVE  Harmless
<1>1. kill' \in [Progs -> Kills]
  BY DEF Except, BlockTyped, Kills
<1>2. \A x \in Progs : kill'[x] = kill[x] \/ kill'[x] \in {"nil", "exception"}
  BY DEF Except, BlockTyped
<1> QED
  BY <1>1, <1>2, QuietHarmless

LEMMA AddrunHarmless ==
    ASSUME BlockTyped, NEW h, addrun(h), UNCHANGED kill PROVE Harmless
<1> USE DEF Harmless, BlockTyped, Asleep, Places, Kills
<1>1. CASE addrunset[h]
  <2>1. CASE h \in Progs
    BY <1>1, <2>1 DEF addrun
  <2>2. CASE h \notin Progs
    <3>1. /\ \A e : [pc EXCEPT ![h] = e] = pc
          /\ \A e : [addrunset EXCEPT ![h] = e] = addrunset
      BY <2>2
    <3>2. pc' = pc /\ addrunset' = addrunset
      BY <1>1, <3>1, Zenon DEF addrun
    <3> QED
      BY <3>2
  <2> QED
    BY <2>1, <2>2
<1>2. CASE ~addrunset[h]
  BY <1>2 DEF addrun
<1> QED
  BY <1>1, <1>2

\* A partner in cblock is woken, however it is found.
LEMMA CommunicateHarmless ==
    ASSUME BlockTyped, NEW p, NEW a, NEW n, NEW v, NEW qs, Communicate(p, a, n, v, qs)
    PROVE  Harmless
<1>1. UNCHANGED kill
  BY DEF Communicate
<1>2. CASE cputb(p, a, n, v, qs) \/ cgetb(p, a, n, qs)
  <2>1. UNCHANGED <<pc, addrunset>>
    BY <1>2 DEF cputb, cgetb, settleAlone, kproc
  <2> QED
    BY <1>1, <2>1 DEF Harmless, BlockTyped, Asleep
<1>3. CASE isend(p, a, n, v, qs) \/ irecv(p, a, n, qs)
  <2>1. \E h : addrun(h)
    BY <1>3, Zenon DEF isend, irecv, settle
  <2> QED
    BY <1>1, <2>1, AddrunHarmless
<1> QED
  BY <1>2, <1>3 DEF Communicate

-----------------------------------------------------------------------------
LEMMA BlockKept == BlockInv /\ [Next]_vars => BlockInv'
<1> SUFFICES ASSUME BlockInv, [Next]_vars PROVE BlockInv'
  OBVIOUS
<1>0. BlockTyped /\ NotLeftAsleep
  BY DEF BlockInv
<1>1. ASSUME NEW p \in Progs, NEW k \in Cases, Immediate(p, k) \/ Block(p, k) \/ ccom(p, k)
      PROVE  BlockInv'
  <2>1. CASE Immediate(p, k)
    BY <1>0, <2>1, CommunicateHarmless, HarmlessKeeps DEF Immediate
  <2>2. CASE Block(p, k)
    <3>1. UNCHANGED <<pc, addrunset, kill>>
      BY <2>2 DEF Block, kproc
    <3> QED
      BY <1>0, <3>1, QuietHarmless, HarmlessKeeps DEF BlockTyped
  <2>3. CASE ccom(p, k)
    <3>1. Harmless
      BY <1>0, <2>3 DEF ccom, Harmless, BlockTyped, Asleep, Places
    <3> QED
      BY <3>1, HarmlessKeeps
  <2> QED
    BY <1>1, <2>1, <2>2, <2>3
<1>2. ASSUME NEW p \in Progs, NEW a \in Alts, altBlock(p, a) \/ altcomm(p, a) PROVE BlockInv'
  <2>1. CASE altBlock(p, a)
    <3>1. UNCHANGED <<pc, addrunset, kill>>
      BY <2>1 DEF altBlock, kproc
    <3> QED
      BY <1>0, <3>1, QuietHarmless, HarmlessKeeps DEF BlockTyped
  <2>2. CASE altcomm(p, a)
    BY <1>0, <2>2, CommunicateHarmless, HarmlessKeeps DEF altcomm
  <2> QED
    BY <1>2, <2>1, <2>2
<1>3. ASSUME NEW p \in Progs, Sleep(p) PROVE BlockInv'
  \* The one step in which a kproc falls asleep looks at both.
  <2>1. BlockTyped'
    BY <1>0, <1>3 DEF Sleep, BlockTyped, Places
  <2>2. \A x \in Progs : pc'[x] = "asleep" => addrunset[x] /\ kill[x] # "killed"
    BY <1>0, <1>3 DEF Sleep, BlockTyped, NotLeftAsleep
  <2> QED
    BY <1>3, <2>1, <2>2 DEF Sleep, BlockInv, NotLeftAsleep
<1>4. ASSUME NEW p \in Progs, Back(p) \/ acquire(p) \/ acquireError(p) PROVE BlockInv'
  <2>1. Harmless
    BY <1>0, <1>4 DEF Back, acquire, acquireError, Harmless, BlockTyped, Asleep, Places
  <2> QED
    BY <2>1, HarmlessKeeps
<1>5. ASSUME NEW p \in Progs, killReleased(p) PROVE BlockInv'
  \* A kproc that is killed sleeps no more.
  <2>1. BlockTyped'
    BY <1>0, <1>5 DEF killReleased, swiprog, BlockTyped, Places, Kills
  <2>2. \A x \in Progs : pc'[x] = "asleep" => pc[x] = "asleep" /\ x # p
    BY <1>0, <1>5 DEF killReleased, swiprog, BlockTyped
  <2>3. \A x \in Progs : x # p => kill'[x] = kill[x]
    BY <1>0, <1>5 DEF killReleased, BlockTyped
  <2> QED
    BY <1>0, <1>5, <2>1, <2>2, <2>3 DEF killReleased, BlockInv, NotLeftAsleep
<1>6. ASSUME NEW p \in Progs,
             killprog(p) \/ exprog(p) \/ exprogReleased(p) \/ exprogKill(p)
      PROVE  BlockInv'
  <2>1. CASE killprog(p)
    <3>1. UNCHANGED <<pc, addrunset>> /\ kill' = [kill EXCEPT ![p] = "nil"]
      BY <2>1 DEF killprog, kproc
    <3> QED
      BY <1>0, <3>1, QuietHarmless, HarmlessKeeps DEF BlockTyped, Kills
  <2>2. CASE exprog(p) \/ exprogKill(p)
    <3>1. UNCHANGED <<pc, addrunset>> /\ Except(p)
      BY <2>2 DEF exprog, exprogKill, kproc
    <3> QED
      BY <1>0, <3>1, ExceptHarmless, HarmlessKeeps
  <2>3. CASE exprogReleased(p)
    <3>1. Harmless
      BY <1>0, <2>3 DEF exprogReleased, swiprog, Harmless, BlockTyped, Asleep, Places
    <3> QED
      BY <3>1, HarmlessKeeps
  <2> QED
    BY <1>6, <2>1, <2>2, <2>3
<1>7. ASSUME NEW p \in Progs, Proceed(p) \/ Raise(p) \/ newprog(p) PROVE BlockInv'
  <2>1. UNCHANGED <<pc, addrunset>>
    BY <1>7 DEF Proceed, Raise, newprog, kproc
  <2>2. kill' = kill \/ kill' = [kill EXCEPT ![p] = "nil"]
    BY <1>7 DEF Proceed, Raise, newprog
  <2> QED
    BY <1>0, <2>1, <2>2, QuietHarmless, HarmlessKeeps DEF BlockTyped, Kills
<1>8. ASSUME NEW c \in Chans, freechan(c) PROVE BlockInv'
  <2>1. /\ addrunset' = addrunset
        /\ \A x \in Progs : pc'[x] \in {pc[x], "eintr"} /\ kill'[x] \in {kill[x], "exception"}
        /\ pc' = [x \in Progs |-> pc'[x]]
        /\ kill' = [x \in Progs |-> kill'[x]]
    BY <1>8 DEF freechan
  <2>2. Harmless
    BY <1>0, <2>1 DEF Harmless, BlockTyped, Asleep, Places, Kills
  <2> QED
    BY <2>2, HarmlessKeeps
<1>9. CASE UNCHANGED vars
  BY <1>0, <1>9 DEF vars, kproc, BlockInv, BlockTyped, NotLeftAsleep
<1> QED
  BY <1>1, <1>2, <1>3, <1>4, <1>5, <1>6, <1>7, <1>8, <1>9 DEF Next

\* A kproc that sleeps for a partner in cblock has not been handed to one, nor
\* killed, at any moment since it let the virtual machine go: addrun and killprog
\* find it asleep and wake it, or its Sleep finds what they left.
THEOREM NotLeft == Spec => []NotLeftAsleep
<1>1. Init => BlockInv
  BY DEF Init, BlockInv, BlockTyped, NotLeftAsleep, Places, Kills
<1> QED
  BY <1>1, BlockKept, PTL DEF Spec, BlockInv

-----------------------------------------------------------------------------
(* Who is on which queue.                                                   *)

\* The queues qq hold those of W, each in the cases that oo says, and once.
Lists(qq, W, oo) == \A k \in Cases :
    /\ qq[k] \in Seq(Progs)
    /\ Distinct(qq[k])
    /\ \A x \in Progs : In(x, qq[k]) <=> x \in W /\ In(k, oo[x])

\* What those do who are on no queue does not matter.
LEMMA ListsOthers ==
    ASSUME NEW qq, NEW W, NEW oo, NEW vv, Lists(qq, W, oo), \A x \in W : vv[x] = oo[x]
    PROVE  Lists(qq, W, vv)
BY DEF Lists

LEMMA ListsJoin ==
    ASSUME NEW qq, NEW W, NEW oo, Lists(qq, W, oo), NEW p \in Progs, p \notin W, NEW new,
           \A k \in Cases : new[k] = IF In(k, oo[p]) THEN Append(qq[k], p) ELSE qq[k]
    PROVE  Lists(new, W \cup {p}, oo)
<1> SUFFICES ASSUME NEW k \in Cases
             PROVE  /\ new[k] \in Seq(Progs)
                    /\ Distinct(new[k])
                    /\ \A x \in Progs : In(x, new[k]) <=> x \in W \cup {p} /\ In(k, oo[x])
  BY Zenon DEF Lists
<1>1. /\ qq[k] \in Seq(Progs) /\ Distinct(qq[k]) /\ ~In(p, qq[k])
      /\ \A x \in Progs : In(x, qq[k]) <=> x \in W /\ In(k, oo[x])
  BY DEF Lists
<1>2. CASE In(k, oo[p])
  <2>1. /\ Append(qq[k], p) \in Seq(Progs)
        /\ Distinct(Append(qq[k], p))
        /\ \A x \in Progs : In(x, Append(qq[k], p)) <=> In(x, qq[k]) \/ x = p
    BY <1>1, AppendInSeq, JoinQueue
  <2>2. new[k] = Append(qq[k], p)
    BY <1>2
  <2> QED
    BY <1>1, <1>2, <2>1, <2>2
<1>3. CASE ~In(k, oo[p])
  <2>1. new[k] = qq[k]
    BY <1>3
  <2> QED
    BY <1>1, <1>3, <2>1
<1> QED
  BY <1>2, <1>3

\* altdone takes p off the queues if the list a has all the cases it is on.
LEMMA ListsAltdone ==
    ASSUME NEW qq, NEW W, NEW oo, Lists(qq, W, oo), NEW p \in Progs, NEW a,
           p \in W => a = oo[p]
    PROVE  Lists(altdone(qq, a, p), W \ {p}, oo)
<1> DEFINE new == altdone(qq, a, p)
<1> SUFFICES ASSUME NEW k \in Cases
             PROVE  /\ new[k] \in Seq(Progs)
                    /\ Distinct(new[k])
                    /\ \A x \in Progs : In(x, new[k]) <=> x \in W \ {p} /\ In(k, oo[x])
  BY Zenon DEF Lists
<1>1. /\ qq[k] \in Seq(Progs) /\ Distinct(qq[k])
      /\ \A x \in Progs : In(x, qq[k]) <=> x \in W /\ In(k, oo[x])
  BY DEF Lists
<1>2. new[k] = IF In(k, a) THEN Without(qq[k], {p}) ELSE qq[k]
  BY DEF altdone, In
<1> HIDE DEF new
<1>3. /\ Without(qq[k], {p}) \in Seq(Progs)
      /\ Distinct(Without(qq[k], {p}))
      /\ \A x : In(x, Without(qq[k], {p})) <=> In(x, qq[k]) /\ x # p
  <2>1. /\ Without(qq[k], {p}) \in Seq(Progs)
        /\ Distinct(Without(qq[k], {p}))
        /\ \A x : In(x, Without(qq[k], {p})) <=> In(x, qq[k]) /\ x \notin {p}
    BY <1>1, WithoutFacts
  <2> QED
    BY <2>1
<1> QED
  BY <1>1, <1>2, <1>3

\* The first of a queue leaves it, and the others it is on.
LEMMA ListsPartner ==
    ASSUME NEW qq \in [Cases -> Seq(Progs)], NEW W, NEW oo, Lists(qq, W, oo),
           NEW k \in Cases, qq[k] # << >>, NEW h, h = Head(qq[k]),
           state[h] = "alt" => oo[h] = op[h],
           state[h] # "alt" => oo[h] = <<k>>
    PROVE  h \in W /\ h \in Progs /\ Lists(partner(qq, h, k), W \ {h}, oo)
<1> DEFINE t == cqdel(qq, k)
           new == partner(qq, h, k)
<1>1. \A j \in Cases :
         /\ qq[j] \in Seq(Progs) /\ Distinct(qq[j])
         /\ \A x \in Progs : In(x, qq[j]) <=> x \in W /\ In(j, oo[x])
  BY DEF Lists
<1>2. /\ h \in Progs /\ In(h, qq[k])
      /\ Tail(qq[k]) \in Seq(Progs) /\ Distinct(Tail(qq[k]))
      /\ \A x \in Progs : In(x, Tail(qq[k])) <=> In(x, qq[k]) /\ x # h
  BY <1>1, TailFacts, LeaveQueue
<1>3. \A j \in Cases : t[j] = IF j = k THEN Tail(qq[k]) ELSE qq[j]
  BY DEF cqdel
<1>4. h \in W /\ In(k, oo[h])
  BY <1>1, <1>2
<1> HIDE DEF t
<1> SUFFICES ASSUME NEW j \in Cases
             PROVE  /\ new[j] \in Seq(Progs)
                    /\ Distinct(new[j])
                    /\ \A x \in Progs : In(x, new[j]) <=> x \in W \ {h} /\ In(j, oo[x])
  BY <1>2, <1>4, Zenon DEF Lists
<1>5. t[j] \in Seq(Progs) /\ Distinct(t[j])
  BY <1>1, <1>2, <1>3
<1>6. \A x \in Progs : x # h => (In(x, t[j]) <=> x \in W /\ In(j, oo[x]))
  BY <1>1, <1>2, <1>3
<1>7. In(h, t[j]) => In(j, oo[h]) /\ j # k
  BY <1>1, <1>2, <1>3
<1>8. CASE state[h] = "alt"
  <2>1. new[j] = IF In(j, oo[h]) THEN Without(t[j], {h}) ELSE t[j]
    BY <1>8 DEF partner, altdone, In, t
  <2> HIDE DEF new
  <2>2. /\ Without(t[j], {h}) \in Seq(Progs)
        /\ Distinct(Without(t[j], {h}))
        /\ \A x : In(x, Without(t[j], {h})) <=> In(x, t[j]) /\ x \notin {h}
    BY <1>5, WithoutFacts
  <2> QED
    BY <1>5, <1>6, <1>7, <2>1, <2>2
<1>9. CASE state[h] # "alt"
  <2>1. new[j] = t[j]
    BY <1>9 DEF partner, t
  <2> HIDE DEF new
  <2>2. \A i : In(i, <<k>>) <=> i = k
    BY DEF In
  <2>3. ~In(h, t[j])
    BY <1>7, <1>9, <2>2
  <2> QED
    BY <1>5, <1>6, <2>1, <2>3
<1> QED
  BY <1>8, <1>9

-----------------------------------------------------------------------------
(* The invariant.                                                           *)

States == {"ready", "alt", "send", "recv", "release", "exiting", "dead"}

Waiters == {x \in Progs : Waiting(x)}

\* What a Prog that waits has, and how far a kproc in cblock has come.
Held(x) == /\ state[x] \in {"send", "recv"} \/ ptr[x] => \E k \in Cases : op[x] = <<k>>
           /\ Waiting(x) /\ (\E c \in Chans : In(<<"send", c>>, op[x])) => cell[x] \in Vals
           /\ ptr[x] => addrunset[x]
           /\ addrunset[x] => pc[x] # "run"
           /\ pc[x] # "run" => state[x] \in {"release", "exiting"}
           /\ pc[x] = "acquire" \/ (pc[x] = "back" /\ kill[x] = "nil") => ~addrunset[x]

WaitInv == TypeOK /\ Lists(q, Waiters, op) /\ \A x \in Progs : Held(x)

\* A step after which nobody waits who did not, nor for anything else.
Fewer == Waiters' \subseteq Waiters /\ \A x \in Waiters' : op'[x] = op[x]

\* Nothing of x's has changed but, perhaps, what it did when it waits no more.
Same(x) == /\ state'[x] = state[x] /\ ptr'[x] = ptr[x]
           /\ addrunset'[x] = addrunset[x] /\ pc'[x] = pc[x]
           /\ kill'[x] = kill[x] \/ kill[x] = "nil" \/ pc[x] = "run"
           /\ Waiting(x) => op'[x] = op[x] /\ cell'[x] = cell[x]

LEMMA SameHeld ==
    ASSUME NEW x \in Progs, Held(x), Same(x) PROVE Held(x)'
<1>1. Waiting(x)' <=> Waiting(x)
  BY DEF Same, Waiting
<1>2. state'[x] \in {"send", "recv"} \/ ptr'[x] => Waiting(x)
  BY DEF Same, Waiting
<1>3. kill'[x] = "nil" /\ pc[x] = "back" => kill[x] = "nil"
  BY DEF Same
<1>4. (Waiting(x) /\ (\E c \in Chans : In(<<"send", c>>, op[x])) => cell[x] \in Vals)'
  <2>1. SUFFICES ASSUME Waiting(x), \E c \in Chans : In(<<"send", c>>, op'[x])
                 PROVE  cell'[x] \in Vals
    BY <1>1 DEF In
  <2>2. op'[x] = op[x] /\ cell'[x] = cell[x]
    BY <2>1 DEF Same
  <2> QED
    BY <2>1, <2>2 DEF Held
<1>5. (state[x] \in {"send", "recv"} \/ ptr[x] => \E k \in Cases : op[x] = <<k>>)'
  BY <1>2 DEF Same, Held
<1>6. pc'[x] = "acquire" \/ (pc'[x] = "back" /\ kill'[x] = "nil") => ~addrunset'[x]
  BY <1>3 DEF Same, Held
<1> QED
  BY <1>4, <1>5, <1>6 DEF Same, Held

\* A Prog that is neither in cblock nor on a queue holds nothing back.
LEMMA IdleHeld ==
    ASSUME NEW x, ~addrunset[x], ~ptr[x], pc[x] = "run",
           state[x] \in {"ready", "dead"}
    PROVE  Held(x) /\ ~Waiting(x)
BY DEF Held, Waiting

LEMMA ReadyIdle ==
    ASSUME NEW x \in Progs, TypeOK, Held(x), state[x] \in {"ready", "alt", "send", "recv", "dead"}
    PROVE  /\ ~addrunset[x] /\ ~ptr[x] /\ pc[x] = "run"
           /\ Waiting(x) <=> state[x] \in {"alt", "send", "recv"}
BY DEF Held, Waiting, TypeOK

\* The types of what a step has made of the variables.
LEMMA QueuesTyped ==
    ASSUME NEW qq, qq = [k \in Cases |-> qq[k]], NEW W, NEW oo, Lists(qq, W, oo)
    PROVE  qq \in [Cases -> Seq(Progs)]
<1>1. \A k \in Cases : qq[k] \in Seq(Progs)
  BY DEF Lists
<1> QED
  BY <1>1

LEMMA OppositeCase == \A k \in Cases : Opposite(k) \in Cases /\ Opposite(k) # k
                                       /\ Opposite(k)[2] = k[2] /\ k[2] \in Chans
                                       /\ Opposite(Opposite(k)) = k
                                       /\ k \in {<<"send", k[2]>>, <<"recv", k[2]>>}
BY DEF Cases, Dirs, Opposite

LEMMA ListsPrime == Lists(q', Waiters', op') => Lists(q, Waiters, op)'
BY DEF Lists, In, Distinct, Cases, Dirs

-----------------------------------------------------------------------------
(* Communication.                                                           *)

\* p, which does not wait, communicates in case n of a; on the queues qs are
\* those that wait and, in an alt, p.
LEMMA CommunicateKeeps ==
    ASSUME WaitInv, NEW p \in Progs, state[p] = "ready",
           NEW a \in Seq(Cases), NEW n \in 1 .. Len(a), NEW v \in Vals \cup {None},
           NEW qs \in [Cases -> Seq(Progs)],
           NEW V, Waiters \subseteq V, V \subseteq Waiters \cup {p},
           Lists(qs, V, [op EXCEPT ![p] = a]),
           Communicate(p, a, n, v, qs)
    PROVE  WaitInv' /\ Fewer
<1> DEFINE oo == [op EXCEPT ![p] = a]
           k == Opposite(a[n])
           h == Head(qs[k])
           c == a[n][2]
<1>0. /\ TypeOK /\ Lists(q, Waiters, op) /\ \A x \in Progs : Held(x)
      /\ ~addrunset[p] /\ ~ptr[p] /\ pc[p] = "run" /\ ~Waiting(p) /\ p \notin Waiters
  BY ReadyIdle DEF WaitInv, Waiters
<1>1. a[n] \in Cases /\ k \in Cases /\ c \in Chans /\ k[2] = c /\ n \in Nat
      /\ a[n] \in {<<"send", c>>, <<"recv", c>>}
  BY OppositeCase
<1>2. /\ oo \in [Progs -> Seq(Cases)] /\ oo[p] = a
      /\ \A x \in Progs : x # p => oo[x] = op[x]
  BY <1>0 DEF TypeOK
<1>3. kill' = kill /\ excepting' = excepting
  BY DEF Communicate
<1> HIDE DEF oo, k, h, c
<1>4. CASE \/ v \in Vals /\ cputb(p, a, n, v, qs)
           \/ cgetb(p, a, n, qs)
  <2>1. \E w : settleAlone(p, a, n, w) /\ w \in Vals /\ buf' \in [Chans -> Seq(Vals)]
    <3>1. CASE v \in Vals /\ cputb(p, a, n, v, qs)
      <4>1. buf[c] \in Seq(Vals) /\ Append(buf[c], v) \in Seq(Vals)
        BY <1>0, <1>1, <3>1, AppendInSeq DEF TypeOK
      <4>2. buf' = [buf EXCEPT ![c] = Append(buf[c], v)] /\ settleAlone(p, a, n, v)
        BY <3>1 DEF cputb, c
      <4> QED
        BY <1>0, <1>1, <3>1, <4>1, <4>2 DEF TypeOK
    <3>2. CASE cgetb(p, a, n, qs)
      <4>1. buf[c] \in Seq(Vals) /\ Len(buf[c]) > 0
        BY <1>0, <1>1, <3>2 DEF TypeOK, cgetb, CANGET, c
      <4>2. buf[c] # << >>
        BY <4>1
      <4>3. Tail(buf[c]) \in Seq(Vals) /\ Head(buf[c]) \in Vals
        BY <4>1, <4>2, TailFacts
      <4>4. buf' = [buf EXCEPT ![c] = Tail(buf[c])] /\ settleAlone(p, a, n, Head(buf[c]))
        BY <3>2 DEF cgetb, c
      <4> QED
        BY <1>0, <1>1, <4>3, <4>4 DEF TypeOK
    <3> QED
      BY <1>4, <3>1, <3>2
  <2>2. PICK w \in Vals : settleAlone(p, a, n, w) /\ buf' \in [Chans -> Seq(Vals)]
    BY <2>1
  <2>3. /\ op' = oo /\ result' = [result EXCEPT ![p] = n] /\ cell' = [cell EXCEPT ![p] = w]
        /\ UNCHANGED <<ptr, addrunset, pc, state>>
        /\ q' = altdone(qs, a, p)
    BY <1>4, <2>2 DEF settleAlone, cputb, cgetb, kproc, oo
  <2>4. Lists(altdone(qs, a, p), V \ {p}, oo)
    BY <1>2, ListsAltdone DEF oo
  <2>5. V \ {p} = Waiters /\ Waiters' = Waiters
    BY <1>0, <2>3 DEF Waiters, Waiting
  <2>6. Lists(q, Waiters, op)'
    BY <2>3, <2>4, <2>5, ListsPrime
  <2>7. TypeOK'
    <3>1. q' \in [Cases -> Seq(Progs)]
      BY <2>3, <2>4, QueuesTyped DEF altdone
    <3>2. cell' \in [Progs -> Vals \cup {None}] /\ result' \in [Progs -> Nat \cup {None}]
      BY <1>0, <1>1, <2>3 DEF TypeOK
    <3> QED
      BY <1>0, <1>2, <1>3, <2>2, <2>3, <3>1, <3>2 DEF TypeOK
  <2>8. ASSUME NEW x \in Progs PROVE Held(x)'
    <3>1. Same(x)
      BY <1>0, <1>2, <1>3, <2>3 DEF Same, TypeOK
    <3> QED
      BY <1>0, <3>1, SameHeld
  <2>9. Fewer
    BY <1>0, <1>2, <2>3, <2>5 DEF Fewer, Waiters
  <2> QED
    BY <2>6, <2>7, <2>8, <2>9 DEF WaitInv
<1>5. CASE \/ v \in Vals /\ isend(p, a, n, v, qs)
           \/ a[n][1] = "recv" /\ irecv(p, a, n, qs)
  <2>1. /\ qs[k] # << >> /\ h # p
        /\ q' = altdone(partner(qs, h, k), a, p)
    BY <1>5, Zenon DEF isend, irecv, k, h
  \* h waits, and in no other case if it is not in an alt.
  <2>2. h \in Progs /\ In(h, qs[k])
    BY <1>1, <2>1, TailFacts, LeaveQueue DEF Lists, h
  <2>3. h \in Waiters /\ Waiting(h) /\ In(k, op[h])
    BY <1>1, <1>2, <2>1, <2>2 DEF Lists, oo, Waiters
  <2>4. state[h] # "alt" => oo[h] = <<k>>
    <3> SUFFICES ASSUME state[h] # "alt" PROVE op[h] = <<k>>
      BY <1>2, <2>1, <2>2
    <3>1. PICK j \in Cases : op[h] = <<j>>
      BY <1>0, <2>2, <2>3 DEF Waiting, Held
    <3>2. j = k
      BY <2>3, <3>1 DEF In
    <3> QED
      BY <3>1, <3>2
  <2>5. Lists(partner(qs, h, k), V \ {h}, oo)
    BY <1>1, <1>2, <2>1, <2>2, <2>4, ListsPartner DEF oo, h
  <2>6. Lists(q', (V \ {h}) \ {p}, oo)
    BY <1>2, <2>1, <2>5, ListsAltdone
  \* What is moved is a value.
  <2>7. a[n][1] = "recv" => cell[h] \in Vals
    <3>1. a[n][1] = "recv" => k = <<"send", c>>
      BY <1>1 DEF k, Opposite, c
    <3> QED
      BY <1>0, <1>1, <2>2, <2>3, <3>1 DEF Held
  <2>8. \E w, u \in Vals : settle(p, a, n, w, h, k, u) /\ buf' \in [Chans -> Seq(Vals)]
    <3>1. CASE v \in Vals /\ isend(p, a, n, v, qs)
      <4>1. settle(p, a, n, v, h, k, v) /\ buf' = buf
        BY <3>1, Zenon DEF isend, k, h
      <4> QED
        BY <1>0, <3>1, <4>1 DEF TypeOK
    <3>2. CASE a[n][1] = "recv" /\ irecv(p, a, n, qs)
      <4> DEFINE b == IF Cap[c] = 0 THEN <<cell[h]>> ELSE Append(buf[c], cell[h])
      <4>1. /\ settle(p, a, n, Head(b), h, k, cell[h])
            /\ buf' = [buf EXCEPT ![c] = Tail(b)]
        BY <3>2, Zenon DEF irecv, k, h, c
      <4>2. b \in Seq(Vals) /\ b # << >>
        <5>1. buf[c] \in Seq(Vals) /\ cell[h] \in Vals
          BY <1>0, <1>1, <2>7, <3>2 DEF TypeOK
        <5>2. /\ Append(buf[c], cell[h]) \in Seq(Vals)
              /\ Len(Append(buf[c], cell[h])) = Len(buf[c]) + 1
              /\ Len(buf[c]) \in Nat
          BY <5>1, AppendFacts
        <5>3. Append(buf[c], cell[h]) # << >>
          <6> DEFINE z == Append(buf[c], cell[h])
          <6>1. Len(z) = Len(buf[c]) + 1 /\ Len(buf[c]) \in Nat
            BY <5>2
          <6> HIDE DEF z
          <6>2. z # << >>
            BY <6>1
          <6> QED
            BY <6>2 DEF z
        <5>4. <<cell[h]>> \in Seq(Vals) /\ <<cell[h]>> # << >>
          BY <5>1
        <5> QED
          BY <5>2, <5>3, <5>4
      <4> HIDE DEF b
      <4>3. Head(b) \in Vals /\ Tail(b) \in Seq(Vals)
        BY <4>2, TailFacts
      <4> QED
        BY <1>0, <1>1, <2>7, <3>2, <4>1, <4>3 DEF TypeOK
    <3> QED
      BY <1>5, <3>1, <3>2
  <2>9. PICK w \in Vals, u \in Vals : settle(p, a, n, w, h, k, u)
    BY <2>8
  <2> DEFINE m == told(h, k)
  <2>10. m \in Nat
    <3>1. PICK i \in 1 .. Len(op[h]) : op[h][i] = k
      BY <2>3 DEF In
    <3>2. Len(op[h]) \in Nat
      BY <1>0, <2>2 DEF TypeOK
    <3>3. m \in 1 .. Len(op[h])
      BY <3>1, Zenon DEF told
    <3> QED
      BY <3>2, <3>3
  <2> HIDE DEF m
  <2>11. /\ op' = oo
         /\ result' = [result EXCEPT ![p] = n, ![h] = m]
         /\ cell' = [cell EXCEPT ![p] = w, ![h] = u]
         /\ ptr' = [ptr EXCEPT ![h] = FALSE]
         /\ addrun(h)
    BY <2>9 DEF settle, oo, m
  <2>12. \/ /\ addrunset[h]
            /\ state[h] \in {"release", "exiting"}
            /\ addrunset' = [addrunset EXCEPT ![h] = FALSE]
            /\ pc' = [pc EXCEPT ![h] = IF pc[h] = "asleep" THEN "back" ELSE pc[h]]
            /\ state' = state
         \/ /\ ~addrunset[h] /\ pc[h] = "run"
            /\ state' = [state EXCEPT ![h] = "ready"]
            /\ UNCHANGED <<addrunset, pc>>
    BY <1>0, <2>2, <2>3, <2>11 DEF addrun, Held, Waiting
  <2>13. TypeOK'
    <3>1. q' \in [Cases -> Seq(Progs)]
      <4>1. q' = [j \in Cases |-> q'[j]]
        BY <2>1 DEF altdone
      <4> QED
        BY <2>6, <4>1, QueuesTyped
    <3>2. /\ cell' \in [Progs -> Vals \cup {None}] /\ result' \in [Progs -> Nat \cup {None}]
          /\ ptr' \in [Progs -> BOOLEAN]
      BY <1>0, <1>1, <2>10, <2>11 DEF TypeOK
    <3>3. /\ state' \in [Progs -> States] /\ addrunset' \in [Progs -> BOOLEAN]
          /\ pc' \in [Progs -> Places]
      <4>1. /\ state \in [Progs -> States] /\ addrunset \in [Progs -> BOOLEAN]
            /\ pc \in [Progs -> Places]
        BY <1>0 DEF TypeOK, States, Places
      <4>2. "ready" \in States /\ "back" \in Places
        BY DEF States, Places
      <4> QED
        BY <2>2, <2>12, <4>1, <4>2
    <3> QED
      BY <1>0, <1>2, <1>3, <2>8, <2>11, <3>1, <3>2, <3>3 DEF TypeOK, States, Places
  <2>14. Held(h)' /\ ~Waiting(h)'
    <3>1. ptr'[h] = FALSE
      BY <1>0, <2>2, <2>11 DEF TypeOK
    <3>2. CASE addrunset[h]
      <4>1. /\ state'[h] = state[h] /\ state[h] \in {"release", "exiting"}
            /\ addrunset'[h] = FALSE
            /\ pc'[h] \in {pc[h], "back"}
            /\ pc[h] # "run"
        BY <1>0, <2>2, <2>12, <3>2 DEF TypeOK, Held
      <4> QED
        BY <3>1, <4>1 DEF Held, Waiting
    <3>3. CASE ~addrunset[h]
      <4>1. state'[h] = "ready" /\ addrunset'[h] = FALSE /\ pc'[h] = "run"
        BY <1>0, <2>2, <2>12, <3>3 DEF TypeOK
      <4> QED
        BY <3>1, <4>1 DEF Held, Waiting
    <3> QED
      BY <3>2, <3>3
  <2>15. ASSUME NEW x \in Progs, x # h PROVE Same(x)
    <3>1. state'[x] = state[x] /\ addrunset'[x] = addrunset[x] /\ pc'[x] = pc[x]
      BY <1>0, <2>12, <2>15 DEF TypeOK
    <3>2. ptr'[x] = ptr[x] /\ (x # p => op'[x] = op[x] /\ cell'[x] = cell[x])
      BY <1>0, <1>2, <2>11, <2>15 DEF TypeOK
    <3> QED
      BY <1>0, <1>3, <3>1, <3>2 DEF Same
  <2>16. Waiters' = (V \ {h}) \ {p}
    <3>1. \A x \in Progs : x # h => (Waiting(x)' <=> Waiting(x))
      BY <2>15 DEF Same, Waiting
    <3> QED
      BY <1>0, <2>14, <3>1 DEF Waiters
  <2>17. Lists(q, Waiters, op)'
    BY <2>6, <2>11, <2>16, ListsPrime
  <2>18. \A x \in Progs : Held(x)'
    BY <1>0, <2>14, <2>15, SameHeld
  <2>19. Fewer
    BY <1>0, <1>2, <2>11, <2>16 DEF Fewer, Waiters
  <2> QED
    BY <2>13, <2>17, <2>18, <2>19 DEF WaitInv
<1>6. a[n][1] = "send" /\ v # None => v \in Vals
  OBVIOUS
<1> QED
  BY <1>4, <1>5, <1>6 DEF Communicate

-----------------------------------------------------------------------------
(* The marks of an alt.                                                     *)

LEMMA MarkedFacts ==
    ASSUME TypeOK, NEW p \in Progs, NEW a \in Seq(Cases), ~exAlt(a),
           \A k \in Cases : ~In(p, q[k])
    PROVE  \A k \in Cases : Marked(p, a)[k] = IF In(k, a) THEN Append(q[k], p) ELSE q[k]
<1> DEFINE recvs == [k \in Cases |-> IF k[1] = "recv" /\ (\E n \in 1 .. Len(a) : a[n] = k)
                                     THEN Append(q[k], p) ELSE q[k]]
<1> SUFFICES ASSUME NEW k \in Cases
             PROVE  Marked(p, a)[k] = IF In(k, a) THEN Append(q[k], p) ELSE q[k]
  OBVIOUS
<1>1. Marked(p, a)[k] = IF /\ k[1] = "send" /\ In(k, a)
                           /\ recvs[Opposite(k)] = << >> \/ Head(recvs[Opposite(k)]) # p
                        THEN Append(q[k], p) ELSE recvs[k]
  BY DEF Marked, In
<1>2. \A j \in Cases : recvs[j] = IF j[1] = "recv" /\ In(j, a) THEN Append(q[j], p) ELSE q[j]
  BY DEF In
<1> HIDE DEF recvs
<1>3. k[1] = "send" \/ k[1] = "recv"
  BY DEF Cases, Dirs
<1>4. CASE k[1] = "send" /\ In(k, a)
  <2> DEFINE j == Opposite(k)
  <2>1. j \in Cases /\ q[j] \in Seq(Progs) /\ ~In(p, q[j])
    BY OppositeCase DEF TypeOK
  <2>2. In(j, a) => q[j] # << >>
    <3>1. PICK m \in 1 .. Len(a) : a[m] = k
      BY <1>4 DEF In
    <3>2. \A n \in 1 .. Len(a) : a[n] = j => q[j] # << >>
      BY <1>4, <3>1 DEF exAlt
    <3> QED
      BY <3>2 DEF In
  <2>3. q[j] # << >> => Head(q[j]) # p /\ Head(Append(q[j], p)) = Head(q[j])
    <3>1. q[j] # << >> => Head(q[j]) = q[j][1] /\ 1 \in 1 .. Len(q[j])
      BY <2>1, TailFacts
    <3> QED
      BY <2>1, <3>1, AppendBehind DEF In
  <2> HIDE DEF j
  <2>4. recvs[j] = << >> \/ Head(recvs[j]) # p
    BY <1>2, <2>1, <2>2, <2>3
  <2> QED
    BY <1>1, <1>4, <2>4 DEF j
<1>5. CASE ~(k[1] = "send" /\ In(k, a))
  <2>1. Marked(p, a)[k] = recvs[k]
    BY <1>1, <1>5, Zenon
  <2> QED
    BY <1>2, <1>3, <1>5, <2>1
<1> QED
  BY <1>4, <1>5

\* altcomm picks one of the cases: the marks make none less ready.
LEMMA PicksFacts ==
    ASSUME TypeOK, NEW p \in Progs, NEW a \in Seq(Cases), ~exAlt(a),
           \A k \in Cases : ~In(p, q[k])
    PROVE  Picks(p, a) \subseteq 1 .. Len(a)
<1> DEFINE N == 1 .. Len(a)
           s == [n \in 1 .. Len(a) |-> n]
           D == {n \in 1 .. Len(a) : ~Ready(q, a[n])}
           E == {n \in 1 .. Len(a) : ~Ready(Marked(p, a), a[n])}
<1>1. s \in Seq(N) /\ \A n \in N : a[n] \in Cases
  OBVIOUS
<1>2. E \subseteq D
  <2> SUFFICES ASSUME NEW n \in N, Ready(q, a[n]) PROVE Ready(Marked(p, a), a[n])
    OBVIOUS
  <2> DEFINE j == Opposite(a[n])
  <2>1. j \in Cases /\ q[j] \in Seq(Progs)
    BY <1>1, OppositeCase DEF TypeOK
  <2>2. q[j] # << >> => Marked(p, a)[j] # << >>
    <3>1. Marked(p, a)[j] = IF In(j, a) THEN Append(q[j], p) ELSE q[j]
      BY <2>1, MarkedFacts
    <3>2. q[j] # << >> => Append(q[j], p) # << >>
      BY <2>1, AppendBehind
    <3> QED
      BY <3>1, <3>2
  <2> QED
    BY <2>2 DEF Ready
<1>3. Len(Without(s, D)) <= Len(Without(s, E)) /\ Without(s, E) \in Seq(N)
  <2> HIDE DEF s, D, E, N
  <2> QED
    BY <1>1, <1>2, WithoutFacts, WithoutLess
<1>4. Without(s, D) \in Seq(N)
  <2> HIDE DEF s, D, E, N
  <2> QED
    BY <1>1, WithoutFacts
<1>5. Picks(p, a) = {Without(s, E)[i] : i \in 1 .. Len(Without(s, D))}
  BY DEF Picks, ReadyCases, nrdy
<1> HIDE DEF s, D, E
<1>6. Len(Without(s, D)) \in Nat /\ Len(Without(s, E)) \in Nat
  BY <1>3, <1>4
<1>7. \A i \in 1 .. Len(Without(s, D)) : Without(s, E)[i] \in N
  BY <1>3, <1>6
<1> QED
  BY <1>5, <1>7

LEMMA AltCases == \A a \in Alts : a \in Seq(Cases)
BY DisChanAssumption DEF Cases, Dirs

\* What is sent is a value.
LEMMA SendableFacts ==
    ASSUME NEW a, NEW v \in Sendable(a)
    PROVE  /\ v \in Vals \cup {None}
           /\ (\E c \in Chans : In(<<"send", c>>, a)) => v \in Vals
<1>1. (\E c \in Chans : In(<<"send", c>>, a)) => \E n \in 1 .. Len(a) : a[n][1] = "send"
  BY DEF In
<1> QED
  BY <1>1 DEF Sendable

-----------------------------------------------------------------------------
(* The other steps.                                                         *)

\* A step whose queues are right, and that changes no Progs but some that hold
\* what they should.
LEMMA WaitKept ==
    ASSUME WaitInv, TypeOK', \A x \in Progs : Held(x)' \/ Same(x),
           Lists(q', Waiters', op')
    PROVE  WaitInv'
BY SameHeld, ListsPrime DEF WaitInv

LEMMA SameWaiters ==
    ASSUME \A x \in Progs : Waiting(x)' <=> Waiting(x) PROVE Waiters' = Waiters
BY DEF Waiters

\* p waits for the cases of a, in Dis or as a kproc.
LEMMA JoinKeeps ==
    ASSUME WaitInv, NEW p \in Progs, state[p] = "ready", NEW a \in Seq(Cases),
           \A k \in Cases : q'[k] = IF In(k, a) THEN Append(q[k], p) ELSE q[k],
           q' = [k \in Cases |-> q'[k]],
           op' = [op EXCEPT ![p] = a],
           \E v \in Sendable(a) : cell' = [cell EXCEPT ![p] = v],
           UNCHANGED <<kill, buf, result, excepting>>,
           NEW st, state' = [state EXCEPT ![p] = st],
           \/ /\ st = "alt" \/ (st \in {"send", "recv"} /\ \E k \in Cases : a = <<k>>)
              /\ UNCHANGED kproc
           \/ /\ st = "release" /\ \E k \in Cases : a = <<k>>
              /\ ptr' = [ptr EXCEPT ![p] = TRUE]
              /\ addrunset' = [addrunset EXCEPT ![p] = TRUE]
              /\ pc' = [pc EXCEPT ![p] = "released"]
    PROVE  WaitInv'
<1> DEFINE oo == [op EXCEPT ![p] = a]
<1>0. /\ TypeOK /\ Lists(q, Waiters, op) /\ \A x \in Progs : Held(x)
      /\ ~addrunset[p] /\ ~ptr[p] /\ pc[p] = "run" /\ p \notin Waiters
  BY ReadyIdle DEF WaitInv, Waiters
<1>1. /\ oo \in [Progs -> Seq(Cases)] /\ oo[p] = a
      /\ \A x \in Progs : x # p => oo[x] = op[x]
  BY <1>0 DEF TypeOK
<1> HIDE DEF oo
<1>2. PICK v \in Sendable(a) : cell' = [cell EXCEPT ![p] = v]
  OBVIOUS
<1>3. v \in Vals \cup {None} /\ ((\E c \in Chans : In(<<"send", c>>, a)) => v \in Vals)
  BY SendableFacts
<1>4. Lists(q, Waiters, oo)
  BY <1>0, <1>1, ListsOthers DEF Waiters
<1>5. Lists(q', Waiters \cup {p}, oo)
  <2>1. \A k \in Cases : q'[k] = IF In(k, oo[p]) THEN Append(q[k], p) ELSE q[k]
    BY <1>1
  <2> QED
    BY <1>0, <1>4, <2>1, ListsJoin
<1>6. /\ state'[p] = st /\ op'[p] = a /\ cell'[p] = v
      /\ ptr'[p] = (st = "release") /\ addrunset'[p] = (st = "release")
      /\ pc'[p] = IF st = "release" THEN "released" ELSE "run"
  <2>1. state'[p] = st /\ op'[p] = a /\ cell'[p] = v
    BY <1>0, <1>1, <1>2 DEF TypeOK, oo
  <2>2. CASE st # "release"
    <3>1. UNCHANGED kproc
      BY <2>2
    <3>2. ptr'[p] = ptr[p] /\ addrunset'[p] = addrunset[p] /\ pc'[p] = pc[p]
      BY <3>1 DEF kproc
    <3>3. ptr[p] \in BOOLEAN /\ addrunset[p] \in BOOLEAN
      BY <1>0 DEF TypeOK
    <3> QED
      BY <1>0, <2>1, <2>2, <3>2, <3>3
  <2>3. CASE st = "release"
    <3>1. /\ ptr' = [ptr EXCEPT ![p] = TRUE]
          /\ addrunset' = [addrunset EXCEPT ![p] = TRUE]
          /\ pc' = [pc EXCEPT ![p] = "released"]
      BY <2>3
    <3> QED
      BY <1>0, <2>1, <2>3, <3>1 DEF TypeOK
  <2> QED
    BY <2>2, <2>3
<1>7. \A x \in Progs \ {p} : Same(x)
  <2> SUFFICES ASSUME NEW x \in Progs, x # p PROVE Same(x)
    OBVIOUS
  <2>1. /\ state'[x] = state[x] /\ op'[x] = op[x] /\ cell'[x] = cell[x]
        /\ ptr'[x] = ptr[x] /\ addrunset'[x] = addrunset[x] /\ pc'[x] = pc[x]
    BY <1>0, <1>2 DEF TypeOK, kproc
  <2> QED
    BY <2>1 DEF Same
<1>8. st \in {"alt", "send", "recv", "release"} /\ (st # "alt" => \E k \in Cases : a = <<k>>)
  OBVIOUS
<1>9. Held(p)' /\ Waiting(p)'
  BY <1>3, <1>6, <1>8 DEF Held, Waiting
<1>10. Waiters' = Waiters \cup {p}
  BY <1>0, <1>7, <1>9 DEF Waiters, Waiting, Same
<1>11. TypeOK'
  <2>1. q' \in [Cases -> Seq(Progs)]
    BY <1>5, QueuesTyped
  <2>2. /\ ptr' \in [Progs -> BOOLEAN] /\ addrunset' \in [Progs -> BOOLEAN]
        /\ pc' \in [Progs -> Places]
    BY <1>0 DEF TypeOK, kproc, Places
  <2>3. /\ state' \in [Progs -> States] /\ cell' \in [Progs -> Vals \cup {None}]
    BY <1>0, <1>2, <1>3, <1>8 DEF TypeOK, States
  <2> QED
    BY <1>0, <1>1, <2>1, <2>2, <2>3 DEF TypeOK, States, Places, oo
<1> QED
  <2>1. Lists(q', Waiters', op')
    BY <1>5, <1>10 DEF oo
  <2>2. \A x \in Progs : Held(x)' \/ Same(x)
    BY <1>7, <1>9
  <2> QED
    BY <1>11, <2>1, <2>2, WaitKept

\* p's operation is over and p is on no queue.
LEMMA LeaveKeeps ==
    ASSUME WaitInv, NEW p \in Progs, Over(p),
           Lists(q', Waiters \ {p}, op), q' = [k \in Cases |-> q'[k]],
           state' \in [Progs -> States], kill' \in [Progs -> Kills],
           ptr' \in [Progs -> BOOLEAN], addrunset' \in [Progs -> BOOLEAN],
           pc' \in [Progs -> Places], UNCHANGED <<buf, excepting>>,
           ~addrunset'[p], ~ptr'[p], pc'[p] = "run", state'[p] \in {"ready", "dead"},
           \A x \in Progs : x # p =>
              /\ state'[x] = state[x] /\ ptr'[x] = ptr[x] /\ kill'[x] = kill[x]
              /\ addrunset'[x] = addrunset[x] /\ pc'[x] = pc[x]
    PROVE  WaitInv' /\ Fewer
<1>0. TypeOK /\ Lists(q, Waiters, op) /\ \A x \in Progs : Held(x)
  BY DEF WaitInv
<1>1. /\ op' \in [Progs -> Seq(Cases)] /\ cell' \in [Progs -> Vals \cup {None}]
      /\ result' \in [Progs -> Nat \cup {None}]
  BY <1>0 DEF Over, TypeOK
<1>2. \A x \in Progs : x # p => op'[x] = op[x] /\ cell'[x] = cell[x]
  BY <1>0 DEF Over, TypeOK
<1>3. q' \in [Cases -> Seq(Progs)]
  BY QueuesTyped
<1>4. TypeOK'
  BY <1>0, <1>1, <1>3 DEF TypeOK, States, Places, Kills
<1>5. \A x \in Progs \ {p} : Same(x)
  BY <1>2 DEF Same
<1>6. Held(p)' /\ ~Waiting(p)'
  BY DEF Held, Waiting
<1>7. Waiters' = Waiters \ {p}
  BY <1>5, <1>6 DEF Waiters, Waiting, Same
<1>8. Lists(q', Waiters', op')
  <2>1. \A x \in Waiters \ {p} : op'[x] = op[x]
    BY <1>2 DEF Waiters
  <2>2. Lists(q', Waiters \ {p}, op')
    BY <2>1, ListsOthers
  <2> QED
    BY <1>7, <2>2
<1>9. \A x \in Progs : Held(x)' \/ Same(x)
  BY <1>5, <1>6
<1>10. Fewer
  BY <1>2, <1>7 DEF Fewer, Waiters
<1> QED
  BY <1>4, <1>8, <1>9, <1>10, WaitKept

\* A step of a kproc that moves it on without communicating.
LEMMA MoveKeeps ==
    ASSUME WaitInv, NEW p \in Progs, UNCHANGED <<q, buf, op, cell, result, ptr, addrunset>>,
           state' \in [Progs -> States], kill' \in [Progs -> Kills],
           pc' \in [Progs -> Places], excepting' \in Progs \cup {None},
           ~Waiting(p)' <=> ~Waiting(p), Held(p)',
           \A x \in Progs : x # p =>
              /\ state'[x] = state[x] /\ pc'[x] = pc[x] /\ kill'[x] = kill[x]
    PROVE  WaitInv'
<1>1. \A x \in Progs : Held(x)' \/ Same(x)
  BY DEF Same
<1>2. \A x \in Progs : Waiting(x)' <=> Waiting(x)
  BY DEF Waiting
<1>3. Waiters' = Waiters
  BY <1>2, SameWaiters
<1>4. TypeOK'
  BY DEF WaitInv, TypeOK, States, Kills, Places
<1>5. Lists(q', Waiters', op')
  BY <1>3 DEF WaitInv
<1> QED
  BY <1>1, <1>4, <1>5, WaitKept

\* A hangup: those on the queues of c wait no more.
LEMMA HangupKeeps ==
    ASSUME WaitInv, NEW c \in Chans, freechan(c) PROVE WaitInv' /\ Fewer
<1> DEFINE W == Waiters \ On(c)
<1>0. TypeOK /\ Lists(q, Waiters, op) /\ \A x \in Progs : Held(x)
  BY DEF WaitInv
<1>1. \A x \in Progs : x \in On(c) <=> x \in Waiters /\ \E d \in Dirs : In(<<d, c>>, op[x])
  <2>1. \A x \in Progs : x \in On(c) <=> \E d \in Dirs : In(x, q[<<d, c>>])
    BY DEF On, Contains, In
  <2>2. \A d \in Dirs : <<d, c>> \in Cases
    BY DEF Cases
  <2> QED
    BY <1>0, <2>1, <2>2 DEF Lists
<1>2. Lists(q', W, op)
  <2> SUFFICES ASSUME NEW k \in Cases
               PROVE  /\ q'[k] \in Seq(Progs)
                      /\ Distinct(q'[k])
                      /\ \A x \in Progs : In(x, q'[k]) <=> x \in W /\ In(k, op[x])
    BY Zenon DEF Lists
  <2>1. /\ q[k] \in Seq(Progs) /\ Distinct(q[k])
        /\ \A x \in Progs : In(x, q[k]) <=> x \in Waiters /\ In(k, op[x])
    BY <1>0 DEF Lists
  <2>2. q'[k] = IF k[2] = c THEN << >> ELSE Without(q[k], On(c))
    BY DEF freechan, Others
  <2>3. CASE k[2] = c
    <3>1. k[1] \in Dirs /\ k = <<k[1], c>>
      BY <2>3 DEF Cases
    <3>2. \A x \in W : x \in Progs /\ ~In(k, op[x])
      BY <1>1, <3>1 DEF Waiters
    <3>3. << >> \in Seq(Progs) /\ Distinct(<< >>) /\ \A x \in Progs : ~In(x, << >>)
      BY DEF Distinct, In
    <3> QED
      BY <2>2, <2>3, <3>2, <3>3
  <2>4. CASE k[2] # c
    <3>1. /\ Without(q[k], On(c)) \in Seq(Progs)
          /\ Distinct(Without(q[k], On(c)))
          /\ \A x : In(x, Without(q[k], On(c))) <=> In(x, q[k]) /\ x \notin On(c)
      BY <2>1, WithoutFacts
    <3> QED
      BY <2>1, <2>2, <2>4, <3>1
  <2> QED
    BY <2>3, <2>4
<1>3. ASSUME NEW x \in Progs
      PROVE  /\ x \notin On(c) => Same(x)
             /\ x \in On(c) => Held(x)' /\ ~Waiting(x)'
  <2>1. /\ ptr'[x] = (ptr[x] /\ x \notin On(c))
        /\ kill'[x] = IF x \in On(c) /\ state[x] \in {"alt", "send", "recv"}
                      THEN "exception" ELSE kill[x]
        /\ state'[x] = IF x \in On(c) /\ state[x] \in {"alt", "send", "recv"}
                       THEN "ready" ELSE state[x]
        /\ pc'[x] = IF x \in On(c) /\ state[x] = "release" /\ pc[x] = "asleep"
                    THEN "eintr" ELSE pc[x]
        /\ addrunset'[x] = addrunset[x]
    BY DEF freechan
  <2>2. x \notin On(c) => op'[x] = op[x] /\ cell'[x] = cell[x]
    BY DEF freechan
  <2>3. x \notin On(c) => Same(x)
    BY <1>0, <2>1, <2>2 DEF Same, TypeOK
  <2>4. ASSUME x \in On(c), state[x] \in {"alt", "send", "recv"} PROVE Held(x)' /\ ~Waiting(x)'
    <3>1. ~addrunset[x] /\ ~ptr[x] /\ pc[x] = "run"
      BY <1>0, <2>4, ReadyIdle
    <3>2. ~addrunset'[x] /\ ~ptr'[x] /\ pc'[x] = "run" /\ state'[x] = "ready"
      BY <2>1, <2>4, <3>1
    <3> QED
      BY <3>2 DEF Held, Waiting
  <2>5. ASSUME x \in On(c), state[x] \notin {"alt", "send", "recv"} PROVE Held(x)' /\ ~Waiting(x)'
    <3>1. ~ptr'[x] /\ state'[x] = state[x] /\ kill'[x] = kill[x]
          /\ pc'[x] \in {pc[x], "eintr"} /\ (pc[x] = "run" => pc'[x] = "run")
      BY <2>1, <2>5
    <3> QED
      BY <1>0, <2>1, <2>5, <3>1 DEF Held, Waiting
  <2> QED
    BY <2>3, <2>4, <2>5
<1>4. Waiters' = W
  BY <1>3 DEF Waiters, Waiting, Same
<1>5. Lists(q', Waiters', op')
  <2>1. \A x \in W : op'[x] = op[x]
    BY DEF freechan, Waiters
  <2>2. Lists(q', W, op')
    BY <1>2, <2>1, ListsOthers
  <2> QED
    BY <1>4, <2>2
<1>6. TypeOK'
  <2>1. q' \in [Cases -> Seq(Progs)]
    <3>1. q' = [k \in Cases |-> q'[k]]
      BY DEF freechan, Others
    <3> QED
      BY <1>2, <3>1, QueuesTyped
  <2>2. buf' \in [Chans -> Seq(Vals)]
    BY <1>0 DEF TypeOK, freechan
  <2>3. state' \in [Progs -> States] /\ kill' \in [Progs -> Kills] /\ pc' \in [Progs -> Places]
    BY <1>0 DEF TypeOK, freechan, States, Kills, Places
  <2>4. /\ op' \in [Progs -> Seq(Cases)] /\ cell' \in [Progs -> Vals \cup {None}]
        /\ ptr' \in [Progs -> BOOLEAN] /\ UNCHANGED <<result, addrunset, excepting>>
    BY <1>0 DEF TypeOK, freechan
  <2> QED
    BY <1>0, <2>1, <2>2, <2>3, <2>4 DEF TypeOK, States, Kills, Places
<1>7. \A x \in Progs : Held(x)' \/ Same(x)
  BY <1>3
<1>8. Fewer
  BY <1>4 DEF Fewer, freechan, Waiters
<1> QED
  BY <1>5, <1>6, <1>7, <1>8, WaitKept

-----------------------------------------------------------------------------
(* The theorem.                                                             *)

LEMMA ImmediateKeeps ==
    ASSUME WaitInv, NEW p \in Progs, NEW k \in Cases, Immediate(p, k) PROVE WaitInv' /\ Fewer
<1> DEFINE a == <<k>>
<1>1. PICK v \in Sendable(a) : Communicate(p, a, 1, v, q)
  BY DEF Immediate
<1>2. state[p] = "ready" /\ TypeOK /\ Lists(q, Waiters, op) /\ q \in [Cases -> Seq(Progs)]
  BY DEF Immediate, Runs, WaitInv, TypeOK
<1>3. a \in Seq(Cases) /\ 1 \in 1 .. Len(a)
  OBVIOUS
<1> HIDE DEF a
<1>4. p \notin Waiters
  BY <1>2, ReadyIdle DEF WaitInv, Waiters
<1>5. \A x \in Waiters : [op EXCEPT ![p] = a][x] = op[x]
  BY <1>2, <1>4 DEF Waiters, TypeOK
<1>6. Lists(q, Waiters, [op EXCEPT ![p] = a])
  BY <1>2, <1>5, ListsOthers
<1>7. v \in Vals \cup {None}
  BY SendableFacts
<1> QED
  BY <1>1, <1>2, <1>3, <1>6, <1>7, CommunicateKeeps

LEMMA AltcommKeeps ==
    ASSUME WaitInv, NEW p \in Progs, NEW a \in Alts, altcomm(p, a) PROVE WaitInv' /\ Fewer
<1> DEFINE qs == Marked(p, a)
           oo == [op EXCEPT ![p] = a]
<1>1. PICK n \in Picks(p, a), v \in Sendable(a) : Communicate(p, a, n, v, qs)
  BY DEF altcomm
<1>2. /\ state[p] = "ready" /\ TypeOK /\ Lists(q, Waiters, op) /\ ~exAlt(a)
      /\ p \notin Waiters
  BY ReadyIdle DEF altcomm, Runs, WaitInv, Waiters
<1>3. a \in Seq(Cases)
  BY AltCases
<1>4. \A k \in Cases : ~In(p, q[k])
  BY <1>2 DEF Lists
<1>5. n \in 1 .. Len(a)
  BY <1>2, <1>3, <1>4, PicksFacts
<1>6. Lists(q, Waiters, oo) /\ oo[p] = a
  <2>1. \A x \in Waiters : oo[x] = op[x]
    BY <1>2 DEF Waiters, TypeOK
  <2>2. oo[p] = a
    BY <1>2 DEF TypeOK
  <2> HIDE DEF oo
  <2> QED
    BY <1>2, <2>1, <2>2, ListsOthers
<1>7. Lists(qs, Waiters \cup {p}, oo)
  <2> HIDE DEF oo
  <2>1. \A k \in Cases : qs[k] = IF In(k, oo[p]) THEN Append(q[k], p) ELSE q[k]
    BY <1>2, <1>3, <1>4, <1>6, MarkedFacts
  <2> HIDE DEF qs
  <2> QED
    BY <1>2, <1>6, <2>1, ListsJoin
<1>8. qs \in [Cases -> Seq(Progs)]
  <2>1. qs = [k \in Cases |-> qs[k]]
    BY DEF Marked
  <2> HIDE DEF qs
  <2> QED
    BY <1>7, <2>1, QueuesTyped
<1>9. v \in Vals \cup {None}
  BY SendableFacts
<1> HIDE DEF qs
<1>10. Waiters \subseteq Waiters \cup {p} /\ Waiters \cup {p} \subseteq Waiters \cup {p}
  OBVIOUS
<1> QED
  BY <1>1, <1>2, <1>3, <1>5, <1>7, <1>8, <1>9, <1>10, CommunicateKeeps

LEMMA BlockKeeps ==
    ASSUME WaitInv, NEW p \in Progs, NEW k \in Cases, Block(p, k) \/ ccom(p, k) PROVE WaitInv'
<1> DEFINE a == <<k>>
<1>1. state[p] = "ready" /\ TypeOK
  BY DEF Block, ccom, Runs, WaitInv
<1>2. a \in Seq(Cases) /\ \A j : In(j, a) <=> j = k
  BY DEF In
<1>3. q' = cqadd(q, k, p)
  BY DEF Block, ccom
<1>4. \A j \in Cases : q'[j] = IF In(j, a) THEN Append(q[j], p) ELSE q[j]
  BY <1>1, <1>2, <1>3 DEF cqadd, TypeOK
<1>5. q' = [j \in Cases |-> q'[j]]
  BY <1>1, <1>3 DEF cqadd, TypeOK
<1>6. /\ op' = [op EXCEPT ![p] = a]
      /\ \E v \in Sendable(a) : cell' = [cell EXCEPT ![p] = v]
      /\ UNCHANGED <<kill, buf, result, excepting>>
  BY DEF Block, ccom
<1>7. \E j \in Cases : a = <<j>>
  OBVIOUS
<1> HIDE DEF a
<1>8. CASE Block(p, k)
  <2>1. k[1] \in {"send", "recv"}
    BY DEF Cases, Dirs
  <2>2. state' = [state EXCEPT ![p] = k[1]] /\ UNCHANGED kproc
    BY <1>8 DEF Block
  <2> QED
    BY <1>1, <1>2, <1>4, <1>5, <1>6, <1>7, <2>1, <2>2, JoinKeeps
<1>9. CASE ccom(p, k)
  <2>1. /\ state' = [state EXCEPT ![p] = "release"]
        /\ ptr' = [ptr EXCEPT ![p] = TRUE]
        /\ addrunset' = [addrunset EXCEPT ![p] = TRUE]
        /\ pc' = [pc EXCEPT ![p] = "released"]
    BY <1>9 DEF ccom
  <2> QED
    BY <1>1, <1>2, <1>4, <1>5, <1>6, <1>7, <2>1, JoinKeeps
<1> QED
  BY <1>8, <1>9

LEMMA AltBlockKeeps ==
    ASSUME WaitInv, NEW p \in Progs, NEW a \in Alts, altBlock(p, a) PROVE WaitInv'
<1>1. /\ state[p] = "ready" /\ TypeOK /\ Lists(q, Waiters, op) /\ ~exAlt(a)
      /\ p \notin Waiters
  BY ReadyIdle DEF altBlock, Runs, WaitInv, Waiters
<1>2. a \in Seq(Cases)
  BY AltCases
<1>3. \A k \in Cases : ~In(p, q[k])
  BY <1>1 DEF Lists
<1>4. q' = Marked(p, a)
  BY DEF altBlock
<1>5. \A j \in Cases : q'[j] = IF In(j, a) THEN Append(q[j], p) ELSE q[j]
  BY <1>1, <1>2, <1>3, <1>4, MarkedFacts
<1>6. q' = [j \in Cases |-> q'[j]]
  BY <1>4 DEF Marked
<1>7. /\ op' = [op EXCEPT ![p] = a]
      /\ \E v \in Sendable(a) : cell' = [cell EXCEPT ![p] = v]
      /\ UNCHANGED <<kill, buf, result, excepting>>
      /\ UNCHANGED kproc
  BY DEF altBlock
<1>8. PICK st : st = "alt" /\ state' = [state EXCEPT ![p] = st]
  BY DEF altBlock
<1>9. /\ st = "alt" \/ (st \in {"send", "recv"} /\ \E k \in Cases : a = <<k>>)
      /\ UNCHANGED kproc
  BY <1>7, <1>8
<1>10. state' = [state EXCEPT ![p] = st] /\ state[p] = "ready"
  BY <1>1, <1>8
<1> QED
  BY <1>2, <1>5, <1>6, <1>7, <1>9, <1>10, JoinKeeps

\* A Prog in Dis is killed, or an exception ends its wait.
LEMMA KillKeeps ==
    ASSUME WaitInv, NEW p \in Progs, killprog(p) \/ exprog(p) PROVE WaitInv' /\ Fewer
<1>1. /\ TypeOK /\ Lists(q, Waiters, op)
      /\ ~addrunset[p] /\ ~ptr[p] /\ pc[p] = "run"
      /\ p \in Waiters <=> state[p] \in {"alt", "send", "recv"}
  BY ReadyIdle DEF WaitInv, Waiters, killprog, exprog
<1>2. q' = Unqueued(p) /\ Over(p) /\ UNCHANGED <<buf, kproc, excepting>>
  BY DEF killprog, exprog
<1>3. Lists(q', Waiters \ {p}, op) /\ q' = [k \in Cases |-> q'[k]]
  <2>1. CASE state[p] \in {"alt", "send", "recv"}
    <3>1. q' = altdone(q, op[p], p)
      BY <1>2, <2>1 DEF Unqueued
    <3>2. Lists(altdone(q, op[p], p), Waiters \ {p}, op)
      BY <1>1, ListsAltdone
    <3>3. q' = [k \in Cases |-> q'[k]]
      BY <3>1 DEF altdone
    <3> QED
      BY <3>1, <3>2, <3>3
  <2>2. CASE state[p] \notin {"alt", "send", "recv"}
    <3>1. q' = q /\ Waiters \ {p} = Waiters
      BY <1>1, <1>2, <2>2 DEF Unqueued
    <3> QED
      BY <1>1, <3>1 DEF TypeOK
  <2> QED
    BY <2>1, <2>2
<1>4. \E st \in {"ready", "dead"} : state' = [state EXCEPT ![p] = st]
  BY DEF killprog, exprog
<1>5. \E u \in Kills : kill' = [kill EXCEPT ![p] = u]
  <2>1. kill[p] \in Kills /\ "exception" \in Kills /\ "nil" \in Kills
    BY <1>1 DEF TypeOK, Kills
  <2> QED
    BY <2>1 DEF killprog, exprog, Except
<1>6. /\ state' \in [Progs -> States] /\ kill' \in [Progs -> Kills]
      /\ state'[p] \in {"ready", "dead"}
      /\ \A x \in Progs : x # p => state'[x] = state[x] /\ kill'[x] = kill[x]
  BY <1>1, <1>4, <1>5 DEF TypeOK, States, Kills
<1>7. /\ UNCHANGED <<ptr, addrunset, pc, buf, excepting>>
      /\ ptr' \in [Progs -> BOOLEAN] /\ addrunset' \in [Progs -> BOOLEAN]
      /\ pc' \in [Progs -> Places]
  BY <1>1, <1>2 DEF kproc, TypeOK, Places
<1> QED
  BY <1>1, <1>2, <1>3, <1>6, <1>7, LeaveKeeps

\* A kproc in cblock goes on, or the end of its wait is undone.
LEMMA KprocKeeps ==
    ASSUME WaitInv, NEW p \in Progs,
           Sleep(p) \/ Back(p) \/ acquire(p) \/ killReleased(p) \/ exprogReleased(p)
    PROVE  WaitInv'
<1>0. /\ TypeOK /\ Lists(q, Waiters, op) /\ Held(p)
      /\ state \in [Progs -> States] /\ kill \in [Progs -> Kills]
      /\ pc \in [Progs -> Places] /\ excepting \in Progs \cup {None}
  BY DEF WaitInv, TypeOK, States, Kills, Places
<1>1. UNCHANGED <<q, buf, op, cell, result, ptr, addrunset>>
  BY DEF Sleep, Back, acquire, killReleased, exprogReleased, mine
<1>2. CASE Sleep(p) \/ Back(p)
  <2>1. PICK e \in Places \ {"run"} : pc' = [pc EXCEPT ![p] = e]
    BY <1>2 DEF Sleep, Back, Places
  <2>2. UNCHANGED <<state, kill, excepting>>
    BY <1>2 DEF Sleep, Back
  <2>3. pc'[p] = e /\ pc[p] \in {"released", "back"}
    BY <1>0, <1>2, <2>1 DEF Sleep, Back
  <2>4. Waiting(p)' <=> Waiting(p)
    BY <1>1, <2>2 DEF Waiting
  <2>5. e = "acquire" \/ (e = "back" /\ kill[p] = "nil") => ~addrunset[p]
    BY <1>0, <1>2, <2>1, <2>3 DEF Sleep, Back, Held
  <2>6. Held(p)'
    BY <1>0, <1>1, <2>1, <2>2, <2>3, <2>4, <2>5 DEF Held, In, Waiting
  <2>7. \A x \in Progs : x # p => pc'[x] = pc[x]
    BY <1>0, <2>1
  <2>8. pc' \in [Progs -> Places]
    BY <1>0, <2>1
  <2> QED
    BY <1>0, <1>1, <2>2, <2>4, <2>6, <2>7, <2>8, MoveKeeps
<1>3. CASE acquire(p)
  <2>1. /\ pc' = [pc EXCEPT ![p] = "run"] /\ state' = [state EXCEPT ![p] = "ready"]
        /\ UNCHANGED <<kill, excepting>> /\ pc[p] = "acquire"
    BY <1>3 DEF acquire
  <2>2. ~addrunset[p] /\ ~ptr[p] /\ state[p] \in {"release", "exiting"}
    BY <1>0, <2>1 DEF Held
  <2>3. ~addrunset'[p] /\ ~ptr'[p] /\ state'[p] = "ready" /\ pc'[p] = "run"
    BY <1>0, <1>1, <2>1, <2>2
  <2>4. Held(p)' /\ ~Waiting(p)' /\ ~Waiting(p)
    BY <2>2, <2>3 DEF Held, Waiting
  <2>5. /\ state' \in [Progs -> States] /\ pc' \in [Progs -> Places]
        /\ \A x \in Progs : x # p => state'[x] = state[x] /\ pc'[x] = pc[x]
    BY <1>0, <2>1 DEF States, Places
  <2> QED
    BY <1>0, <1>1, <2>1, <2>4, <2>5, MoveKeeps
<1>4. CASE killReleased(p) \/ exprogReleased(p)
  <2>1. PICK st \in {"release", "exiting"} : state' = [state EXCEPT ![p] = st]
    BY <1>0, <1>4 DEF killReleased, exprogReleased
  <2>2. PICK u \in Kills : kill' = [kill EXCEPT ![p] = u] /\ u \in {kill[p], "killed"}
    BY <1>0, <1>4 DEF killReleased, exprogReleased, Kills
  <2>3. /\ pc' = [pc EXCEPT ![p] = IF pc[p] = "asleep" THEN "eintr" ELSE pc[p]]
        /\ state[p] = "release"
    BY <1>4 DEF killReleased, exprogReleased, swiprog
  <2>4. excepting' \in Progs \cup {None}
    BY <1>0, <1>4 DEF killReleased, exprogReleased
  <2>5. /\ state'[p] = st /\ kill'[p] = u
        /\ pc'[p] \in {pc[p], "eintr"} /\ (pc[p] = "run" => pc'[p] = "run")
    BY <1>0, <2>1, <2>2, <2>3
  <2>6. Waiting(p)' <=> Waiting(p)
    BY <1>1, <2>1, <2>3, <2>5 DEF Waiting
  <2>7. Held(p)'
    <3>1. (state[p] \in {"send", "recv"} \/ ptr[p] => \E k \in Cases : op[p] = <<k>>)'
      BY <1>0, <1>1, <2>5 DEF Held
    <3>2. (Waiting(p) /\ (\E c \in Chans : In(<<"send", c>>, op[p])) => cell[p] \in Vals)'
      BY <1>0, <1>1, <2>6 DEF Held, In
    <3>3. /\ ptr'[p] => addrunset'[p]
          /\ addrunset'[p] => pc'[p] # "run"
          /\ pc'[p] # "run" => state'[p] \in {"release", "exiting"}
          /\ pc'[p] = "acquire" \/ (pc'[p] = "back" /\ kill'[p] = "nil") => ~addrunset'[p]
      BY <1>0, <1>1, <2>2, <2>5 DEF Held
    <3> QED
      BY <3>1, <3>2, <3>3 DEF Held
  <2>8. /\ state' \in [Progs -> States] /\ kill' \in [Progs -> Kills]
        /\ \A x \in Progs : x # p => state'[x] = state[x] /\ kill'[x] = kill[x]
    BY <1>0, <2>1, <2>2 DEF States
  <2>9. pc' \in [Progs -> Places] /\ \A x \in Progs : x # p => pc'[x] = pc[x]
    BY <1>0, <2>3 DEF Places
  <2> QED
    BY <1>1, <2>4, <2>6, <2>7, <2>8, <2>9, MoveKeeps
<1> QED
  BY <1>2, <1>3, <1>4

\* The error handlers of cblock and ccom.
LEMMA AcquireErrorKeeps ==
    ASSUME WaitInv, NEW p \in Progs, acquireError(p) PROVE WaitInv' /\ Fewer
<1>0. TypeOK /\ Lists(q, Waiters, op) /\ Held(p) /\ pc[p] = "eintr"
  BY DEF WaitInv, acquireError
<1>1. Lists(q', Waiters \ {p}, op) /\ q' = [k \in Cases |-> q'[k]]
  <2>1. CASE ptr[p]
    <3>1. PICK k \in Cases : op[p] = <<k>>
      BY <1>0, <2>1 DEF Held
    <3>2. q' = cqdelp(q, k, p)
      BY <2>1, <3>1 DEF acquireError
    <3>3. \A j \in Cases : (\E n \in 1 .. Len(op[p]) : op[p][n] = j) <=> j = k
      BY <3>1
    <3>4. q' = [j \in Cases |-> IF j = k THEN Without(q[j], {p}) ELSE q[j]]
      BY <1>0, <3>2 DEF cqdelp, TypeOK
    <3>5. q' = altdone(q, op[p], p)
      <4>1. \A j \in Cases : altdone(q, op[p], p)[j] = IF j = k THEN Without(q[j], {p}) ELSE q[j]
        BY <3>3 DEF altdone
      <4>2. altdone(q, op[p], p) = [j \in Cases |-> altdone(q, op[p], p)[j]]
        BY DEF altdone
      <4> QED
        BY <3>4, <4>1, <4>2
    <3>6. Lists(altdone(q, op[p], p), Waiters \ {p}, op)
      BY <1>0, ListsAltdone
    <3> QED
      BY <3>4, <3>5, <3>6
  <2>2. CASE ~ptr[p]
    <3>1. q' = q
      BY <2>2 DEF acquireError
    <3>2. p \notin Waiters
      BY <1>0, <2>2 DEF Waiters, Waiting, Held
    <3>3. Waiters \ {p} = Waiters
      BY <3>2
    <3> QED
      BY <1>0, <3>1, <3>3 DEF TypeOK
  <2> QED
    BY <2>1, <2>2
<1>2. /\ Over(p) /\ UNCHANGED <<kill, buf, excepting>>
      /\ pc' = [pc EXCEPT ![p] = "run"]
      /\ state' = [state EXCEPT ![p] = "ready"]
      /\ addrunset' = [addrunset EXCEPT ![p] = FALSE]
      /\ ptr' = [ptr EXCEPT ![p] = FALSE]
  BY DEF acquireError
<1>3. /\ state' \in [Progs -> States] /\ kill' \in [Progs -> Kills]
      /\ ptr' \in [Progs -> BOOLEAN] /\ addrunset' \in [Progs -> BOOLEAN]
      /\ pc' \in [Progs -> Places]
  BY <1>0, <1>2 DEF TypeOK, States, Kills, Places
<1>4. /\ ~addrunset'[p] /\ ~ptr'[p] /\ pc'[p] = "run" /\ state'[p] = "ready"
      /\ \A x \in Progs : x # p =>
            /\ state'[x] = state[x] /\ ptr'[x] = ptr[x] /\ kill'[x] = kill[x]
            /\ addrunset'[x] = addrunset[x] /\ pc'[x] = pc[x]
  BY <1>0, <1>2 DEF TypeOK
<1> QED
  BY <1>1, <1>2, <1>3, <1>4, LeaveKeeps

\* What a Prog that runs does without the queues.
LEMMA RunsKeeps ==
    ASSUME WaitInv, NEW p \in Progs, Proceed(p) \/ Raise(p) PROVE WaitInv' /\ Fewer
<1>0. /\ TypeOK /\ Lists(q, Waiters, op)
      /\ ~addrunset[p] /\ ~ptr[p] /\ pc[p] = "run" /\ p \notin Waiters
  BY ReadyIdle DEF WaitInv, Waiters, Proceed, Raise
<1>1. Over(p) /\ UNCHANGED <<q, buf, kproc, excepting>>
  BY DEF Proceed, Raise
<1>2. \E st \in {"ready", "dead"} : state' = [state EXCEPT ![p] = st]
  BY <1>0 DEF Proceed, Raise, TypeOK
<1>3. \E u \in Kills : kill' = [kill EXCEPT ![p] = u]
  BY <1>0 DEF Proceed, Raise, TypeOK, Kills
<1>4. /\ state' \in [Progs -> States] /\ kill' \in [Progs -> Kills]
      /\ state'[p] \in {"ready", "dead"}
      /\ \A x \in Progs : x # p => state'[x] = state[x] /\ kill'[x] = kill[x]
  BY <1>0, <1>2, <1>3 DEF TypeOK, States, Kills
<1>5. /\ UNCHANGED <<ptr, addrunset, pc, buf, excepting>>
      /\ ptr' \in [Progs -> BOOLEAN] /\ addrunset' \in [Progs -> BOOLEAN]
      /\ pc' \in [Progs -> Places]
  BY <1>0, <1>1 DEF kproc, TypeOK, Places
<1>6. Lists(q', Waiters \ {p}, op) /\ q' = [k \in Cases |-> q'[k]]
  <2>1. Waiters \ {p} = Waiters /\ q' = q
    BY <1>0, <1>1
  <2> QED
    BY <1>0, <2>1 DEF TypeOK
<1> QED
  BY <1>0, <1>1, <1>4, <1>5, <1>6, LeaveKeeps

LEMMA StateKeeps ==
    ASSUME WaitInv, NEW p \in Progs, exprogKill(p) \/ newprog(p) PROVE WaitInv'
<1>0. /\ TypeOK /\ Lists(q, Waiters, op) /\ \A x \in Progs : Held(x)
  BY DEF WaitInv
<1>1. UNCHANGED <<q, buf, mine, kproc>>
  BY DEF exprogKill, newprog
<1>2. \A x \in Progs : Held(x)' \/ Same(x)
  <2>1. CASE exprogKill(p)
    <3>1. \A x \in Progs : state'[x] = state[x] /\ (kill'[x] = kill[x] \/ kill[x] = "nil")
      BY <1>0, <2>1 DEF exprogKill, Except, TypeOK
    <3> QED
      BY <1>1, <3>1 DEF Same, mine, kproc
  <2>2. CASE newprog(p)
    <3>1. Held(p)'
      <4>1. ~addrunset[p] /\ ~ptr[p] /\ pc[p] = "run"
        BY <1>0, <2>2, ReadyIdle DEF newprog
      <4>2. ~addrunset'[p] /\ ~ptr'[p] /\ pc'[p] = "run" /\ state'[p] = "ready"
        BY <1>0, <1>1, <2>2, <4>1 DEF kproc, newprog, TypeOK
      <4> QED
        BY <4>2 DEF Held, Waiting
    <3>2. \A x \in Progs : x # p => Same(x)
      BY <1>0, <1>1, <2>2 DEF Same, mine, kproc, newprog, TypeOK
    <3> QED
      BY <3>1, <3>2
  <2> QED
    BY <2>1, <2>2
<1>3. TypeOK'
  BY <1>0, <1>1 DEF TypeOK, mine, kproc, exprogKill, newprog, Except
<1>4. Waiters' = Waiters
  <2>1. \A x \in Progs : state'[x] = state[x] \/ (state[x] = "dead" /\ state'[x] = "ready")
    <3>1. exprogKill(p) => state' = state
      BY DEF exprogKill
    <3>2. newprog(p) => state[p] = "dead" /\ state' = [state EXCEPT ![p] = "ready"]
      BY DEF newprog
    <3> QED
      BY <1>0, <3>1, <3>2 DEF TypeOK
  <2>2. \A x \in Progs : Waiting(x)' <=> Waiting(x)
    BY <1>1, <2>1 DEF Waiting, kproc
  <2> QED
    BY <2>2, SameWaiters
<1>5. Lists(q', Waiters', op')
  BY <1>0, <1>1, <1>4 DEF mine
<1> QED
  BY <1>2, <1>3, <1>5, WaitKept

\* What a step does to the waiting, by its kind: communication and the end of
\* waits, the start of a wait, and the steps that leave the queues alone.
Ends == \E p \in Progs : \/ \E k \in Cases : Immediate(p, k)
                         \/ \E a \in Alts : altcomm(p, a)
                         \/ killprog(p) \/ exprog(p) \/ acquireError(p)

Starts == \E p \in Progs : \/ \E k \in Cases : Block(p, k) \/ ccom(p, k)
                           \/ \E a \in Alts : altBlock(p, a)

Moves == \E p \in Progs : \/ Proceed(p) \/ Raise(p) \/ Sleep(p) \/ Back(p) \/ acquire(p)
                          \/ killReleased(p) \/ exprogReleased(p) \/ exprogKill(p) \/ newprog(p)

LEMMA Kinds == Next => Ends \/ Starts \/ Moves \/ \E c \in Chans : freechan(c)
BY Zenon DEF Next, Ends, Starts, Moves

LEMMA EndsKeep == WaitInv /\ Ends => WaitInv' /\ Fewer
BY ImmediateKeeps, AltcommKeeps, KillKeeps, AcquireErrorKeeps, Zenon DEF Ends

LEMMA StartsKeep == WaitInv /\ Starts => WaitInv'
BY BlockKeeps, AltBlockKeeps, Zenon DEF Starts

LEMMA MovesKeep == WaitInv /\ Moves => WaitInv'
BY RunsKeeps, KprocKeeps, StateKeeps, Zenon DEF Moves

LEMMA WaitNext == WaitInv /\ [Next]_vars => WaitInv'
<1> SUFFICES ASSUME WaitInv, [Next]_vars PROVE WaitInv'
  OBVIOUS
<1>1. CASE UNCHANGED vars
  <2>1. UNCHANGED <<state, kill, q, buf, op, cell, result, ptr, addrunset, pc, excepting>>
    BY <1>1 DEF vars, mine, kproc
  <2>2. TypeOK'
    BY <2>1 DEF WaitInv, TypeOK
  <2>3. \A x \in Progs : Same(x)
    BY <2>1 DEF Same
  <2>4. Waiters' = Waiters
    BY <2>1 DEF Waiters, Waiting
  <2>5. Lists(q', Waiters', op')
    BY <2>1, <2>4 DEF WaitInv
  <2> QED
    BY <2>2, <2>3, <2>5, WaitKept
<1>2. CASE Next
  BY <1>2, Kinds, EndsKeep, StartsKeep, MovesKeep, HangupKeeps, Zenon
<1> QED
  BY <1>1, <1>2

LEMMA WaitInit == Init => WaitInv
<1> SUFFICES ASSUME Init PROVE WaitInv
  OBVIOUS
<1>1. TypeOK
  BY DEF Init, TypeOK
<1>2. Waiters = {}
  BY DEF Init, Waiters, Waiting
<1>3. Lists(q, Waiters, op)
  BY <1>2 DEF Init, Lists, In, Distinct
<1>4. \A x \in Progs : Held(x)
  BY DEF Init, Held, Waiting
<1> QED
  BY <1>1, <1>3, <1>4 DEF WaitInv

LEMMA WaitQueued == WaitInv => Queued
<1> SUFFICES ASSUME WaitInv, NEW k \in Cases
             PROVE  /\ IsInjective(q[k])
                    /\ \A p \in Progs : Contains(q[k], p) <=> Waiting(p) /\ Contains(op[p], k)
  BY DEF Queued, WaitInv
<1>1. /\ q[k] \in Seq(Progs) /\ Distinct(q[k])
      /\ \A x \in Progs : In(x, q[k]) <=> x \in Waiters /\ In(k, op[x])
  BY DEF WaitInv, Lists
<1>2. IsInjective(q[k])
  <2>1. DOMAIN q[k] = 1 .. Len(q[k])
    BY <1>1
  <2> QED
    BY <1>1, <2>1 DEF IsInjective, Distinct
<1>3. ASSUME NEW p \in Progs
      PROVE  Contains(q[k], p) <=> Waiting(p) /\ Contains(op[p], k)
  BY <1>1 DEF Contains, In, Waiters
<1> QED
  BY <1>2, <1>3

\* The queues of the channels agree with what the Progs do: a Prog is on those
\* of the cases it waits for, once, and on no other; whatever alt, exception,
\* kill or hangup ends its wait takes it off all of them.
THEOREM ChanQueued == Spec => []Queued
<1>1. Spec => []WaitInv
  BY WaitInit, WaitNext, PTL DEF Spec
<1> QED
  BY <1>1, WaitQueued, PTL

-----------------------------------------------------------------------------
(* Nobody waits for what is there.                                          *)

\* A queue is empty when nobody is in it.
Filled(k) == q[k] # << >> <=> \E x \in Waiters : In(k, op[x])

LEMMA EmptyQueue == WaitInv => \A k \in Cases : Filled(k)
<1> SUFFICES ASSUME WaitInv, NEW k \in Cases
             PROVE  q[k] # << >> <=> \E x \in Waiters : In(k, op[x])
  BY DEF Filled
<1>1. /\ q[k] \in Seq(Progs)
      /\ \A x \in Progs : In(x, q[k]) <=> x \in Waiters /\ In(k, op[x])
  BY DEF WaitInv, Lists
<1>2. q[k] # << >> => Head(q[k]) \in Progs /\ q[k][1] = Head(q[k]) /\ 1 \in 1 .. Len(q[k])
  BY <1>1, TailFacts
<1>3. q[k] # << >> => In(Head(q[k]), q[k])
  BY <1>2 DEF In
<1>4. q[k] = << >> => \A x \in Progs : ~In(x, q[k])
  BY DEF In
<1> QED
  BY <1>1, <1>2, <1>3, <1>4 DEF Waiters

LEMMA EmptyQueueNext == WaitInv' => (\A k \in Cases : Filled(k))'
BY EmptyQueue, PTL

\* When fewer wait no queue gets its first Prog.
LEMMA FewerQueues ==
    ASSUME WaitInv, WaitInv', Fewer, NEW k \in Cases, q[k] = << >>
    PROVE  q'[k] = << >>
<1>2. ~ \E x \in Waiters : In(k, op[x])
  BY EmptyQueue DEF Filled
<1>3. \A x \in Waiters' : x \in Waiters /\ op'[x] = op[x]
  BY DEF Fewer
<1>4. q'[k] # << >> <=> \E x \in Waiters' : In(k, op'[x])
  BY EmptyQueueNext DEF Filled, In
<1>5. ~ \E x \in Waiters' : In(k, op'[x])
  <2> SUFFICES ASSUME NEW x \in Waiters', In(k, op'[x]) PROVE FALSE
    OBVIOUS
  <2>1. x \in Waiters /\ In(k, op[x])
    BY <1>3
  <2> QED
    BY <1>2, <2>1
<1> QED
  BY <1>4, <1>5

\* What there is to take and room to put, after a step.
Room(k) == IF k[1] = "send" THEN CANPUT(k[2]) ELSE CANGET(k[2])

LEMMA InVain ==
    NoneInVain <=> \A k \in Cases : q[k] # << >> => q[Opposite(k)] = << >> /\ ~Room(k)
BY DEF NoneInVain, Ready, Room

LEMMA InVainNext ==
    (\A k \in Cases : q'[k] # << >> => q'[Opposite(k)] = << >> /\ ~Room(k)') => NoneInVain'
BY DEF NoneInVain, Ready, Room

LEMMA Vain ==
    ASSUME NoneInVain, NEW k \in Cases, q[k] # << >>
    PROVE  q[Opposite(k)] = << >> /\ ~Room(k)
BY InVain

\* The end of a wait that leaves the buffers alone.
LEMMA FewerVain ==
    ASSUME WaitInv, WaitInv', Fewer, NoneInVain, NEW k \in Cases, q'[k] # << >>,
           buf'[k[2]] = buf[k[2]]
    PROVE  q'[Opposite(k)] = << >> /\ ~Room(k)'
<1>1. q[k] # << >> /\ Opposite(k) \in Cases
  BY FewerQueues, OppositeCase
<1>2. q[Opposite(k)] = << >> /\ ~Room(k)
  BY <1>1, Vain
<1>3. Room(k)' <=> Room(k)
  BY DEF Room, CANPUT, CANGET
<1> QED
  BY <1>1, <1>2, <1>3, FewerQueues

\* Communication: the buffer has room or a value when it was so, but for a
\* value that nobody waited for, or room that nobody waited for.
LEMMA CommunicateVain ==
    ASSUME WaitInv, WaitInv', Fewer, NoneInVain, NEW p \in Progs,
           NEW a \in Seq(Cases), NEW n \in 1 .. Len(a), NEW v, NEW qs,
           \A k \in Cases : q[k] # << >> => qs[k] # << >>,
           Communicate(p, a, n, v, qs)
    PROVE  NoneInVain'
<1> DEFINE c == a[n][2]
<1>1. /\ a[n] \in Cases /\ c \in Chans
      /\ <<"send", c>> \in Cases /\ <<"recv", c>> \in Cases
  BY OppositeCase DEF Cases, Dirs
<1>2. SUFFICES ASSUME NEW k \in Cases, q'[k] # << >>
               PROVE  q'[Opposite(k)] = << >> /\ ~Room(k)'
  BY InVainNext
<1>3. q[k] # << >> /\ Opposite(k) \in Cases /\ k \in {<<"send", k[2]>>, <<"recv", k[2]>>}
  BY <1>2, FewerQueues, OppositeCase
<1>4. q[Opposite(k)] = << >> /\ ~Room(k)
  BY <1>3, Vain
<1>5. buf \in [Chans -> Seq(Vals)]
  BY DEF WaitInv, TypeOK
<1>6. qs[k] # << >>
  BY <1>3
<1> HIDE DEF c
<1>7. CASE k[2] # c
  <2>1. \/ buf' = buf
        \/ \E b : buf' = [buf EXCEPT ![c] = b]
    BY DEF Communicate, isend, irecv, cputb, cgetb, c
  <2>2. buf'[k[2]] = buf[k[2]]
    <3>1. k[2] \in Chans
      BY OppositeCase
    <3> QED
      BY <1>5, <1>7, <2>1, <3>1
  <2> QED
    BY <1>2, <2>2, FewerVain
<1>8. CASE k[2] = c
  <2>1. CASE cputb(p, a, n, v, qs)
    <3>1. qs[<<"recv", c>>] = << >> /\ CANPUT(c)
      BY <2>1 DEF cputb, c
    <3> QED
      BY <1>3, <1>4, <1>6, <1>8, <3>1 DEF Room
  <2>2. CASE cgetb(p, a, n, qs)
    <3>1. qs[<<"send", c>>] = << >> /\ CANGET(c)
      BY <2>2 DEF cgetb, c
    <3> QED
      BY <1>3, <1>4, <1>6, <1>8, <3>1 DEF Room
  <2>3. CASE isend(p, a, n, v, qs)
    <3>1. buf'[k[2]] = buf[k[2]]
      BY <2>3 DEF isend
    <3> QED
      BY <1>2, <3>1, FewerVain
  <2>4. CASE irecv(p, a, n, qs)
    <3>1. PICK x : buf' = [buf EXCEPT ![c] = Tail(IF Cap[c] = 0 THEN <<x>>
                                                  ELSE Append(buf[c], x))]
      BY <2>4 DEF irecv, c
    <3>2. CASE Cap[c] = 0
      <4>1. buf'[c] = << >>
        BY <1>1, <1>5, <3>1, <3>2
      <4>2. ~Room(k)'
        BY <1>8, <3>2, <4>1 DEF Room, CANPUT, CANGET
      <4> QED
        BY <1>3, <1>4, <4>2, FewerQueues
    <3>3. CASE Cap[c] # 0
      <4>1. buf'[c] = Tail(Append(buf[c], x))
        BY <1>1, <1>5, <3>1, <3>3
      <4>2. Len(Tail(Append(buf[c], x))) = Len(buf[c])
        <5> DEFINE S == Vals \cup {x}
                   z == Append(buf[c], x)
        <5>1. buf[c] \in Seq(S) /\ x \in S /\ Len(buf[c]) \in Nat
          BY <1>1, <1>5
        <5>2. z \in Seq(S) /\ Len(z) = Len(buf[c]) + 1
          BY <5>1, AppendFacts
        <5> HIDE DEF z, S
        <5>3. z # << >>
          BY <5>1, <5>2
        <5>4. Len(Tail(z)) = Len(z) - 1
          BY <5>2, <5>3, TailFacts
        <5> QED
          BY <5>1, <5>2, <5>4 DEF z
      <4>3. Room(k)' <=> Room(k)
        BY <1>8, <4>1, <4>2 DEF Room, CANPUT, CANGET
      <4> QED
        BY <1>3, <1>4, <4>3, FewerQueues
    <3> QED
      BY <3>2, <3>3
  <2> QED
    BY <2>1, <2>2, <2>3, <2>4 DEF Communicate
<1> QED
  BY <1>7, <1>8

\* A Prog waits for the cases of a when none is ready.
LEMMA JoinVain ==
    ASSUME NoneInVain, NEW p, NEW a, UNCHANGED buf,
           \A k \in Cases : q'[k] = IF In(k, a) THEN Append(q[k], p) ELSE q[k],
           \A k \in Cases : In(k, a) => ~Ready(q, k) /\ ~In(Opposite(k), a)
    PROVE  NoneInVain'
<1>1. SUFFICES ASSUME NEW k \in Cases, q'[k] # << >>
               PROVE  q'[Opposite(k)] = << >> /\ ~Room(k)'
  BY InVainNext
<1>2. Opposite(k) \in Cases /\ Opposite(Opposite(k)) = k
  BY OppositeCase
<1>3. Room(k)' <=> Room(k)
  BY DEF Room, CANPUT, CANGET
<1>4. In(k, a) => q[Opposite(k)] = << >> /\ ~Room(k)
  BY DEF Ready, Room
<1>5. ~In(k, a) => q[k] # << >> /\ q[Opposite(k)] = << >> /\ ~Room(k)
  BY <1>1, Vain
<1>6. In(Opposite(k), a) => q[k] = << >> /\ ~In(k, a)
  BY <1>2 DEF Ready
<1>7. ~In(Opposite(k), a)
  BY <1>2, <1>5, <1>6
<1> QED
  BY <1>2, <1>3, <1>4, <1>5, <1>7

\* An alt waits when none of its cases is ready.
LEMMA NoneReady ==
    ASSUME NEW a \in Seq(Cases), nrdy(a) = 0
    PROVE  \A k \in Cases : In(k, a) => ~Ready(q, k)
<1> DEFINE N == 1 .. Len(a)
           s == [n \in 1 .. Len(a) |-> n]
           D == {n \in 1 .. Len(a) : ~Ready(q, a[n])}
<1>1. s \in Seq(N) /\ \A n \in N : In(n, s)
  BY DEF In
<1>2. Len(Without(s, D)) = 0
  BY DEF nrdy, ReadyCases
<1>3. \A n \in N : n \notin D => In(n, Without(s, D))
  <2> HIDE DEF s, D, N
  <2> QED
    BY <1>1, WithoutFacts
<1>4. \A n \in N : ~In(n, Without(s, D))
  BY <1>2 DEF In
<1>5. \A n \in 1 .. Len(a) : ~Ready(q, a[n])
  BY <1>3, <1>4
<1> QED
  BY <1>5 DEF In

LEMMA VainNext == WaitInv /\ NoneInVain /\ [Next]_vars => NoneInVain'
<1> SUFFICES ASSUME WaitInv, NoneInVain, [Next]_vars PROVE NoneInVain'
  OBVIOUS
<1>0. WaitInv' /\ TypeOK
  BY WaitNext DEF WaitInv
<1>1. ASSUME NEW p \in Progs, NEW k \in Cases, Immediate(p, k) PROVE NoneInVain'
  <2>1. Fewer
    BY <1>1, ImmediateKeeps
  <2>2. PICK v : Communicate(p, <<k>>, 1, v, q)
    BY <1>1 DEF Immediate
  <2>3. <<k>> \in Seq(Cases) /\ 1 \in 1 .. Len(<<k>>)
    OBVIOUS
  <2> QED
    BY <1>0, <2>1, <2>2, <2>3, CommunicateVain
<1>2. ASSUME NEW p \in Progs, NEW a \in Alts, altcomm(p, a) PROVE NoneInVain'
  <2>1. Fewer /\ a \in Seq(Cases)
    BY <1>2, AltcommKeeps, AltCases
  <2>2. ~exAlt(a) /\ \A k \in Cases : ~In(p, q[k])
    BY <1>2, ReadyIdle DEF altcomm, Runs, WaitInv, Lists, Waiters
  <2>3. PICK n \in Picks(p, a), v \in Sendable(a) : Communicate(p, a, n, v, Marked(p, a))
    BY <1>2 DEF altcomm
  <2>4. n \in 1 .. Len(a)
    BY <1>0, <2>1, <2>2, PicksFacts
  <2>5. ASSUME NEW k \in Cases, q[k] # << >> PROVE Marked(p, a)[k] # << >>
    <3>1. Marked(p, a)[k] = IF In(k, a) THEN Append(q[k], p) ELSE q[k]
      BY <1>0, <2>1, <2>2, MarkedFacts
    <3>2. q[k] \in Seq(Progs)
      BY <1>0 DEF TypeOK
    <3>3. Append(q[k], p) # << >>
      BY <2>5, <3>2, AppendBehind
    <3> QED
      BY <2>5, <3>1, <3>3
  <2> QED
    BY <1>0, <2>1, <2>3, <2>4, <2>5, CommunicateVain
<1>3. ASSUME NEW p \in Progs, killprog(p) \/ exprog(p) \/ acquireError(p) PROVE NoneInVain'
  <2>1. Fewer /\ buf' = buf
    BY <1>3, KillKeeps, AcquireErrorKeeps DEF killprog, exprog, acquireError
  <2>2. \A k \in Cases : q'[k] # << >> => q'[Opposite(k)] = << >> /\ ~Room(k)'
    BY <1>0, <2>1, FewerVain
  <2> QED
    BY <2>2, InVainNext
<1>4. ASSUME NEW p \in Progs, NEW k \in Cases, Block(p, k) \/ ccom(p, k) PROVE NoneInVain'
  <2>1. ~Ready(q, k) /\ buf' = buf /\ q' = cqadd(q, k, p)
    BY <1>4 DEF Block, ccom
  <2>2. \A j : In(j, <<k>>) <=> j = k
    BY DEF In
  <2>3. \A j \in Cases : q'[j] = IF In(j, <<k>>) THEN Append(q[j], p) ELSE q[j]
    BY <1>0, <2>1, <2>2 DEF cqadd, TypeOK
  <2>4. \A j \in Cases : In(j, <<k>>) => ~Ready(q, j) /\ ~In(Opposite(j), <<k>>)
    BY <2>1, <2>2, OppositeCase
  <2> QED
    BY <2>1, <2>3, <2>4, JoinVain
<1>5. ASSUME NEW p \in Progs, NEW a \in Alts, altBlock(p, a) PROVE NoneInVain'
  <2>1. /\ a \in Seq(Cases) /\ ~exAlt(a) /\ nrdy(a) = 0
        /\ buf' = buf /\ q' = Marked(p, a)
    BY <1>5, AltCases DEF altBlock
  <2>2. \A k \in Cases : ~In(p, q[k])
    BY <1>5, ReadyIdle DEF altBlock, Runs, WaitInv, Lists, Waiters
  <2>3. \A k \in Cases : q'[k] = IF In(k, a) THEN Append(q[k], p) ELSE q[k]
    BY <1>0, <2>1, <2>2, MarkedFacts
  <2>5. \A k \in Cases : In(k, a) => ~Ready(q, k)
    BY <2>1, NoneReady
  <2>6. \A k \in Cases : In(k, a) => ~In(Opposite(k), a)
    <3> SUFFICES ASSUME NEW k \in Cases, k[1] = "send", In(k, a), In(Opposite(k), a)
                 PROVE  FALSE
      <4>1. \A k \in Cases : Opposite(k) \in Cases /\ Opposite(Opposite(k)) = k
        BY OppositeCase
      <4>2. \A k \in Cases : k[1] = "send" \/ Opposite(k)[1] = "send"
        BY DEF Cases, Dirs, Opposite
      <4> QED
        BY <4>1, <4>2
    <3>1. PICK m \in 1 .. Len(a) : a[m] = k
      BY DEF In
    <3>2. PICK n \in 1 .. Len(a) : a[n] = Opposite(k)
      BY DEF In
    <3>3. q[Opposite(k)] # << >>
      BY <2>1, <3>1, <3>2 DEF exAlt
    <3> QED
      BY <2>5, <3>3 DEF Ready
  <2> QED
    BY <2>1, <2>3, <2>5, <2>6, JoinVain
<1>6. ASSUME NEW c \in Chans, freechan(c) PROVE NoneInVain'
  <2>1. Fewer /\ buf' = [buf EXCEPT ![c] = << >>]
    BY <1>6, HangupKeeps DEF freechan
  <2>2. ASSUME NEW k \in Cases, q'[k] # << >>
        PROVE  q'[Opposite(k)] = << >> /\ ~Room(k)'
    <3>1. k[2] # c
      BY <1>6, <2>2 DEF freechan, Others
    <3>2. buf'[k[2]] = buf[k[2]]
      BY <1>0, <2>1, <3>1, OppositeCase DEF TypeOK
    <3> QED
      BY <1>0, <2>1, <2>2, <3>2, FewerVain
  <2> QED
    BY <2>2, InVainNext
<1>7. CASE Moves \/ UNCHANGED vars
  <2>1. q' = q /\ buf' = buf
    BY <1>7 DEF Moves, vars, Proceed, Raise, Sleep, Back, acquire, killReleased,
                exprogReleased, exprogKill, newprog
  <2> QED
    BY <2>1 DEF NoneInVain, Ready, CANPUT, CANGET
<1>8. CASE Ends
  BY <1>1, <1>2, <1>3, <1>8 DEF Ends
<1>9. CASE Starts
  BY <1>4, <1>5, <1>9 DEF Starts
<1> QED
  BY <1>6, <1>7, <1>8, <1>9, Kinds

\* Nobody waits in vain: while a sender waits there is neither a receiver nor
\* room in the buffer, and while a receiver waits no value, for any number of
\* Progs and channels, any buffers and any alts.
THEOREM ChanNoneInVain == Spec => []NoneInVain
<1>1. Init => NoneInVain
  BY DEF Init, NoneInVain
<1>2. Spec => [](WaitInv /\ NoneInVain)
  BY <1>1, WaitInit, WaitNext, VainNext, PTL DEF Spec
<1> QED
  BY <1>2, PTL

-----------------------------------------------------------------------------
(* That DisChan, with the order of its waiting Progs, does what Rendezvous  *)
(* promises.  First, what becomes of the order and of the line of offers.   *)

InOrder == /\ order \in Seq(Progs) /\ Distinct(order)
           /\ \A x \in Progs : In(x, order) <=> x \in Waiters

\* The Progs on a queue are in the order in which they came to wait.
Agreed == \A k \in Cases : \A x, y : Before(q[k], x, y) => Before(order, x, y)

\* A step in which the Progs that wait on wait for the same, behind the same.
Gone == {x \in Progs : ~Waiting(x)'}
Stay == \A x \in Waiters' : op'[x] = op[x] /\ cell'[x] = cell[x]
Kept == \A k \in Cases : \A x, y \in Waiters' : Before(q'[k], x, y) => Before(q[k], x, y)

LEMMA BeforeIn ==
    ASSUME NEW s, NEW x, NEW y, Before(s, x, y) PROVE In(x, s) /\ In(y, s)
BY DEF Before, In

LEMMA OrderLeave ==
    ASSUME InOrder, Order, Waiters' \subseteq Waiters
    PROVE  order' = Without(order, Gone) /\ InOrder'
<1>1. order \in Seq(Progs) /\ Distinct(order) /\ \A x \in Progs : In(x, order) <=> x \in Waiters
  BY DEF InOrder
<1>2. \A x \in Progs : x \in ToSet(order) <=> In(x, order)
  BY <1>1, ToSetIn
<1>3. \A x \in Progs : Waiting(x)' <=> x \in Waiters'
  BY DEF Waiters
<1>4. {x \in Progs : Waiting(x)'} \ ToSet(order) = {}
  BY <1>1, <1>2, <1>3
<1>5. order' = Without(order, Gone)
  BY <1>4 DEF Order, Gone
<1>6. /\ Without(order, Gone) \in Seq(Progs) /\ Distinct(Without(order, Gone))
      /\ \A x : In(x, Without(order, Gone)) <=> In(x, order) /\ x \notin Gone
  BY <1>1, WithoutFacts
<1>7. \A x \in Progs : In(x, order') <=> x \in Waiters'
  BY <1>1, <1>3, <1>5, <1>6 DEF Gone
<1> QED
  BY <1>5, <1>6, <1>7 DEF InOrder, In, Distinct

LEMMA OrderJoin ==
    ASSUME InOrder, Order, NEW p \in Progs, p \notin Waiters, Waiters' = Waiters \cup {p}
    PROVE  order' = Append(order, p) /\ InOrder'
<1>1. order \in Seq(Progs) /\ Distinct(order) /\ \A x \in Progs : In(x, order) <=> x \in Waiters
  BY DEF InOrder
<1>2. \A x \in Progs : x \in ToSet(order) <=> In(x, order)
  BY <1>1, ToSetIn
<1>3. \A x \in Progs : Waiting(x)' <=> x \in Waiters'
  BY DEF Waiters
<1>4. {x \in Progs : Waiting(x)'} \ ToSet(order) = {p}
  BY <1>1, <1>2, <1>3
<1>5. Without(order, Gone) = order
  <2>1. \A x \in Gone : ~In(x, order)
    BY <1>1, <1>3 DEF Gone
  <2> QED
    BY <1>1, <2>1, WithoutNone
<1>6. order' = Append(order, p)
  BY <1>4, <1>5 DEF Order, Gone
<1>7. /\ Append(order, p) \in Seq(Progs) /\ Distinct(Append(order, p))
      /\ \A x \in Progs : In(x, Append(order, p)) <=> In(x, order) \/ x = p
  BY <1>1, AppendInSeq, JoinQueue
<1>8. \A x \in Progs : In(x, order') <=> x \in Waiters'
  BY <1>1, <1>6, <1>7
<1> QED
  BY <1>6, <1>7, <1>8 DEF InOrder, In, Distinct

LEMMA AgreedLeave ==
    ASSUME InOrder, Agreed, WaitInv', Order, Waiters' \subseteq Waiters, Kept
    PROVE  Agreed'
<1>1. order \in Seq(Progs) /\ Distinct(order) /\ order' = Without(order, Gone)
  BY OrderLeave DEF InOrder
<1>2. ASSUME NEW k \in Cases, NEW x, NEW y, Before(q'[k], x, y)
      PROVE  Before(order', x, y)
  <2>1. In(x, q'[k]) /\ In(y, q'[k])
    BY <1>2, BeforeIn
  <2>2. x \in Progs /\ y \in Progs
    <3>1. q'[k] \in Seq(Progs)
      BY DEF WaitInv, TypeOK
    <3> QED
      BY <2>1, <3>1 DEF In
  <2>3. x \in Waiters' /\ y \in Waiters'
    <3>1. \A z \in Progs : In(z, q'[k]) => z \in Waiters'
      BY DEF WaitInv, Lists, In, Distinct
    <3> QED
      BY <2>1, <2>2, <3>1
  <2>4. Before(order, x, y)
    BY <1>2, <2>3 DEF Kept, Agreed
  <2>5. x \notin Gone /\ y \notin Gone
    BY <2>3 DEF Gone, Waiters
  <2> QED
    BY <1>1, <2>4, <2>5, WithoutAfter
<1> QED
  BY <1>2 DEF Agreed, Before

LEMMA AgreedJoin ==
    ASSUME InOrder, Agreed, WaitInv, Order, NEW p \in Progs, p \notin Waiters,
           Waiters' = Waiters \cup {p}, NEW a,
           \A k \in Cases : q'[k] = IF In(k, a) THEN Append(q[k], p) ELSE q[k]
    PROVE  Agreed'
<1>1. /\ order \in Seq(Progs) /\ order' = Append(order, p)
      /\ \A x \in Progs : In(x, order) <=> x \in Waiters
  BY OrderJoin DEF InOrder
<1>2. /\ Len(order) \in Nat /\ Len(order') = Len(order) + 1
      /\ \A i \in 1 .. Len(order) : order'[i] = order[i]
      /\ order'[Len(order) + 1] = p
  BY <1>1, AppendFacts
<1>3. \A x, y : Before(order, x, y) => Before(order', x, y)
  <2> SUFFICES ASSUME NEW x, NEW y, NEW i \in 1 .. Len(order), NEW j \in 1 .. Len(order),
                      i < j, order[i] = x, order[j] = y
               PROVE  Before(order', x, y)
    BY DEF Before
  <2>1. i \in 1 .. Len(order') /\ j \in 1 .. Len(order')
    BY <1>2
  <2> QED
    BY <1>2, <2>1 DEF Before
<1>4. \A x : In(x, order) => Before(order', x, p)
  <2> SUFFICES ASSUME NEW x, NEW i \in 1 .. Len(order), order[i] = x
               PROVE  Before(order', x, p)
    BY DEF In
  <2>1. i \in 1 .. Len(order') /\ Len(order) + 1 \in 1 .. Len(order') /\ i < Len(order) + 1
    BY <1>2
  <2> QED
    BY <1>2, <2>1 DEF Before
<1>5. ASSUME NEW k \in Cases, NEW x, NEW y, Before(q'[k], x, y)
      PROVE  Before(order', x, y)
  <2>1. q[k] \in Seq(Progs) /\ \A z \in Progs : In(z, q[k]) => z \in Waiters
    BY DEF WaitInv, Lists
  <2>2. Before(q[k], x, y) \/ (In(x, q[k]) /\ y = p)
    <3>1. CASE In(k, a)
      BY <1>5, <2>1, <3>1, JoinOrder
    <3> QED
      BY <1>5, <3>1
  <2>3. CASE Before(q[k], x, y)
    BY <1>3, <2>3 DEF Agreed
  <2>4. CASE In(x, q[k]) /\ y = p
    <3>1. x \in Progs
      BY <2>1, <2>4 DEF In
    <3> QED
      BY <1>1, <1>4, <2>1, <2>4, <3>1
  <2> QED
    BY <2>2, <2>3, <2>4
<1> QED
  BY <1>5 DEF Agreed, Before

NewOffer(x) == [who |-> x, cases |-> ToSet(op'[x]), val |-> cell'[x]]

LEMMA NewLine == Line' = [n \in 1 .. Len(order') |-> NewOffer(order'[n])]
BY DEF Line, Offer, NewOffer, ToSet

\* The offers of those who have left the order leave the line.
LEMMA LineLeave ==
    ASSUME InOrder, Order, Waiters' \subseteq Waiters, Stay, NEW E,
           \A x \in Waiters : x \notin Waiters' <=> Offer(x) \in E
    PROVE  Line' = Without(Line, E)
<1> DEFINE F == [x \in Progs |-> Offer(x)]
<1>1. /\ order \in Seq(Progs) /\ \A x \in Progs : In(x, order) <=> x \in Waiters
      /\ order' = Without(order, Gone)
      /\ order' \in Seq(Progs) /\ \A x \in Progs : In(x, order') <=> x \in Waiters'
  BY OrderLeave DEF InOrder, In
<1>2. Line = Through(order, F)
  <2>1. \A n \in 1 .. Len(order) : order[n] \in Progs
    BY <1>1
  <2>2. \A n \in 1 .. Len(order) : F[order[n]] = Offer(order[n])
    BY <2>1
  <2> QED
    BY <2>2 DEF Line, Through
<1>3. Line' = Through(order', F)
  <2>1. \A n \in 1 .. Len(order') : order'[n] \in Progs /\ order'[n] \in Waiters'
    BY <1>1 DEF In
  <2>2. \A x \in Waiters' : NewOffer(x) = Offer(x)
    BY DEF Stay, Offer, NewOffer
  <2>3. \A n \in 1 .. Len(order') : F[order'[n]] = NewOffer(order'[n])
    BY <2>1, <2>2
  <2> QED
    BY <2>3, NewLine DEF Through
<1>4. \A x \in Progs : In(x, order) => (x \in Gone <=> F[x] \in E)
  BY <1>1 DEF Gone, Waiters
<1> HIDE DEF F
<1>5. Through(Without(order, Gone), F) = Without(Through(order, F), E)
  BY <1>1, <1>4, ThroughWithout
<1> QED
  BY <1>1, <1>2, <1>3, <1>5

LEMMA LineSame ==
    ASSUME InOrder, Order, Waiters' = Waiters, Stay
    PROVE  Line' = Line
<1>1. Line' = Without(Line, {})
  BY LineLeave
<1>2. Line \in Seq({Offer(x) : x \in Progs})
  <2>1. \A n \in 1 .. Len(order) : order[n] \in Progs
    BY DEF InOrder
  <2> QED
    BY <2>1 DEF Line, InOrder
<1> QED
  BY <1>1, <1>2, WithoutNone

LEMMA LineJoin ==
    ASSUME InOrder, Order, NEW p \in Progs, p \notin Waiters, Waiters' = Waiters \cup {p},
           \A x \in Waiters : op'[x] = op[x] /\ cell'[x] = cell[x]
    PROVE  Line' = Append(Line, NewOffer(p))
<1> DEFINE F == [x \in Progs |-> NewOffer(x)]
<1>1. /\ order \in Seq(Progs) /\ \A x \in Progs : In(x, order) <=> x \in Waiters
      /\ order' = Append(order, p) /\ order' \in Seq(Progs)
  BY OrderJoin DEF InOrder
<1>2. Line = Through(order, F)
  <2>1. \A n \in 1 .. Len(order) : order[n] \in Progs /\ order[n] \in Waiters
    BY <1>1 DEF In
  <2>2. \A x \in Waiters : NewOffer(x) = Offer(x)
    BY DEF Offer, NewOffer
  <2>3. \A n \in 1 .. Len(order) : F[order[n]] = Offer(order[n])
    BY <2>1, <2>2
  <2> QED
    BY <2>3 DEF Line, Through
<1>3. Line' = Through(order', F)
  <2>1. \A n \in 1 .. Len(order') : order'[n] \in Progs
    BY <1>1
  <2>2. \A n \in 1 .. Len(order') : F[order'[n]] = NewOffer(order'[n])
    BY <2>1
  <2> QED
    BY <2>2, NewLine DEF Through
<1>4. F[p] = NewOffer(p)
  OBVIOUS
<1> HIDE DEF F
<1>5. Through(Append(order, p), F) = Append(Through(order, F), F[p])
  BY <1>1, ThroughAppend
<1> QED
  BY <1>1, <1>2, <1>3, <1>4, <1>5

-----------------------------------------------------------------------------
(* The state of Rendezvous that a state is.                                 *)

\* A Prog has been told its case when it waits no more.
Results == \A x \in Progs : result[x] # None => x \notin Waiters /\ result[x] \in 1 .. Len(op[x])

Fits == \A c \in Chans : Len(buf[c]) <= Cap[c]

LineInv == WaitInv /\ NoneInVain /\ InOrder /\ Agreed /\ Results /\ Fits

\* A step of Rendezvous, or none.
Promised == Promise!Next \/ (Line' = Line /\ buf' = buf /\ Got' = Got)

LEMMA Offered ==
    ASSUME WaitInv, InOrder, NEW k \in Cases
    PROVE  /\ Promise!Offering(k) = {n \in 1 .. Len(order) : In(order[n], q[k])}
           /\ Promise!Offering(k) = {} <=> q[k] = << >>
           /\ Len(Line) = Len(order) /\ \A n \in 1 .. Len(order) : Line[n] = Offer(order[n])
<1>1. /\ order \in Seq(Progs) /\ Len(order) \in Nat
      /\ \A x \in Progs : In(x, order) <=> x \in Waiters
  BY DEF InOrder
<1>2. Len(Line) = Len(order) /\ \A n \in 1 .. Len(order) : Line[n] = Offer(order[n])
  BY <1>1 DEF Line
<1>3. \A x \in Progs : op[x] \in Seq(Cases)
  BY DEF WaitInv, TypeOK
<1>4. /\ q[k] \in Seq(Progs)
      /\ \A x \in Progs : In(x, q[k]) <=> x \in Waiters /\ In(k, op[x])
  BY DEF WaitInv, Lists
<1>5. \A n \in 1 .. Len(order) : order[n] \in Waiters /\ order[n] \in Progs
  BY <1>1 DEF In
<1>6. \A n \in 1 .. Len(order) : k \in Line[n].cases <=> In(order[n], q[k])
  <2> SUFFICES ASSUME NEW n \in 1 .. Len(order)
               PROVE  k \in Line[n].cases <=> In(order[n], q[k])
    OBVIOUS
  <2> DEFINE x == order[n]
  <2>1. Line[n] = Offer(x) /\ x \in Progs /\ x \in Waiters
    BY <1>2, <1>5
  <2> HIDE DEF x
  <2>2. Offer(x).cases = ToSet(op[x])
    BY DEF Offer
  <2>3. op[x] \in Seq(Cases)
    BY <1>3, <2>1
  <2>4. k \in ToSet(op[x]) <=> In(k, op[x])
    BY <2>3, ToSetIn
  <2>5. k \in Line[n].cases <=> In(x, q[k])
    BY <1>4, <2>1, <2>2, <2>4
  <2> QED
    BY <2>5 DEF x
<1>7. Promise!Offering(k) = {n \in 1 .. Len(order) : In(order[n], q[k])}
  BY <1>2, <1>6 DEF Promise!Offering
<1>8. q[k] # << >> => In(Head(q[k]), q[k]) /\ Head(q[k]) \in Progs
  <2>1. q[k] # << >> => Head(q[k]) \in Progs /\ q[k][1] = Head(q[k]) /\ 1 \in 1 .. Len(q[k])
    BY <1>4, TailFacts
  <2> QED
    BY <2>1 DEF In
<1>9. q[k] # << >> => \E n \in 1 .. Len(order) : In(order[n], q[k])
  <2>1. q[k] # << >> => In(Head(q[k]), order)
    BY <1>1, <1>4, <1>8
  <2> QED
    BY <1>8, <2>1 DEF In
<1>10. q[k] = << >> => \A x : ~In(x, q[k])
  BY DEF In
<1> QED
  BY <1>2, <1>7, <1>9, <1>10

\* The first offer of a case is that of the first on its queue.
LEMMA FirstOffer ==
    ASSUME WaitInv, InOrder, Agreed, NEW k \in Cases, q[k] # << >>
    PROVE  /\ Promise!First(k) \in 1 .. Len(order)
           /\ order[Promise!First(k)] = Head(q[k])
           /\ Line[Promise!First(k)] = Offer(Head(q[k]))
<1> DEFINE h == Head(q[k])
<1>1. /\ order \in Seq(Progs) /\ Len(order) \in Nat /\ Distinct(order)
      /\ \A x \in Progs : In(x, order) <=> x \in Waiters
  BY DEF InOrder
<1>2. /\ q[k] \in Seq(Progs)
      /\ \A x \in Progs : In(x, q[k]) <=> x \in Waiters /\ In(k, op[x])
  BY DEF WaitInv, Lists
<1>3. /\ h \in Progs /\ In(h, q[k])
      /\ \A x : In(x, q[k]) => x = h \/ Before(q[k], h, x)
  <2>1. /\ Len(q[k]) \in Nat \ {0} /\ h \in Progs /\ h = q[k][1]
    BY <1>2, TailFacts
  <2>2. In(h, q[k])
    BY <2>1 DEF In
  <2>3. ASSUME NEW i \in 1 .. Len(q[k]), q[k][i] # h PROVE Before(q[k], h, q[k][i])
    <3>1. 1 \in 1 .. Len(q[k]) /\ 1 < i
      BY <2>1, <2>3
    <3> QED
      BY <2>1, <3>1 DEF Before
  <2> QED
    BY <2>1, <2>2, <2>3 DEF In
<1> HIDE DEF h
<1>4. PICK i \in 1 .. Len(order) : order[i] = h
  BY <1>1, <1>2, <1>3 DEF In
<1>5. ASSUME NEW n \in 1 .. Len(order), In(order[n], q[k]) PROVE i <= n
  <2>1. CASE order[n] = h
    BY <1>1, <1>4, <2>1 DEF Distinct
  <2>2. CASE order[n] # h
    <3>1. Before(order, h, order[n])
      BY <1>3, <1>5, <2>2 DEF Agreed
    <3>2. PICK a, b \in 1 .. Len(order) : a < b /\ order[a] = h /\ order[b] = order[n]
      BY <3>1 DEF Before
    <3>3. a = i /\ b = n
      BY <1>1, <1>4, <3>2 DEF Distinct
    <3> QED
      BY <1>1, <3>2, <3>3
  <2> QED
    BY <2>1, <2>2
<1>6. Promise!Offering(k) = {n \in 1 .. Len(order) : In(order[n], q[k])}
  BY Offered
<1>7. i \in Promise!Offering(k) /\ \A n \in Promise!Offering(k) : i <= n
  BY <1>3, <1>4, <1>5, <1>6
<1>8. \A j \in Promise!Offering(k) : (\A n \in Promise!Offering(k) : j <= n) => j = i
  BY <1>1, <1>6, <1>7
<1>9. Promise!First(k) = i
  BY <1>7, <1>8 DEF Promise!First
<1>10. Line[i] = Offer(order[i])
  BY Offered
<1> QED
  BY <1>4, <1>9, <1>10 DEF h

LEMMA NoOffer ==
    ASSUME WaitInv, InOrder, NEW p \in Progs, p \notin Waiters PROVE ~Promise!Waits(p)
<1>1. /\ Len(Line) = Len(order) /\ \A n \in 1 .. Len(order) : Line[n] = Offer(order[n])
  <2>1. order \in Seq(Progs)
    BY DEF InOrder
  <2> QED
    BY <2>1 DEF Line
<1>2. \A n \in 1 .. Len(order) : order[n] # p
  BY DEF InOrder, In
<1>3. ASSUME NEW n \in 1 .. Len(order) PROVE Line[n].who # p
  <2> DEFINE x == order[n]
  <2>1. Line[n] = Offer(x) /\ x # p
    BY <1>1, <1>2
  <2> HIDE DEF x
  <2>2. Offer(x).who = x
    BY DEF Offer
  <2> QED
    BY <2>1, <2>2
<1> QED
  BY <1>1, <1>3 DEF Promise!Waits

LEMMA SamePossible ==
    ASSUME WaitInv, InOrder, NEW k \in Cases PROVE Promise!Possible(k) <=> Ready(q, k)
<1>1. Opposite(k) \in Cases /\ Promise!Opposite(k) = Opposite(k) /\ k[2] \in Chans
  BY OppositeCase DEF Promise!Opposite, Opposite
<1>2. Promise!Offering(Opposite(k)) = {} <=> q[Opposite(k)] = << >>
  BY <1>1, Offered
<1>3. buf[k[2]] # << >> <=> Len(buf[k[2]]) > 0
  BY <1>1 DEF WaitInv, TypeOK
<1> QED
  BY <1>1, <1>2, <1>3 DEF Promise!Possible, Promise!Buffers, Ready, CANPUT, CANGET

-----------------------------------------------------------------------------
(* The steps.                                                               *)

\* What a step keeps, besides what is proved above of all of them.
Lined == InOrder /\ Agreed /\ Results /\ Fits

\* Rendezvous has operators of its own for what it takes from Queues.
LEMMA PromiseQueues ==
    /\ \A s, D : Promise!Without(s, D) = Without(s, D)
    /\ \A s : Promise!ToSet(s) = ToSet(s)
BY DEF Promise!Without, Without, Promise!ToSet, ToSet

\* p's offer is no other's, so that the line without it is what is left.
LEMMA OneOffer ==
    ASSUME InOrder, Order, NEW p \in Progs, p \in Waiters, Waiters' = Waiters \ {p}, Stay
    PROVE  Line' = Without(Line, {Offer(p)})
<1>1. \A x : Offer(x).who = x
  BY DEF Offer
<1>2. \A x \in Waiters : x \notin Waiters' <=> Offer(x) \in {Offer(p)}
  <2> SUFFICES ASSUME NEW x \in Waiters PROVE x = p <=> Offer(x) = Offer(p)
    OBVIOUS
  <2>1. Offer(x) = Offer(p) => Offer(x).who = Offer(p).who
    OBVIOUS
  <2> QED
    BY <1>1, <2>1
<1> QED
  BY <1>2, LineLeave

\* A kproc goes on, or a Prog is made: the offers are as they were.
LEMMA QuietLine ==
    ASSUME LineInv, WaitInv', Order, UNCHANGED <<q, buf, op, cell, result>>, Waiters' = Waiters
    PROVE  Lined' /\ Promised
<1>1. Stay /\ Kept
  BY DEF Stay, Kept
<1>2. InOrder' /\ Agreed'
  BY <1>1, OrderLeave, AgreedLeave DEF LineInv
<1>3. Line' = Line
  BY <1>1, LineSame DEF LineInv
<1>4. Got' = Got
  BY DEF Got
<1>5. Results' /\ Fits'
  BY DEF LineInv, Results, Fits
<1> QED
  BY <1>2, <1>3, <1>4, <1>5 DEF Lined, Promised

\* p has seen what it got, or waits no more.
LEMMA OverLine ==
    ASSUME LineInv, WaitInv', Order, NEW p \in Progs, Over(p), UNCHANGED buf,
           Waiters' = Waiters \ {p},
           \A k \in Cases : q'[k] = q[k] \/ q'[k] = Without(q[k], {p})
    PROVE  Lined' /\ Promised
<1>0. /\ WaitInv /\ InOrder /\ Agreed /\ Results /\ Fits
      /\ op \in [Progs -> Seq(Cases)] /\ q \in [Cases -> Seq(Progs)]
      /\ cell \in [Progs -> Vals \cup {None}] /\ result \in [Progs -> Nat \cup {None}]
  BY DEF LineInv, WaitInv, TypeOK
<1>1. /\ op' = [op EXCEPT ![p] = << >>] /\ cell' = [cell EXCEPT ![p] = None]
      /\ result' = [result EXCEPT ![p] = None]
  BY DEF Over
<1>2. \A x \in Progs \ {p} : op'[x] = op[x] /\ cell'[x] = cell[x] /\ result'[x] = result[x]
  BY <1>0, <1>1
<1>3. result'[p] = None
  BY <1>0, <1>1
<1>4. Stay
  BY <1>2 DEF Stay, Waiters
<1>5. Kept
  <2>1. \A k \in Cases : \A x, y : Before(q'[k], x, y) => Before(q[k], x, y)
    BY <1>0, WithoutBefore
  <2> QED
    BY <2>1 DEF Kept
<1>6. InOrder' /\ Agreed'
  BY <1>0, <1>4, <1>5, OrderLeave, AgreedLeave
<1>7. Results'
  <2> SUFFICES ASSUME NEW x \in Progs, result'[x] # None
               PROVE  x \notin Waiters' /\ result'[x] \in 1 .. Len(op'[x])
    BY DEF Results
  <2> QED
    BY <1>0, <1>2, <1>3 DEF Results
<1>8. Fits'
  BY <1>0 DEF Fits
<1>9. Got' = [x \in Progs |-> IF x = p THEN None ELSE Got[x]]
  <2>1. Got' = [x \in Progs |-> IF result'[x] = None THEN None ELSE <<op'[x][result'[x]], cell'[x]>>]
    BY DEF Got
  <2>2. \A x \in Progs : Got[x] = IF result[x] = None THEN None ELSE <<op[x][result[x]], cell[x]>>
    BY DEF Got
  <2> QED
    BY <1>2, <1>3, <2>1, <2>2
<1>10. ASSUME p \in Waiters PROVE Promised
  <2>1. Line' = Without(Line, {Offer(p)})
    BY <1>0, <1>4, <1>10, OneOffer
  <2>2. PICK n \in 1 .. Len(order) : order[n] = p
    BY <1>0, <1>10 DEF InOrder, In
  <2>3. Len(Line) = Len(order) /\ Line[n] = Offer(p)
    <3>1. Len(order) \in Nat
      BY <1>0 DEF InOrder
    <3> QED
      BY <2>2, <3>1 DEF Line
  <2>4. Offer(p).who = p
    BY DEF Offer
  <2>5. Got' = Got
    <3>1. Got[p] = None
      BY <1>0, <1>10 DEF Got, Results
    <3>2. Got = [x \in Progs |-> Got[x]]
      BY DEF Got
    <3> QED
      BY <1>9, <3>1, <3>2
  <2>6. Promise!Withdraw(p)
    BY <2>1, <2>2, <2>3, <2>4, <2>5, PromiseQueues DEF Promise!Withdraw
  <2> QED
    BY <2>6, Zenon DEF Promise!Next, Promised
<1>11. ASSUME p \notin Waiters PROVE Promised
  <2>1. Line' = Line
    <3>1. Waiters' = Waiters
      BY <1>11
    <3> QED
      BY <1>0, <1>4, <3>1, LineSame
  <2>2. Got' = [Got EXCEPT ![p] = None]
    <3>1. Got = [x \in Progs |-> Got[x]]
      BY DEF Got
    <3> QED
      BY <1>9, <3>1
  <2>3. Promise!Forget(p)
    BY <1>0, <1>11, <2>1, <2>2, NoOffer DEF Promise!Forget
  <2> QED
    BY <2>3, Zenon DEF Promise!Next, Promised
<1> QED
  BY <1>6, <1>7, <1>8, <1>10, <1>11 DEF Lined

\* p comes to wait for the cases of a.
LEMMA JoinLine ==
    ASSUME LineInv, Order, NEW p \in Progs, NEW a \in Seq(Cases), p \notin Waiters,
           Waiters' = Waiters \cup {p}, op[p] = << >>, UNCHANGED <<buf, result>>,
           \A k \in Cases : q'[k] = IF In(k, a) THEN Append(q[k], p) ELSE q[k],
           \A k \in Cases : In(k, a) => ~Ready(q, k),
           op' = [op EXCEPT ![p] = a],
           \E v \in Sendable(a) : cell' = [cell EXCEPT ![p] = v]
    PROVE  Lined' /\ Promised
<1>0. /\ WaitInv /\ InOrder /\ Agreed /\ Results /\ Fits
      /\ op \in [Progs -> Seq(Cases)] /\ cell \in [Progs -> Vals \cup {None}]
  BY DEF LineInv, WaitInv, TypeOK
<1>1. PICK v \in Vals \cup {None} : cell' = [cell EXCEPT ![p] = v]
  BY SendableFacts
<1>2. /\ op'[p] = a /\ cell'[p] = v
      /\ \A x \in Progs \ {p} : op'[x] = op[x] /\ cell'[x] = cell[x]
  BY <1>0, <1>1
<1>3. result[p] = None
  BY <1>0 DEF Results
<1>4. InOrder' /\ Agreed'
  BY <1>0, OrderJoin, AgreedJoin
<1>5. Results' /\ Fits'
  <2>1. ASSUME NEW x \in Progs, result'[x] # None
        PROVE  x \notin Waiters' /\ result'[x] \in 1 .. Len(op'[x])
    BY <1>0, <1>2, <1>3, <2>1 DEF Results
  <2> QED
    BY <1>0, <2>1 DEF Results, Fits
<1>6. Line' = Append(Line, NewOffer(p))
  <2>1. \A x \in Waiters : op'[x] = op[x] /\ cell'[x] = cell[x]
    BY <1>2 DEF Waiters
  <2> QED
    BY <1>0, <2>1, LineJoin
<1>7. NewOffer(p) = [who |-> p, cases |-> ToSet(a), val |-> v]
  BY <1>2 DEF NewOffer
<1>8. Got' = Got
  <2>1. Got' = [x \in Progs |-> IF result[x] = None THEN None ELSE <<op'[x][result[x]], cell'[x]>>]
    BY DEF Got
  <2>2. \A x \in Progs : result[x] # None => op'[x] = op[x] /\ cell'[x] = cell[x]
    BY <1>2, <1>3
  <2> QED
    BY <2>1, <2>2 DEF Got
<1>9. ToSet(a) \in SUBSET Promise!Cases /\ \A k \in ToSet(a) : ~Promise!Possible(k)
  <2>1. \A k \in ToSet(a) : k \in Cases /\ In(k, a)
    BY ToSetIn DEF In
  <2>2. Promise!Cases = Cases
    BY DEF Promise!Cases, Cases, Dirs
  <2> QED
    BY <1>0, <2>1, <2>2, SamePossible
<1>10. Promise!Wait(p, ToSet(a), v)
  BY <1>0, <1>6, <1>7, <1>8, <1>9, NoOffer DEF Promise!Wait
<1>11. Promise!Next
  BY <1>9, <1>10 DEF Promise!Next
<1> QED
  BY <1>4, <1>5, <1>11 DEF Lined, Promised

\* Those on the queues of a channel are those that wait for it.
LEMMA OnFacts ==
    ASSUME WaitInv, NEW c \in Chans
    PROVE  \A x \in Progs : x \in On(c) <=> x \in Waiters /\ \E d \in Dirs : In(<<d, c>>, op[x])
<1>1. \A x \in Progs : x \in On(c) <=> \E d \in Dirs : In(x, q[<<d, c>>])
  BY DEF On, Contains, In
<1>2. \A d \in Dirs : <<d, c>> \in Cases
  BY DEF Cases
<1> QED
  BY <1>1, <1>2 DEF WaitInv, Lists

\* A hangup takes back the offers with a case on the channel.
LEMMA HangupLine ==
    ASSUME LineInv, WaitInv', Order, NEW c \in Chans, freechan(c)
    PROVE  Lined' /\ Promised
<1>0. /\ WaitInv /\ InOrder /\ Agreed /\ Results /\ Fits
      /\ op \in [Progs -> Seq(Cases)] /\ q \in [Cases -> Seq(Progs)]
      /\ buf \in [Chans -> Seq(Vals)] /\ Cap \in [Chans -> Nat]
  BY DisChanAssumption DEF LineInv, WaitInv, TypeOK
<1>1. \A x \in Progs : x \in On(c) <=> x \in Waiters /\ \E d \in Dirs : In(<<d, c>>, op[x])
  BY <1>0, OnFacts
<1>2. Waiters' = Waiters \ On(c)
  BY DEF freechan, Waiters, Waiting
<1>3. /\ \A x \in Progs \ On(c) : op'[x] = op[x] /\ cell'[x] = cell[x]
      /\ result' = result /\ buf' = [buf EXCEPT ![c] = << >>]
  BY DEF freechan
<1>4. Stay
  BY <1>2, <1>3 DEF Stay, Waiters
<1>5. Kept
  <2> SUFFICES ASSUME NEW k \in Cases, NEW x, NEW y, Before(q'[k], x, y)
               PROVE  Before(q[k], x, y)
    BY DEF Kept
  <2>1. q'[k] = << >> \/ q'[k] = Without(q[k], On(c))
    BY DEF freechan, Others
  <2>2. ~Before(<< >>, x, y)
    BY DEF Before
  <2> QED
    BY <1>0, <2>1, <2>2, WithoutBefore
<1>6. InOrder' /\ Agreed'
  BY <1>0, <1>2, <1>4, <1>5, OrderLeave, AgreedLeave
<1>7. Results'
  BY <1>0, <1>1, <1>2, <1>3 DEF Results
<1>8. Fits'
  BY <1>0, <1>3 DEF Fits
<1>9. Got' = Got
  <2>1. Got' = [x \in Progs |-> IF result[x] = None THEN None ELSE <<op'[x][result[x]], cell'[x]>>]
    BY <1>3 DEF Got
  <2>2. \A x \in Progs : result[x] # None => op'[x] = op[x] /\ cell'[x] = cell[x]
    BY <1>0, <1>1, <1>3 DEF Results
  <2> QED
    BY <2>1, <2>2 DEF Got
<1> DEFINE E == {o \in ToSet(Line) : \E k \in o.cases : k[2] = c}
<1>10. \A x \in Waiters : x \notin Waiters' <=> Offer(x) \in E
  <2> SUFFICES ASSUME NEW x \in Waiters
               PROVE  (\E d \in Dirs : In(<<d, c>>, op[x])) <=> Offer(x) \in E
    BY <1>1, <1>2 DEF Waiters
  <2>1. x \in Progs /\ op[x] \in Seq(Cases)
    BY <1>0 DEF Waiters
  <2>2. Offer(x) \in ToSet(Line)
    <3>1. PICK n \in 1 .. Len(order) : order[n] = x
      BY <1>0, <2>1 DEF InOrder, In
    <3>2. Len(order) \in Nat
      BY <1>0 DEF InOrder
    <3>3. n \in 1 .. Len(Line) /\ Line[n] = Offer(x)
      BY <3>1, <3>2 DEF Line
    <3> QED
      BY <3>3 DEF ToSet
  <2>3. Offer(x).cases = ToSet(op[x])
    BY DEF Offer
  <2>4. \A k : k \in ToSet(op[x]) <=> In(k, op[x])
    BY <2>1, ToSetIn
  <2>5. \A k : In(k, op[x]) => k \in Cases
    BY <2>1 DEF In
  <2>6. \A k \in Cases : k[2] = c <=> \E d \in Dirs : k = <<d, c>>
    BY DEF Cases
  <2> QED
    BY <2>2, <2>3, <2>4, <2>5, <2>6
<1>11. Line' = Without(Line, E)
  BY <1>0, <1>2, <1>4, <1>10, LineLeave
<1>12. Promise!Hangup(c)
  BY <1>3, <1>9, <1>11, PromiseQueues DEF Promise!Hangup
<1>13. Promised
  BY <1>12, Zenon DEF Promise!Next, Promised
<1> QED
  BY <1>6, <1>7, <1>8, <1>13 DEF Lined

-----------------------------------------------------------------------------
(* Communication.                                                           *)

\* What p and its partner have got.
LEMMA GotFacts ==
    /\ Got = [x \in Progs |-> Got[x]]
    /\ Got' = [x \in Progs |-> Got'[x]]
    /\ \A x \in Progs : Got[x] = IF result[x] = None THEN None ELSE <<op[x][result[x]], cell[x]>>
    /\ \A x \in Progs : Got'[x] = IF result'[x] = None THEN None
                                  ELSE <<op'[x][result'[x]], cell'[x]>>
BY DEF Got

\* What is left on the queues is in the order it was in, whatever p did there.
Behind(qq, p) == \A k \in Cases : /\ qq[k] \in Seq(Progs)
                                  /\ \A x, y : x # p /\ y # p /\ Before(qq[k], x, y) => Before(q[k], x, y)

LEMMA BehindAltdone ==
    ASSUME NEW qq, NEW p, Behind(qq, p), NEW a, NEW h
    PROVE  Behind(altdone(qq, a, h), p)
<1>1. \A k \in Cases : altdone(qq, a, h)[k] \in {qq[k], Without(qq[k], {h})}
  BY DEF altdone
<1>2. \A k \in Cases : /\ Without(qq[k], {h}) \in Seq(Progs)
                       /\ \A x, y : Before(Without(qq[k], {h}), x, y) => Before(qq[k], x, y)
  BY WithoutFacts, WithoutBefore DEF Behind
<1> QED
  BY <1>1, <1>2 DEF Behind

LEMMA BehindPartner ==
    ASSUME NEW qq \in [Cases -> Seq(Progs)], NEW p, Behind(qq, p), NEW h, NEW k \in Cases,
           qq[k] # << >>
    PROVE  Behind(partner(qq, h, k), p)
<1>1. \A j \in Cases : cqdel(qq, k)[j] = IF j = k THEN Tail(qq[k]) ELSE qq[j]
  BY DEF cqdel
<1>2. /\ Tail(qq[k]) \in Seq(Progs)
      /\ \A x, y : Before(Tail(qq[k]), x, y) => Before(qq[k], x, y)
  BY TailFacts, LeaveOrder
<1>3. Behind(cqdel(qq, k), p)
  BY <1>1, <1>2 DEF Behind
<1> QED
  BY <1>3, BehindAltdone DEF partner

\* p communicates with a buffer: nobody was there to do it with.
LEMMA AloneLine ==
    ASSUME LineInv, WaitInv', Order, NEW p \in Progs, p \notin Waiters,
           NEW a \in Seq(Cases), NEW n \in 1 .. Len(a), NEW v, NEW qs, Behind(qs, p),
           \A k \in Cases : q[k] # << >> => qs[k] # << >>,
           \/ a[n][1] = "send" /\ v \in Vals /\ cputb(p, a, n, v, qs)
           \/ a[n][1] = "recv" /\ cgetb(p, a, n, qs)
    PROVE  Lined' /\ Promised
<1> DEFINE c == a[n][2]
<1>0. /\ WaitInv /\ InOrder /\ Agreed /\ Results /\ Fits
      /\ op \in [Progs -> Seq(Cases)] /\ cell \in [Progs -> Vals \cup {None}]
      /\ result \in [Progs -> Nat \cup {None}] /\ buf \in [Chans -> Seq(Vals)]
      /\ Cap \in [Chans -> Nat] /\ None \notin Nat
  BY DisChanAssumption, NoneNoCase DEF LineInv, WaitInv, TypeOK
<1>1. /\ a[n] \in Cases /\ c \in Chans /\ n \in Nat /\ a[n] \in {<<"send", c>>, <<"recv", c>>}
      /\ <<"send", c>> \in Cases /\ <<"recv", c>> \in Cases
  BY OppositeCase DEF Cases, Dirs
<1>2. PICK w : settleAlone(p, a, n, w) /\ w = IF a[n][1] = "send" THEN v ELSE Head(buf[c])
  BY DEF cputb, cgetb
<1>3. q' = altdone(qs, a, p)
  BY DEF cputb, cgetb
<1>4. /\ op' = [op EXCEPT ![p] = a] /\ result' = [result EXCEPT ![p] = n]
      /\ cell' = [cell EXCEPT ![p] = w] /\ UNCHANGED <<ptr, state>>
  BY <1>2 DEF settleAlone, kproc
<1>5. /\ op'[p] = a /\ result'[p] = n /\ cell'[p] = w
      /\ \A x \in Progs \ {p} : op'[x] = op[x] /\ result'[x] = result[x] /\ cell'[x] = cell[x]
  BY <1>0, <1>4
<1>6. Waiters' = Waiters
  BY <1>4 DEF Waiters, Waiting
<1>7. Stay
  BY <1>5, <1>6 DEF Stay, Waiters
<1>8. Kept
  BY <1>3, <1>6, BehindAltdone DEF Kept, Behind
<1>9. InOrder' /\ Agreed' /\ Line' = Line
  BY <1>0, <1>6, <1>7, <1>8, OrderLeave, AgreedLeave, LineSame
<1>10. Results'
  BY <1>0, <1>5, <1>6 DEF Results
<1>11. Got' = [Got EXCEPT ![p] = <<a[n], w>>]
  <2>1. n # None
    BY <1>0, <1>1
  <2>2. Got'[p] = <<a[n], w>>
    BY <1>5, <2>1, GotFacts
  <2>3. \A x \in Progs \ {p} : Got'[x] = Got[x]
    BY <1>5, GotFacts
  <2> QED
    BY <2>2, <2>3, GotFacts
<1>12. /\ ~Promise!Waits(p)
       /\ \A k \in Cases : qs[k] = << >> => Promise!Offering(k) = {}
  BY <1>0, NoOffer, Offered
<1> HIDE DEF c
<1>13. CASE a[n][1] = "send" /\ v \in Vals /\ cputb(p, a, n, v, qs)
  <2>1. /\ qs[<<"recv", c>>] = << >> /\ CANPUT(c)
        /\ buf' = [buf EXCEPT ![c] = Append(@, v)]
    BY <1>13 DEF cputb, c
  <2>2. Fits'
    <3>1. buf'[c] = Append(buf[c], v) /\ \A d \in Chans \ {c} : buf'[d] = buf[d]
      BY <1>0, <1>1, <2>1
    <3>2. Len(buf[c]) < Cap[c] /\ Len(buf[c]) \in Nat /\ Cap[c] \in Nat
      BY <1>0, <1>1, <2>1 DEF CANPUT
    <3>3. Len(Append(buf[c], v)) = Len(buf[c]) + 1
      BY <1>0, <1>1, <1>13, AppendFacts
    <3>4. Len(buf'[c]) <= Cap[c]
      BY <3>1, <3>2, <3>3
    <3> QED
      BY <1>0, <3>1, <3>4 DEF Fits
  <2>3. a[n] = <<"send", c>> /\ w = v
    BY <1>1, <1>2, <1>13
  <2>4. Promise!Buffers(<<"send", c>>)
    BY <2>1 DEF Promise!Buffers, CANPUT
  <2>5. Promise!Put(p, c, v)
    BY <1>1, <1>9, <1>11, <1>12, <2>1, <2>3, <2>4 DEF Promise!Put
  <2>6. Promised
    BY <1>1, <1>13, <2>5, Zenon DEF Promise!Next, Promised
  <2> QED
    BY <1>9, <1>10, <2>2, <2>6 DEF Lined
<1>14. CASE a[n][1] = "recv" /\ cgetb(p, a, n, qs)
  <2>1. /\ qs[<<"send", c>>] = << >> /\ CANGET(c)
        /\ buf' = [buf EXCEPT ![c] = Tail(@)]
    BY <1>14 DEF cgetb, c
  <2>2. buf[c] \in Seq(Vals) /\ buf[c] # << >>
    BY <1>0, <1>1, <2>1 DEF CANGET
  <2>3. Fits'
    <3>1. buf'[c] = Tail(buf[c]) /\ \A d \in Chans \ {c} : buf'[d] = buf[d]
      BY <1>0, <1>1, <2>1
    <3>2. Len(Tail(buf[c])) = Len(buf[c]) - 1 /\ Len(buf[c]) \in Nat /\ Cap[c] \in Nat
      BY <1>0, <1>1, <2>2, TailFacts
    <3>3. Len(buf[c]) <= Cap[c]
      BY <1>0, <1>1 DEF Fits
    <3>4. Len(buf'[c]) <= Cap[c]
      BY <3>1, <3>2, <3>3
    <3> QED
      BY <1>0, <3>1, <3>4 DEF Fits
  <2>4. a[n] = <<"recv", c>> /\ w = Head(buf[c])
    BY <1>1, <1>2, <1>14 DEF c
  <2>5. Promise!Buffers(<<"recv", c>>)
    BY <2>2 DEF Promise!Buffers
  <2>6. Promise!Get(p, c)
    BY <1>1, <1>9, <1>11, <1>12, <2>1, <2>4, <2>5 DEF Promise!Get
  <2>7. Promised
    BY <1>1, <2>6, Zenon DEF Promise!Next, Promised
  <2> QED
    BY <1>9, <1>10, <2>3, <2>7 DEF Lined
<1> QED
  BY <1>13, <1>14

\* The partner, in Dis or in cblock, waits no more.
LEMMA SettleWaiters ==
    ASSUME WaitInv, NEW p, NEW a, NEW n, NEW v, NEW h \in Waiters, NEW k, NEW w,
           settle(p, a, n, v, h, k, w)
    PROVE  Waiters' = Waiters \ {h}
<1>1. /\ h \in Progs /\ Held(h) /\ Waiting(h)
      /\ state \in [Progs -> States] /\ ptr \in [Progs -> BOOLEAN]
  BY DEF Waiters, WaitInv, TypeOK, States
<1>2. ptr' = [ptr EXCEPT ![h] = FALSE] /\ addrun(h)
  BY DEF settle
<1>3. ~Waiting(h)'
  <2>1. ptr'[h] = FALSE
    BY <1>1, <1>2
  <2>2. state'[h] \notin {"alt", "send", "recv"}
    BY <1>1, <1>2 DEF addrun, Held
  <2> QED
    BY <2>1, <2>2 DEF Waiting
<1>4. \A x \in Progs \ {h} : Waiting(x)' <=> Waiting(x)
  <2>1. \A x \in Progs \ {h} : ptr'[x] = ptr[x] /\ state'[x] = state[x]
    BY <1>1, <1>2 DEF addrun
  <2> QED
    BY <2>1 DEF Waiting
<1> QED
  BY <1>1, <1>3, <1>4 DEF Waiters

\* A value sent while somebody waits to receive finds the buffer empty; one that
\* somebody waits to send, full.
LEMMA WaitersBuffer ==
    ASSUME LineInv, NEW k \in Cases, q[k] # << >>
    PROVE  /\ k[1] = "recv" => buf[k[2]] = << >>
           /\ k[1] = "send" => Len(buf[k[2]]) = Cap[k[2]]
<1>1. /\ buf[k[2]] \in Seq(Vals) /\ Cap[k[2]] \in Nat /\ Len(buf[k[2]]) <= Cap[k[2]]
  BY DisChanAssumption, OppositeCase DEF LineInv, WaitInv, TypeOK, Fits
<1>2. ~Room(k)
  BY Vain DEF LineInv
<1> QED
  BY <1>1, <1>2 DEF Room, CANPUT, CANGET

\* What a receiver gets from a sender that waits, and what the buffer has then.
Passing(b, m, u) == IF m = 0 THEN <<u>> ELSE Append(b, u)

LEMMA Passed ==
    ASSUME NEW b \in Seq(Vals), NEW m \in Nat, Len(b) = m, NEW u
    PROVE  /\ Head(Passing(b, m, u)) = IF b = << >> THEN u ELSE Head(b)
           /\ Tail(Passing(b, m, u)) = IF b = << >> THEN b ELSE Append(Tail(b), u)
           /\ Len(Tail(Passing(b, m, u))) = m
<1> DEFINE z == Passing(b, m, u)
<1>0. z = IF m = 0 THEN <<u>> ELSE Append(b, u)
  BY DEF Passing
<1> HIDE DEF z
<1> DEFINE S == Vals \cup {u}
<1>1. b \in Seq(S) /\ u \in S
  OBVIOUS
<1> HIDE DEF S
<1>2. CASE m = 0
  <2>1. b = << >> /\ z = <<u>>
    BY <1>0, <1>2
  <2>2. Head(z) = u /\ Tail(z) = << >>
    BY <2>1
  <2> QED
    BY <1>2, <2>1, <2>2 DEF z
<1>3. CASE m # 0
  <2>1. b # << >> /\ z = Append(b, u)
    BY <1>0, <1>3
  <2>2. Head(z) = Head(b) /\ Tail(z) = Append(Tail(b), u)
    BY <1>1, <2>1, AppendBehind
  <2>3. Tail(b) \in Seq(S) /\ Len(Tail(b)) = m - 1
    BY <1>1, <2>1, TailFacts
  <2>4. Len(Append(Tail(b), u)) = m
    BY <1>1, <2>3, AppendFacts
  <2> QED
    BY <2>1, <2>2, <2>4 DEF z
<1> QED
  BY <1>2, <1>3

\* p communicates with the first that waits on the queue of the opposite case.
LEMMA PartnerLine ==
    ASSUME LineInv, WaitInv', Order, NEW p \in Progs, p \notin Waiters,
           NEW a \in Seq(Cases), NEW n \in 1 .. Len(a), NEW v \in Vals \cup {None},
           NEW qs \in [Cases -> Seq(Progs)], Behind(qs, p),
           \A k \in Cases : qs[k] = q[k] \/ qs[k] = Append(q[k], p),
           \/ a[n][1] = "send" /\ isend(p, a, n, v, qs)
           \/ a[n][1] = "recv" /\ irecv(p, a, n, qs)
    PROVE  Lined' /\ Promised
<1> DEFINE k == Opposite(a[n])
           c == a[n][2]
           h == Head(qs[k])
           b == IF Cap[c] = 0 THEN <<cell[h]>> ELSE Append(buf[c], cell[h])
           send == a[n][1] = "send"
           w == IF send THEN v ELSE Head(b)
           u == IF send THEN v ELSE cell[h]
           m == told(h, k)
<1>0. /\ WaitInv /\ InOrder /\ Agreed /\ Results /\ Fits
      /\ op \in [Progs -> Seq(Cases)] /\ cell \in [Progs -> Vals \cup {None}]
      /\ result \in [Progs -> Nat \cup {None}] /\ buf \in [Chans -> Seq(Vals)]
      /\ q \in [Cases -> Seq(Progs)] /\ Lists(q, Waiters, op)
      /\ Cap \in [Chans -> Nat] /\ None \notin Nat
  BY DisChanAssumption, NoneNoCase DEF LineInv, WaitInv, TypeOK
<1>1. /\ a[n] \in Cases /\ k \in Cases /\ c \in Chans /\ k[2] = c /\ n \in Nat
      /\ (send /\ a[n] = <<"send", c>> /\ k = <<"recv", c>>)
         \/ (~send /\ a[n] = <<"recv", c>> /\ k = <<"send", c>>)
  <2>1. a[n] \in Cases
    OBVIOUS
  <2>2. k \in Cases /\ c \in Chans /\ k[2] = c /\ a[n] \in {<<"send", c>>, <<"recv", c>>}
    BY <2>1, OppositeCase
  <2> QED
    BY <2>1, <2>2 DEF Opposite
<1>2. /\ qs[k] # << >> /\ h # p
      /\ q' = altdone(partner(qs, h, k), a, p)
      /\ settle(p, a, n, w, h, k, u)
      /\ buf' = IF send THEN buf ELSE [buf EXCEPT ![c] = Tail(b)]
  <2>1. CASE send /\ isend(p, a, n, v, qs)
    BY <2>1, Zenon DEF isend
  <2>2. CASE a[n][1] = "recv" /\ irecv(p, a, n, qs)
    <3>1. ~send
      BY <2>2
    <3>2. /\ qs[k] # << >> /\ h # p
          /\ q' = altdone(partner(qs, h, k), a, p)
          /\ settle(p, a, n, Head(b), h, k, cell[h])
          /\ buf' = [buf EXCEPT ![c] = Tail(b)]
      BY <2>2, Zenon DEF irecv
    <3> QED
      BY <3>1, <3>2
  <2> QED
    BY <2>1, <2>2
<1> HIDE DEF k, h, b, w, u, m, c, send
<1>3. q[k] # << >> /\ h = Head(q[k])
  <2>1. q[k] \in Seq(Progs)
    BY <1>0, <1>1
  <2>2. CASE qs[k] = Append(q[k], p)
    <3>1. q[k] = << >> => Head(qs[k]) = p
      BY <2>1, <2>2
    <3>2. q[k] # << >>
      BY <1>2, <3>1 DEF h
    <3> QED
      BY <2>1, <2>2, <3>2, AppendBehind DEF h
  <2>3. CASE qs[k] = q[k]
    BY <1>2, <2>3 DEF h
  <2> QED
    BY <1>1, <2>2, <2>3
<1>4. h \in Progs /\ h \in Waiters /\ In(k, op[h])
  <2>1. h \in Progs /\ In(h, q[k])
    BY <1>0, <1>1, <1>3, TailFacts, LeaveQueue DEF Lists
  <2> QED
    BY <1>0, <1>1, <2>1 DEF Lists
<1>5. m \in 1 .. Len(op[h]) /\ op[h][m] = k /\ m \in Nat
  <2>1. PICK i \in 1 .. Len(op[h]) : op[h][i] = k
    BY <1>4 DEF In
  <2>2. m \in 1 .. Len(op[h]) /\ op[h][m] = k
    BY <2>1, Zenon DEF told, m
  <2>3. Len(op[h]) \in Nat
    BY <1>0, <1>4
  <2> QED
    BY <2>2, <2>3
<1>6. /\ op' = [op EXCEPT ![p] = a] /\ result' = [result EXCEPT ![p] = n, ![h] = m]
      /\ cell' = [cell EXCEPT ![p] = w, ![h] = u]
  BY <1>2 DEF settle, m
<1>7. /\ op'[p] = a /\ result'[p] = n /\ cell'[p] = w
      /\ op'[h] = op[h] /\ result'[h] = m /\ cell'[h] = u
      /\ \A x \in Progs \ {p, h} : op'[x] = op[x] /\ result'[x] = result[x] /\ cell'[x] = cell[x]
  BY <1>0, <1>2, <1>4, <1>6
<1>8. Waiters' = Waiters \ {h}
  BY <1>0, <1>2, <1>4, SettleWaiters
<1>9. Stay
  BY <1>7, <1>8 DEF Stay, Waiters
<1>10. Kept
  <2>1. Behind(partner(qs, h, k), p)
    BY <1>1, <1>2, BehindPartner
  <2>2. Behind(q', p)
    BY <1>2, <2>1, BehindAltdone
  <2>3. p \notin Waiters'
    BY <1>8
  <2> QED
    BY <2>2, <2>3 DEF Kept, Behind
<1>11. InOrder' /\ Agreed' /\ Line' = Without(Line, {Offer(h)})
  BY <1>0, <1>4, <1>8, <1>9, <1>10, OrderLeave, AgreedLeave, OneOffer
<1>12. Results'
  <2> SUFFICES ASSUME NEW x \in Progs, result'[x] # None
               PROVE  x \notin Waiters' /\ result'[x] \in 1 .. Len(op'[x])
    BY DEF Results
  <2>1. CASE x \in {p, h}
    BY <1>5, <1>7, <1>8, <2>1
  <2>2. CASE x \notin {p, h}
    BY <1>0, <1>7, <1>8, <2>2 DEF Results
  <2> QED
    BY <2>1, <2>2
<1>13. Got' = [Got EXCEPT ![p] = <<a[n], w>>, ![h] = <<k, u>>]
  <2>1. n # None /\ m # None
    BY <1>0, <1>1, <1>5
  <2>2. Got'[p] = <<a[n], w>>
    BY <1>7, <2>1, GotFacts
  <2>3. Got'[h] = <<k, u>>
    BY <1>4, <1>5, <1>7, <2>1, GotFacts
  <2>4. ASSUME NEW x \in Progs \ {p, h} PROVE Got'[x] = Got[x]
    <3>1. op'[x] = op[x] /\ result'[x] = result[x] /\ cell'[x] = cell[x]
      BY <1>7
    <3> QED
      BY <3>1, GotFacts
  <2>5. DOMAIN Got = Progs
    BY DEF Got
  <2> QED
    BY <1>2, <1>4, <2>2, <2>3, <2>4, <2>5, GotFacts
\* The same in Rendezvous.
<1> DEFINE f == Promise!First(Promise!Opposite(a[n]))
           in == IF a[n][1] = "send" THEN v ELSE Line[f].val
           out == IF buf[c] = << >> THEN in ELSE Head(buf[c])
<1>14. /\ f \in 1 .. Len(Line) /\ Line[f] = Offer(h)
       /\ Line[f].who = h /\ Line[f].val = cell[h]
       /\ Promise!Opposite(a[n]) = k /\ Promise!Offering(k) # {}
  <2>1. Promise!Opposite(a[n]) = k
    BY DEF Promise!Opposite, Opposite, k
  <2>2. f \in 1 .. Len(Line) /\ Line[f] = Offer(h) /\ Promise!Offering(k) # {}
    BY <1>0, <1>1, <1>3, <2>1, FirstOffer, Offered
  <2>3. Offer(h).who = h /\ Offer(h).val = cell[h]
    BY DEF Offer
  <2> QED
    BY <2>1, <2>2, <2>3
<1> HIDE DEF f
<1>15. /\ k[1] = "recv" => buf[c] = << >>
       /\ k[1] = "send" => Len(buf[c]) = Cap[c]
  BY <1>1, <1>3, WaitersBuffer
<1>16. /\ w = IF send THEN v ELSE out
       /\ u = IF send THEN out ELSE cell[h]
       /\ buf' = [buf EXCEPT ![c] = IF @ = << >> THEN @ ELSE Append(Tail(@), in)]
       /\ Fits'
  <2>1. CASE send
    <3>1. buf[c] = << >> /\ in = v /\ out = v
      BY <1>1, <1>15, <2>1 DEF send
    <3>2. buf' = buf /\ w = v /\ u = v
      BY <1>2, <2>1 DEF w, u
    <3>3. buf' = [buf EXCEPT ![c] = IF @ = << >> THEN @ ELSE Append(Tail(@), in)]
      BY <1>0, <1>1, <3>1, <3>2
    <3>4. Fits'
      BY <1>0, <3>2 DEF Fits
    <3> QED
      BY <2>1, <3>1, <3>2, <3>3, <3>4
  <2>2. CASE ~send
    <3>1. in = cell[h] /\ u = cell[h] /\ w = Head(b)
      BY <1>14, <2>2 DEF send, u, w
    <3>2. buf[c] \in Seq(Vals) /\ Cap[c] \in Nat /\ Len(buf[c]) = Cap[c]
      BY <1>0, <1>1, <1>15, <2>2
    <3>3. /\ Head(b) = IF buf[c] = << >> THEN cell[h] ELSE Head(buf[c])
          /\ Tail(b) = IF buf[c] = << >> THEN buf[c] ELSE Append(Tail(buf[c]), cell[h])
          /\ Len(Tail(b)) = Cap[c]
      <4> DEFINE old == buf[c]
                 new == cell[h]
      <4>1. b = Passing(old, Cap[c], new)
        BY DEF b, Passing
      <4>2. old \in Seq(Vals) /\ Cap[c] \in Nat /\ Len(old) = Cap[c]
        BY <3>2
      <4> HIDE DEF old, new
      <4>3. /\ Head(b) = IF old = << >> THEN new ELSE Head(old)
            /\ Tail(b) = IF old = << >> THEN old ELSE Append(Tail(old), new)
            /\ Len(Tail(b)) = Cap[c]
        BY <4>1, <4>2, Passed
      <4> QED
        BY <4>3 DEF old, new
    <3>4. buf' = [buf EXCEPT ![c] = Tail(b)]
      BY <1>2, <2>2
    <3>5. buf' = [buf EXCEPT ![c] = IF @ = << >> THEN @ ELSE Append(Tail(@), in)]
      BY <1>0, <1>1, <3>1, <3>3, <3>4
    <3>6. Fits'
      BY <1>0, <1>1, <3>2, <3>3, <3>4 DEF Fits
    <3> QED
      BY <2>2, <3>1, <3>3, <3>5, <3>6
  <2> QED
    BY <2>1, <2>2
<1>17. Promise!Meet(p, a[n], v)
  <2>1. ~Promise!Waits(p)
    BY <1>0, NoOffer
  <2>2. /\ Line' = Promise!Without(Line, {Line[f]})
        /\ Promise!Offering(Promise!Opposite(a[n])) # {}
    BY <1>11, <1>14, PromiseQueues
  <2>3. Got' = [Got EXCEPT ![p] = <<a[n], IF a[n][1] = "send" THEN v ELSE out>>,
                           ![Line[f].who] = <<Promise!Opposite(a[n]),
                                              IF a[n][1] = "send" THEN out ELSE Line[f].val>>]
    BY <1>13, <1>14, <1>16 DEF send
  <2> QED
    BY <1>16, <2>1, <2>2, <2>3 DEF Promise!Meet, f, c
<1>18. Promised
  <2>1. a[n] \in Promise!Cases
    BY <1>1 DEF Promise!Cases, Cases, Dirs
  <2> QED
    BY <1>17, <2>1, Zenon DEF Promise!Next, Promised
<1> QED
  BY <1>11, <1>12, <1>16, <1>18 DEF Lined

LEMMA CommunicateLine ==
    ASSUME LineInv, WaitInv', Order, NEW p \in Progs, p \notin Waiters,
           NEW a \in Seq(Cases), NEW n \in 1 .. Len(a), NEW v \in Vals \cup {None},
           NEW qs \in [Cases -> Seq(Progs)],
           \A k \in Cases : qs[k] = q[k] \/ qs[k] = Append(q[k], p),
           Communicate(p, a, n, v, qs)
    PROVE  Lined' /\ Promised
<1>1. \A k \in Cases : q[k] \in Seq(Progs) /\ qs[k] \in Seq(Progs)
  BY DEF LineInv, WaitInv, TypeOK
<1>2. Behind(qs, p)
  BY <1>1, JoinOrder DEF Behind
<1>3. \A k \in Cases : q[k] # << >> => qs[k] # << >>
  BY <1>1, AppendBehind
<1>4. \/ \/ a[n][1] = "send" /\ v \in Vals /\ cputb(p, a, n, v, qs)
         \/ a[n][1] = "recv" /\ cgetb(p, a, n, qs)
      \/ \/ a[n][1] = "send" /\ isend(p, a, n, v, qs)
         \/ a[n][1] = "recv" /\ irecv(p, a, n, qs)
  BY DEF Communicate
<1> QED
  BY <1>2, <1>3, <1>4, AloneLine, PartnerLine

\* p runs: it does not wait, and has done with what it did.
LEMMA RunsFacts ==
    ASSUME WaitInv, NEW p \in Progs, Runs(p)
    PROVE  /\ p \notin Waiters /\ op[p] = << >> /\ state[p] = "ready"
           /\ \A k \in Cases : ~In(p, q[k])
BY ReadyIdle DEF Runs, WaitInv, Lists, Waiters

LEMMA EndsLine ==
    ASSUME LineInv, WaitInv', Order, NEW p \in Progs,
           (\E k \in Cases : Immediate(p, k)) \/ (\E a \in Alts : altcomm(p, a))
    PROVE  Lined' /\ Promised
<1>0. WaitInv /\ TypeOK /\ q \in [Cases -> Seq(Progs)]
  BY DEF LineInv, WaitInv, TypeOK
<1>1. ASSUME NEW k \in Cases, Immediate(p, k) PROVE Lined' /\ Promised
  <2> DEFINE a == <<k>>
  <2>1. PICK v \in Sendable(a) : Communicate(p, a, 1, v, q)
    BY <1>1 DEF Immediate
  <2>2. a \in Seq(Cases) /\ 1 \in 1 .. Len(a)
    OBVIOUS
  <2> HIDE DEF a
  <2>3. v \in Vals \cup {None} /\ p \notin Waiters
    BY <1>0, <1>1, SendableFacts, RunsFacts DEF Immediate
  <2> QED
    BY <1>0, <2>1, <2>2, <2>3, CommunicateLine
<1>2. ASSUME NEW a \in Alts, altcomm(p, a) PROVE Lined' /\ Promised
  <2> DEFINE qs == Marked(p, a)
  <2>1. PICK n \in Picks(p, a), v \in Sendable(a) : Communicate(p, a, n, v, qs)
    BY <1>2 DEF altcomm
  <2>2. /\ a \in Seq(Cases) /\ ~exAlt(a) /\ p \notin Waiters
        /\ \A k \in Cases : ~In(p, q[k])
    BY <1>0, <1>2, AltCases, RunsFacts DEF altcomm
  <2>3. n \in 1 .. Len(a)
    BY <1>0, <2>2, PicksFacts
  <2>4. \A k \in Cases : qs[k] = IF In(k, a) THEN Append(q[k], p) ELSE q[k]
    BY <1>0, <2>2, MarkedFacts
  <2>5. qs = [k \in Cases |-> qs[k]]
    BY DEF Marked
  <2> HIDE DEF qs
  <2>6. \A k \in Cases : qs[k] \in Seq(Progs)
    BY <1>0, <2>4, AppendInSeq
  <2>7. qs \in [Cases -> Seq(Progs)]
    BY <2>5, <2>6
  <2>8. v \in Vals \cup {None}
    BY SendableFacts
  <2> QED
    BY <2>1, <2>2, <2>3, <2>4, <2>7, <2>8, CommunicateLine
<1> QED
  BY <1>1, <1>2

LEMMA StartsLine ==
    ASSUME LineInv, WaitInv', Order, NEW p \in Progs,
           (\E k \in Cases : Block(p, k) \/ ccom(p, k)) \/ (\E a \in Alts : altBlock(p, a))
    PROVE  Lined' /\ Promised
<1>0. /\ WaitInv /\ TypeOK /\ q \in [Cases -> Seq(Progs)]
      /\ state \in [Progs -> States] /\ ptr \in [Progs -> BOOLEAN]
  BY DEF LineInv, WaitInv, TypeOK, States
<1>1. PICK a \in Seq(Cases) : /\ Runs(p) /\ UNCHANGED <<buf, result>>
                              /\ \A k \in Cases : q'[k] = IF In(k, a) THEN Append(q[k], p) ELSE q[k]
                              /\ \A k \in Cases : In(k, a) => ~Ready(q, k)
                              /\ op' = [op EXCEPT ![p] = a]
                              /\ \E v \in Sendable(a) : cell' = [cell EXCEPT ![p] = v]
  <2>1. ASSUME NEW k \in Cases, Block(p, k) \/ ccom(p, k)
        PROVE  /\ <<k>> \in Seq(Cases) /\ Runs(p) /\ UNCHANGED <<buf, result>>
               /\ \A j \in Cases : q'[j] = IF In(j, <<k>>) THEN Append(q[j], p) ELSE q[j]
               /\ \A j \in Cases : In(j, <<k>>) => ~Ready(q, j)
               /\ op' = [op EXCEPT ![p] = <<k>>]
               /\ \E v \in Sendable(<<k>>) : cell' = [cell EXCEPT ![p] = v]
    <3>1. \A j : In(j, <<k>>) <=> j = k
      BY DEF In
    <3>2. Runs(p) /\ UNCHANGED <<buf, result>> /\ ~Ready(q, k) /\ q' = cqadd(q, k, p)
      BY <2>1 DEF Block, ccom
    <3>3. /\ op' = [op EXCEPT ![p] = <<k>>]
          /\ \E v \in Sendable(<<k>>) : cell' = [cell EXCEPT ![p] = v]
      BY <2>1, Zenon DEF Block, ccom
    <3>4. \A j \in Cases : q'[j] = IF j = k THEN Append(q[j], p) ELSE q[j]
      BY <1>0, <3>2 DEF cqadd
    <3>5. <<k>> \in Seq(Cases)
      OBVIOUS
    <3>6. \A j \in Cases : q'[j] = IF In(j, <<k>>) THEN Append(q[j], p) ELSE q[j]
      BY <3>1, <3>4
    <3>7. \A j \in Cases : In(j, <<k>>) => ~Ready(q, j)
      BY <3>1, <3>2
    <3> QED
      BY <3>2, <3>3, <3>5, <3>6, <3>7, Zenon
  <2>2. ASSUME NEW a \in Alts, altBlock(p, a)
        PROVE  /\ a \in Seq(Cases) /\ Runs(p) /\ UNCHANGED <<buf, result>>
               /\ \A j \in Cases : q'[j] = IF In(j, a) THEN Append(q[j], p) ELSE q[j]
               /\ \A j \in Cases : In(j, a) => ~Ready(q, j)
               /\ op' = [op EXCEPT ![p] = a]
               /\ \E v \in Sendable(a) : cell' = [cell EXCEPT ![p] = v]
    <3>1. /\ a \in Seq(Cases) /\ Runs(p) /\ ~exAlt(a) /\ nrdy(a) = 0
          /\ q' = Marked(p, a) /\ UNCHANGED <<buf, result>>
      BY <2>2, AltCases DEF altBlock
    <3>2. /\ op' = [op EXCEPT ![p] = a]
          /\ \E v \in Sendable(a) : cell' = [cell EXCEPT ![p] = v]
      BY <2>2, Zenon DEF altBlock
    <3>3. \A k \in Cases : ~In(p, q[k])
      BY <1>0, <3>1, RunsFacts
    <3> QED
      BY <1>0, <3>1, <3>2, <3>3, MarkedFacts, NoneReady
  <2> QED
    BY <2>1, <2>2
<1>2. PICK st \in {"alt", "send", "recv", "release"} :
         /\ state' = [state EXCEPT ![p] = st]
         /\ ptr' = [ptr EXCEPT ![p] = (st = "release")] \/ (ptr' = ptr /\ st # "release")
  <2>1. \A k \in Cases : k[1] \in {"send", "recv"}
    BY DEF Cases, Dirs
  <2> QED
    BY <2>1 DEF Block, ccom, altBlock, kproc
<1>3. p \notin Waiters /\ op[p] = << >>
  BY <1>0, <1>1, RunsFacts
<1>4. Waiters' = Waiters \cup {p}
  <2>1. Waiting(p)'
    BY <1>0, <1>2 DEF Waiting
  <2>2. \A x \in Progs \ {p} : Waiting(x)' <=> Waiting(x)
    BY <1>0, <1>2 DEF Waiting
  <2> QED
    BY <2>1, <2>2 DEF Waiters
<1> QED
  BY <1>1, <1>3, <1>4, JoinLine

LEMMA StopsLine ==
    ASSUME LineInv, WaitInv', Order, NEW p \in Progs,
           killprog(p) \/ exprog(p) \/ acquireError(p) \/ Proceed(p) \/ Raise(p)
    PROVE  Lined' /\ Promised
<1>0. /\ WaitInv /\ TypeOK /\ Held(p) /\ Lists(q, Waiters, op)
      /\ q \in [Cases -> Seq(Progs)]
      /\ state \in [Progs -> States] /\ ptr \in [Progs -> BOOLEAN]
  BY DEF LineInv, WaitInv, TypeOK, States
<1>1. Over(p) /\ UNCHANGED buf
  BY DEF killprog, exprog, acquireError, Proceed, Raise
<1>2. \A k \in Cases : q'[k] = q[k] \/ q'[k] = Without(q[k], {p})
  <2>1. CASE killprog(p) \/ exprog(p)
    BY <2>1 DEF killprog, exprog, Unqueued, altdone
  <2>2. CASE acquireError(p)
    <3>1. q' = q \/ q' = cqdelp(q, op[p][1], p)
      BY <2>2 DEF acquireError
    <3> QED
      BY <1>0, <3>1 DEF cqdelp
  <2>3. CASE Proceed(p) \/ Raise(p)
    BY <2>3 DEF Proceed, Raise
  <2> QED
    BY <2>1, <2>2, <2>3
<1>3. Waiters' = Waiters \ {p}
  <2>1. CASE acquireError(p)
    <3>1. /\ state' = [state EXCEPT ![p] = "ready"] /\ ptr' = [ptr EXCEPT ![p] = FALSE]
      BY <2>1 DEF acquireError
    <3> QED
      BY <1>0, <3>1 DEF Waiters, Waiting
  <2>2. CASE ~acquireError(p)
    <3>1. /\ \E st \in {"ready", "dead"} : state' = [state EXCEPT ![p] = st]
          /\ ptr' = ptr
      BY <1>0, <2>2 DEF killprog, exprog, Proceed, Raise, kproc
    <3>2. state[p] \in {"ready", "alt", "send", "recv"}
      BY <2>2 DEF killprog, exprog, Proceed, Raise
    <3>3. ~ptr[p]
      BY <1>0, <3>2, ReadyIdle
    <3> QED
      BY <1>0, <3>1, <3>3 DEF Waiters, Waiting
  <2> QED
    BY <2>1, <2>2
<1> QED
  BY <1>1, <1>2, <1>3, OverLine

LEMMA QuietsLine ==
    ASSUME LineInv, WaitInv', Order, NEW p \in Progs,
           \/ Sleep(p) \/ Back(p) \/ acquire(p) \/ killReleased(p)
           \/ exprogReleased(p) \/ exprogKill(p) \/ newprog(p)
    PROVE  Lined' /\ Promised
<1>0. TypeOK /\ Held(p) /\ state \in [Progs -> States]
  BY DEF LineInv, WaitInv, TypeOK, States
<1>1. UNCHANGED <<q, buf, op, cell, result, ptr>>
  BY DEF Sleep, Back, acquire, killReleased, exprogReleased, exprogKill, newprog, mine, kproc
<1>2. \/ state' = state
      \/ /\ state[p] \in {"release", "exiting", "dead"}
         /\ \E st \in {"ready", "exiting"} : state' = [state EXCEPT ![p] = st]
  <2>1. pc[p] = "acquire" => state[p] \in {"release", "exiting"}
    BY <1>0 DEF Held
  <2> QED
    BY <2>1 DEF Sleep, Back, acquire, killReleased, exprogReleased, exprogKill, newprog
<1>3. \A x \in Progs : Waiting(x)' <=> Waiting(x)
  BY <1>0, <1>1, <1>2 DEF Waiting
<1>4. Waiters' = Waiters
  BY <1>3, SameWaiters
<1> QED
  BY <1>1, <1>4, QuietLine

-----------------------------------------------------------------------------
LEMMA LineNext == LineInv /\ [OrderNext]_<<vars, order>> => LineInv' /\ Promised
<1> SUFFICES ASSUME LineInv, [OrderNext]_<<vars, order>> PROVE LineInv' /\ Promised
  OBVIOUS
<1>1. WaitInv' /\ NoneInVain'
  BY WaitNext, VainNext DEF LineInv, OrderNext
<1>2. CASE UNCHANGED <<vars, order>>
  <2>1. UNCHANGED <<q, buf, op, cell, result, state, ptr, order>>
    BY <1>2 DEF vars, mine, kproc
  <2>2. Waiters' = Waiters
    BY <2>1 DEF Waiters, Waiting
  <2>3. InOrder' /\ Agreed' /\ Results' /\ Fits'
    BY <2>1, <2>2 DEF LineInv, InOrder, Agreed, Before, In, Distinct, Results, Fits
  <2>4. Line' = Line /\ Got' = Got
    BY <2>1 DEF Line, Offer, Got, ToSet
  <2> QED
    BY <1>1, <2>1, <2>3, <2>4 DEF LineInv, Promised
<1>3. CASE Next /\ Order
  <2>1. Lined' /\ Promised
    BY <1>1, <1>3, EndsLine, StartsLine, StopsLine, QuietsLine, HangupLine, Zenon DEF Next
  <2> QED
    BY <1>1, <2>1 DEF LineInv, Lined
<1> QED
  BY <1>2, <1>3 DEF OrderNext

LEMMA LineInit == OrderInit => LineInv /\ Promise!Init
<1> SUFFICES ASSUME OrderInit PROVE LineInv /\ Promise!Init
  OBVIOUS
<1>1. Init /\ order = << >>
  BY DEF OrderInit
<1>2. WaitInv /\ NoneInVain
  BY <1>1, WaitInit DEF Init, NoneInVain
<1>3. Waiters = {}
  BY <1>1 DEF Init, Waiters, Waiting
<1>4. InOrder /\ Agreed
  BY <1>1, <1>3 DEF Init, InOrder, Agreed, Before, In, Distinct
<1>5. Results /\ Fits
  BY <1>1, DisChanAssumption DEF Init, Results, Fits
<1>6. Line = << >> /\ buf = [c \in Chans |-> << >>] /\ Got = [p \in Progs |-> None]
  BY <1>1 DEF Init, Line, Got
<1> QED
  BY <1>2, <1>4, <1>5, <1>6 DEF LineInv, Promise!Init

\* Channels keep the promise of Rendezvous, for any number of Progs, channels,
\* buffers and alts: who communicates does so in one case, with the one that has
\* waited longest in the opposite case or with the buffer, and leaves every queue
\* when it does, when it is killed and when a channel is hung up.
THEOREM ChanKeepsPromise == OrderSpec => KeepsPromise
<1>1. LineInv /\ [OrderNext]_<<vars, order>> => [Promise!Next]_<<Line, buf, Got>>
  BY LineNext DEF Promised
<1>2. OrderSpec => []LineInv
  BY LineInit, LineNext, PTL DEF OrderSpec
<1>3. OrderSpec => Promise!Init /\ [][Promise!Next]_<<Line, buf, Got>>
  BY <1>1, <1>2, LineInit, PTL DEF OrderSpec
<1> QED
  BY <1>3 DEF KeepsPromise, Promise!Spec, Promise!vars
=============================================================================
