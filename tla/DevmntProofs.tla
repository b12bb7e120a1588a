----------------------------- MODULE DevmntProofs -----------------------------
(* Proofs, for any number of Procs and headers, about the turn to read, the *)
(* tags and the replies of Devmnt.                                          *)
EXTENDS Devmnt, QueueLemmas

\* One step of p moves it, and others from their sleep at most.
Moves(p, to) == /\ pc' \in [Procs -> Labels]
                /\ pc'[p] = to
                /\ \A x \in Procs \ {p} :
                      pc'[x] = pc[x] \/ (pc[x] = "asleep" /\ pc'[x] = "woken")

TurnTyped == pc \in [Procs -> Labels] /\ rip \in Procs \cup {None}

LEMMA GotoMoves ==
    ASSUME NEW p \in Procs, NEW to \in Labels, pc \in [Procs -> Labels],
           pc' = [pc EXCEPT ![p] = to]
    PROVE  Moves(p, to)
BY DEF Moves

LEMMA GateMoves ==
    ASSUME NEW p \in Procs, NEW to \in Labels, pc \in [Procs -> Labels], mntgate(p, to)
    PROVE  Moves(p, to) /\ rip' = None
<1> DEFINE waits == {n \in 1 .. Len(queue) : ~done[queue[n]] /\ Sleeper(queue[n]) # {}}
           next == IF waits = {} THEN {}
                   ELSE Sleeper(queue[CHOOSE n \in waits : \A m \in waits : n <= m])
<1>1. /\ rip' = None
      /\ pc' = [x \in Procs |-> IF x = p THEN to
                                ELSE IF x \in next THEN "woken" ELSE pc[x]]
  BY Zenon DEF mntgate
<1>2. \A x \in next : x \in Procs /\ pc[x] = "asleep"
  BY Zenon DEF Sleeper
<1> HIDE DEF next
<1>3. "woken" \in Labels
  BY DEF Labels
<1> QED
  BY <1>1, <1>2, <1>3 DEF Moves

LEMMA WakeupMoves ==
    ASSUME NEW p \in Procs, pc \in [Procs -> Labels], muxWakeup(p)
    PROVE  pc[p] = "wake" /\ Moves(p, "read")
<1>1. \A x \in Sleeper(target[p]) : x \in Procs /\ pc[x] = "asleep"
  BY DEF Sleeper
<1>2. {"woken", "read"} \subseteq Labels
  BY DEF Labels
<1> QED
  BY <1>1, <1>2 DEF Moves, muxWakeup

Acts(p) == Step(p) \/ Interrupt(p) \/ \E h \in Hdrs : mountrpc(p, h)

\* What each action does to the place of its Proc.
Place(p) == \E to \in Labels : Moves(p, to) /\
    \/ /\ pc[p] \notin {"read", "wake"} /\ to \notin {"read", "wake"} /\ rip' = rip
    \/ pc[p] = "gate" /\ to = "read" /\ rip = None /\ rip' = p
    \/ pc[p] \in {"read", "wake"} /\ to \in {"read", "wake"} /\ rip' = rip
    \/ pc[p] = "read" /\ to \notin {"read", "wake"} /\ rip' = None

LEMMA ActsPlace ==
    ASSUME NEW p \in Procs, TurnTyped, Acts(p) PROVE Place(p)
<1> USE DEF Place, Goto, mnt
<1>0. /\ pc \in [Procs -> Labels]
      /\ {"idle", "write", "gate", "sleep", "asleep", "woken", "read", "wake",
          "flush", "free", "return"} \subseteq Labels
  BY DEF TurnTyped, Labels
<1>1. CASE \E h \in Hdrs : mountrpc(p, h) \/ mntflushalloc(p, h)
  BY <1>0, <1>1, GotoMoves DEF mountrpc, mntflushalloc
<1>2. CASE write(p) \/ writeFail(p) \/ writeEintr(p)
  BY <1>0, <1>2, GotoMoves DEF write, writeFail, writeEintr
<1>3. CASE gateTake(p) \/ gateWait(p)
  BY <1>0, <1>3, GotoMoves DEF gateTake, gateWait
<1>4. CASE Sleep(p) \/ Woken(p) \/ sleepEintr(p)
  BY <1>0, <1>4, GotoMoves DEF Sleep, Woken, sleepEintr
<1>5. CASE readDone(p) \/ readFail(p) \/ readEintr(p)
  BY <1>0, <1>5, GateMoves DEF readDone, readFail, readEintr
<1>6. CASE readReply(p)
  <2>1. pc[p] = "read" /\ rip' = rip /\ (pc' = [pc EXCEPT ![p] = "wake"] \/ pc' = pc)
    BY <1>6 DEF readReply
  <2>2. pc' = pc => pc' = [pc EXCEPT ![p] = "read"]
    BY <1>0, <2>1
  <2> QED
    BY <1>0, <2>1, <2>2, GotoMoves
<1>7. CASE muxWakeup(p)
  BY <1>0, <1>7, WakeupMoves DEF muxWakeup
<1>8. CASE mntflushfree(p) \/ Return(p)
  <2>1. pc[p] \in {"free", "return"} /\ rip' = rip
    BY <1>8 DEF mntflushfree, Return
  <2>2. \E to \in {"free", "return", "idle"} : pc' = [pc EXCEPT ![p] = to]
    BY <1>0, <1>8 DEF mntflushfree, Return
  <2> QED
    BY <1>0, <2>1, <2>2, GotoMoves
<1> QED
  BY <1>1, <1>2, <1>3, <1>4, <1>5, <1>6, <1>7, <1>8 DEF Acts, Step, Interrupt

\* The others leave Procs where they are.
LEMMA OthersStay ==
    ASSUME [Next]_vars PROVE (\E p \in Procs : Acts(p)) \/ UNCHANGED <<pc, chain, rip>>
<1>1. CASE \E p \in Procs : Acts(p)
  BY <1>1
<1>2. CASE (\E n \in 1 .. Len(sent) : serve(n)) \/ hangup \/ remount \/ UNCHANGED vars
  BY <1>2 DEF serve, hangup, remount, vars, mnt
<1>3. CASE \E p \in Procs : ServeFlush(p)
  BY <1>3 DEF ServeFlush, serveFlush, mnt
<1> QED
  BY <1>1, <1>2, <1>3 DEF Next, Acts

-----------------------------------------------------------------------------
(* One reader.                                                             *)

TurnInv == TurnTyped /\ OneReader

LEMMA TurnKept == TurnInv /\ [Next]_vars => TurnInv'
<1> SUFFICES ASSUME TurnInv, [Next]_vars PROVE TurnInv'
  OBVIOUS
<1>0. TurnTyped /\ OneReader
  BY DEF TurnInv
<1>1. CASE UNCHANGED <<pc, rip>>
  BY <1>0, <1>1 DEF TurnInv, TurnTyped, OneReader
<1>2. ASSUME NEW p \in Procs, Acts(p) PROVE TurnInv'
  <2>1. PICK to \in Labels : Moves(p, to) /\
           \/ /\ pc[p] \notin {"read", "wake"} /\ to \notin {"read", "wake"} /\ rip' = rip
           \/ pc[p] = "gate" /\ to = "read" /\ rip = None /\ rip' = p
           \/ pc[p] \in {"read", "wake"} /\ to \in {"read", "wake"} /\ rip' = rip
           \/ pc[p] = "read" /\ to \notin {"read", "wake"} /\ rip' = None
    BY <1>0, <1>2, ActsPlace DEF Place
  <2>2. TurnTyped'
    BY <1>0, <2>1 DEF TurnTyped, Moves
  <2>3. \A x \in Procs \ {p} : pc'[x] \in {"read", "wake"} <=> pc[x] \in {"read", "wake"}
    BY <2>1 DEF Moves
  <2>4. None \notin Procs
    BY DevmntAssumption
  <2>5. ASSUME NEW x \in Procs PROVE pc'[x] \in {"read", "wake"} <=> rip' = x
    <3>1. pc'[p] = to
      BY <2>1 DEF Moves
    <3>2. \A y \in Procs : pc[y] \in {"read", "wake"} <=> rip = y
      BY <1>0 DEF OneReader
    <3> QED
      BY <2>1, <2>3, <2>4, <3>1, <3>2
  <2> QED
    BY <2>2, <2>5 DEF TurnInv, OneReader
<1> QED
  BY <1>1, <1>2, OthersStay

\* Whoever reads replies has the turn, m->rip, and nobody else reads: the turn
\* that is given up, and taken by a Proc that was woken for it or came first, is
\* never two Procs', whoever is interrupted meanwhile.
THEOREM OneReaderKept == Spec => []OneReader
<1>1. Init => TurnInv
  BY DevmntAssumption DEF Init, TurnInv, TurnTyped, OneReader, Labels
<1> QED
  BY <1>1, TurnKept, PTL DEF Spec, TurnInv

-----------------------------------------------------------------------------
(* Who owns a header.                                                      *)

\* A header is in one chain, once, and a Proc in an RPC has one.
Owned == /\ \A p \in Procs : Distinct(chain[p])
         /\ \A p, q \in Procs : \A h \in Hdrs :
               In(h, chain[p]) /\ In(h, chain[q]) => p = q
         /\ \A p \in Procs : chain[p] = << >> => pc[p] = "idle"

HeaderInv == TurnTyped /\ chain \in [Procs -> Seq(Hdrs)] /\ Owned

\* A header that mntralloc hands out is in nobody's chain.
LEMMA FreeIsUnowned ==
    ASSUME chain \in [Procs -> Seq(Hdrs)], NEW h \in Free
    PROVE  h \in Hdrs /\ \A p \in Procs : ~In(h, chain[p])
<1>1. h \in Hdrs /\ \A p \in Procs : h \notin ToSet(chain[p])
  BY DEF Free
<1>2. ASSUME NEW p \in Procs, In(h, chain[p]) PROVE h \in ToSet(chain[p])
  <2>1. PICK i \in 1 .. Len(chain[p]) : chain[p][i] = h
    BY <1>2 DEF In
  <2>2. DOMAIN chain[p] = 1 .. Len(chain[p])
    OBVIOUS
  <2> QED
    BY <2>1, <2>2 DEF ToSet
<1> QED
  BY <1>1, <1>2

LEMMA TailLeaves ==
    ASSUME NEW S, NEW q \in Seq(S), Len(q) > 1
    PROVE  Tail(q) \in Seq(S) /\ Tail(q) # << >>
<1> DEFINE t == Tail(q)
<1>1. t \in Seq(S) /\ Len(q) \in Nat /\ Len(t) = Len(q) - 1
  BY TailFacts
<1> HIDE DEF t
<1>2. Len(t) # 0
  BY <1>1
<1>3. t # << >>
  BY <1>2
<1> QED
  BY <1>1, <1>3 DEF t

\* What becomes of the chain of the Proc that acts.
Chained(p) ==
    \/ /\ \E h \in Free : chain' = [chain EXCEPT ![p] = <<h>> \o @]
       /\ pc'[p] # "idle"
    \/ /\ chain' = [chain EXCEPT ![p] = Tail(@)]
       /\ Len(chain[p]) > 1
    \/ /\ chain' = [chain EXCEPT ![p] = << >>]
       /\ pc'[p] = "idle"
    \/ /\ chain' = chain
       /\ pc[p] # "idle"

LEMMA ActsChained ==
    ASSUME NEW p \in Procs, HeaderInv, Acts(p) PROVE Chained(p)
<1> USE DEF Chained, Goto, HeaderInv, TurnTyped
<1>1. CASE \E h \in Hdrs : mountrpc(p, h) \/ mntflushalloc(p, h)
  <2>1. \E h \in Free : chain' = [chain EXCEPT ![p] = <<h>> \o @]
    BY <1>1 DEF mountrpc, mntflushalloc, mntralloc
  <2>2. pc'[p] = "write"
    BY <1>1 DEF mountrpc, mntflushalloc
  <2> QED
    BY <2>1, <2>2
<1>2. CASE write(p) \/ writeFail(p) \/ writeEintr(p)
  BY <1>2 DEF write, writeFail, writeEintr
<1>3. CASE gateTake(p) \/ gateWait(p)
  BY <1>3 DEF gateTake, gateWait
<1>4. CASE Sleep(p) \/ Woken(p) \/ sleepEintr(p)
  BY <1>4 DEF Sleep, Woken, sleepEintr
<1>5. CASE readDone(p) \/ readFail(p) \/ readEintr(p) \/ readReply(p)
  BY <1>5 DEF readDone, readFail, readEintr, readReply
<1>6. CASE muxWakeup(p)
  BY <1>6 DEF muxWakeup
<1>7. CASE mntflushfree(p)
  <2>1. CASE Flushing(p)
    BY <1>7, <2>1 DEF mntflushfree, Flushing
  <2>2. CASE ~Flushing(p)
    BY <1>7, <2>2 DEF mntflushfree
  <2> QED
    BY <2>1, <2>2
<1>8. CASE Return(p)
  BY <1>8 DEF Return
<1> QED
  BY <1>1, <1>2, <1>3, <1>4, <1>5, <1>6, <1>7, <1>8 DEF Acts, Step, Interrupt

LEMMA HeadersKept == HeaderInv /\ [Next]_vars => HeaderInv'
<1> SUFFICES ASSUME HeaderInv, [Next]_vars PROVE HeaderInv'
  OBVIOUS
<1>0. /\ TurnTyped
      /\ chain \in [Procs -> Seq(Hdrs)]
      /\ \A p \in Procs : Distinct(chain[p])
      /\ \A p, q \in Procs : \A h \in Hdrs : In(h, chain[p]) /\ In(h, chain[q]) => p = q
      /\ \A p \in Procs : chain[p] = << >> => pc[p] = "idle"
  BY DEF HeaderInv, Owned
<1>1. CASE UNCHANGED <<pc, chain, rip>>
  BY <1>0, <1>1 DEF HeaderInv, Owned, TurnTyped, Distinct, In
<1>2. ASSUME NEW p \in Procs, Acts(p) PROVE HeaderInv'
  <2>1. PICK to \in Labels : Moves(p, to) /\ rip' \in {rip, p, None}
    BY <1>0, <1>2, ActsPlace DEF Place
  <2>2. TurnTyped'
    BY <1>0, <2>1 DEF TurnTyped, Moves
  <2>3. \A x \in Procs \ {p} : pc[x] = "idle" => pc'[x] = "idle"
    BY <2>1 DEF Moves
  <2>4. SUFFICES ASSUME NEW s \in Seq(Hdrs), chain' = [chain EXCEPT ![p] = s],
                        Distinct(s),
                        \A h \in Hdrs : In(h, s) =>
                            In(h, chain[p]) \/ \A q \in Procs : ~In(h, chain[q]),
                        s = << >> => pc'[p] = "idle"
                 PROVE  HeaderInv'
    <3>1. Chained(p)
      BY <1>2, ActsChained
    <3>2. CASE \E h \in Free : chain' = [chain EXCEPT ![p] = <<h>> \o @]
      <4>1. PICK h \in Free : chain' = [chain EXCEPT ![p] = <<h>> \o @]
        BY <3>2
      <4>2. h \in Hdrs /\ \A q \in Procs : ~In(h, chain[q])
        BY <1>0, FreeIsUnowned
      <4>3. /\ <<h>> \o chain[p] \in Seq(Hdrs)
            /\ <<h>> \o chain[p] # << >>
            /\ Distinct(<<h>> \o chain[p])
            /\ \A x \in Hdrs : In(x, <<h>> \o chain[p]) <=> In(x, chain[p]) \/ x = h
        BY <1>0, <4>2, PushQueue
      <4> QED
        BY <2>4, <4>1, <4>2, <4>3
    <3>3. CASE chain' = [chain EXCEPT ![p] = Tail(@)] /\ Len(chain[p]) > 1
      <4>1. chain[p] \in Seq(Hdrs) /\ chain[p] # << >> /\ Distinct(chain[p])
        BY <1>0, <3>3
      <4>2. Tail(chain[p]) \in Seq(Hdrs) /\ Tail(chain[p]) # << >>
        BY <3>3, <4>1, TailLeaves
      <4>3. /\ Distinct(Tail(chain[p]))
            /\ \A x \in Hdrs : In(x, Tail(chain[p])) => In(x, chain[p])
        BY <4>1, LeaveQueue
      <4> QED
        BY <2>4, <3>3, <4>2, <4>3
    <3>4. CASE chain' = [chain EXCEPT ![p] = << >>] /\ pc'[p] = "idle"
      <4>1. << >> \in Seq(Hdrs) /\ Distinct(<< >>) /\ \A h \in Hdrs : ~In(h, << >>)
        BY DEF Distinct, In
      <4> QED
        BY <2>4, <3>4, <4>1
    <3>5. CASE chain' = chain /\ pc[p] # "idle"
      <4>1. chain' = [chain EXCEPT ![p] = chain[p]]
        BY <1>0, <3>5
      <4> QED
        BY <1>0, <2>4, <3>5, <4>1
    <3> QED
      BY <3>1, <3>2, <3>3, <3>4, <3>5 DEF Chained
  <2>5. chain' \in [Procs -> Seq(Hdrs)]
    BY <1>0, <2>4
  <2>6. \A x \in Procs : chain'[x] = IF x = p THEN s ELSE chain[x]
    BY <1>0, <2>4
  <2>7. \A x \in Procs : Distinct(chain'[x])
    BY <1>0, <2>4, <2>6
  <2>8. ASSUME NEW x \in Procs, NEW y \in Procs, NEW h \in Hdrs,
               In(h, chain'[x]), In(h, chain'[y]), x # y
        PROVE  FALSE
    BY <1>0, <2>4, <2>6, <2>8
  <2>10. (\A x \in Procs : Distinct(chain[x]))'
    BY <2>7 DEF Distinct
  <2>11. (\A x, y \in Procs : \A h \in Hdrs : In(h, chain[x]) /\ In(h, chain[y]) => x = y)'
    BY <2>8 DEF In
  <2>9. \A x \in Procs : chain'[x] = << >> => pc'[x] = "idle"
    BY <1>0, <2>3, <2>4, <2>6
  <2> QED
    BY <2>2, <2>5, <2>9, <2>10, <2>11 DEF HeaderInv, Owned
<1> QED
  BY <1>1, <1>2, OthersStay

LEMMA InitHeaders == Init => HeaderInv
<1> SUFFICES ASSUME Init PROVE HeaderInv
  OBVIOUS
<1>1. TurnTyped
  BY DevmntAssumption DEF Init, TurnTyped, Labels
<1>2. chain \in [Procs -> Seq(Hdrs)] /\ \A p \in Procs : chain[p] = << >>
  BY DEF Init
<1>3. Distinct(<< >>) /\ \A h \in Hdrs : ~In(h, << >>)
  BY DEF Distinct, In
<1>4. \A p \in Procs : pc[p] = "idle"
  BY DEF Init
<1> QED
  BY <1>1, <1>2, <1>3, <1>4 DEF HeaderInv, Owned

\* A tag in use belongs to one message of one Proc: two Procs never wait on one
\* Rendez, on which Sleep would panic, and mntgate and mountmux wake the one
\* that sleeps there.
OneSleeper == \A h \in Hdrs : \A p, q \in Sleeper(h) : p = q

THEOREM HeadersOwned == Spec => [](Owned /\ OneSleeper)
<1>1. HeaderInv => Owned /\ OneSleeper
  <2> SUFFICES ASSUME HeaderInv, NEW h \in Hdrs, NEW p \in Sleeper(h), NEW q \in Sleeper(h)
               PROVE  p = q
    BY DEF OneSleeper, HeaderInv
  <2>1. p \in Procs /\ q \in Procs /\ pc[p] # "idle" /\ pc[q] # "idle"
        /\ Head(chain[p]) = h /\ Head(chain[q]) = h
    BY DEF Sleeper
  <2>2. \A x \in Procs : chain[x] \in Seq(Hdrs) /\ (chain[x] = << >> => pc[x] = "idle")
    BY DEF HeaderInv, Owned
  <2>3. \A x \in {p, q} : In(h, chain[x])
    BY <2>1, <2>2, TailFacts DEF In
  <2> QED
    BY <2>1, <2>3 DEF HeaderInv, Owned
<1> QED
  BY InitHeaders, <1>1, HeadersKept, PTL DEF Spec

-----------------------------------------------------------------------------
(* The types.                                                               *)

Requests == [tag : Hdrs, old : Hdrs \cup {None}, from : Procs]

RestTyped == /\ failed \in [Procs -> BOOLEAN]
             /\ queue \in Seq(Hdrs)
             /\ done \in [Hdrs -> BOOLEAN]
             /\ reply \in [Hdrs -> Answers \cup {None}]
             /\ target \in [Procs -> Hdrs \cup {None}]
             /\ sent \in Seq(Requests)
             /\ wire \in Seq(Answers)
             /\ served \subseteq Hdrs
             /\ hung \in BOOLEAN

\* The headers of a Proc in an RPC: the newest, and the request's.
LEMMA ChainEnds ==
    ASSUME HeaderInv, NEW p \in Procs, pc[p] # "idle"
    PROVE  /\ chain[p] \in Seq(Hdrs) /\ chain[p] # << >> /\ Distinct(chain[p])
           /\ Head(chain[p]) \in Hdrs /\ In(Head(chain[p]), chain[p])
           /\ Request(p) \in Hdrs /\ In(Request(p), chain[p])
           /\ Request(p) = Head(chain[p]) <=> ~Flushing(p)
<1>1. chain[p] \in Seq(Hdrs) /\ chain[p] # << >> /\ Distinct(chain[p])
  BY DEF HeaderInv, Owned
<1>2. /\ Len(chain[p]) \in Nat \ {0} /\ Head(chain[p]) = chain[p][1]
      /\ \A i \in 1 .. Len(chain[p]) : chain[p][i] \in Hdrs
  BY <1>1, TailFacts
<1>3. Request(p) = chain[p][Len(chain[p])]
  BY DEF Request, Last
<1>4. 1 \in 1 .. Len(chain[p]) /\ Len(chain[p]) \in 1 .. Len(chain[p])
  BY <1>2
<1>5. Request(p) = Head(chain[p]) <=> ~Flushing(p)
  BY <1>1, <1>2, <1>3, <1>4 DEF Distinct, Flushing
<1> QED
  BY <1>1, <1>2, <1>3, <1>4, <1>5 DEF In

LEMMA MessageTyped ==
    ASSUME HeaderInv, NEW p \in Procs, pc[p] # "idle"
    PROVE  Message(p) \in Requests
BY ChainEnds DEF Message, oldtag, Requests

LEMMA RestKept == HeaderInv /\ RestTyped /\ [Next]_vars => RestTyped'
<1> SUFFICES ASSUME HeaderInv, RestTyped, [Next]_vars PROVE RestTyped'
  OBVIOUS
<1>0. None \notin Procs /\ None \notin Hdrs
  BY DevmntAssumption
<1>1. ASSUME NEW p \in Procs, NEW h \in Hdrs, mountrpc(p, h) \/ mntflushalloc(p, h)
      PROVE  RestTyped'
  <2>1. /\ queue' = <<h>> \o queue /\ done' = [done EXCEPT ![h] = FALSE]
        /\ reply' = [reply EXCEPT ![h] = None]
        /\ UNCHANGED <<failed, target, sent, wire, served, hung>>
    BY <1>1 DEF mountrpc, mntflushalloc, mntralloc, server
  <2>2. queue' \in Seq(Hdrs)
    BY <2>1, PushQueue DEF RestTyped
  <2> QED
    BY <2>1, <2>2 DEF RestTyped
<1>2. ASSUME NEW p \in Procs, write(p) \/ writeFail(p) \/ writeEintr(p) PROVE RestTyped'
  <2>1. /\ sent' = sent \/ sent' = Append(sent, Message(p))
        /\ failed' = failed \/ failed' = [failed EXCEPT ![p] = TRUE]
        /\ UNCHANGED <<queue, done, reply, target, wire, served, hung>>
        /\ pc[p] # "idle"
    BY <1>2 DEF write, writeFail, writeEintr, mnt, rpc, server, Goto
  <2>2. sent' \in Seq(Requests)
    <3>1. sent \in Seq(Requests) /\ Message(p) \in Requests
      BY <2>1, MessageTyped DEF RestTyped
    <3> QED
      BY <2>1, <3>1, AppendInSeq
  <2> QED
    BY <2>1, <2>2 DEF RestTyped
<1>3. ASSUME NEW p \in Procs, gateTake(p) \/ gateWait(p) \/ Sleep(p) \/ Woken(p) \/ sleepEintr(p)
      PROVE  RestTyped'
  BY <1>3 DEF gateTake, gateWait, Sleep, Woken, sleepEintr, RestTyped, mnt, rpc, server
<1>4. ASSUME NEW p \in Procs, readDone(p) \/ readFail(p) \/ readEintr(p) PROVE RestTyped'
  <2>1. /\ failed' = failed \/ failed' = [failed EXCEPT ![p] = TRUE]
        /\ UNCHANGED <<queue, done, reply, target, sent, wire, served, hung>>
    BY <1>4 DEF readDone, readFail, readEintr, rpc, server
  <2> QED
    BY <2>1 DEF RestTyped
<1>5. ASSUME NEW p \in Procs, readReply(p) PROVE RestTyped'
  <2>1. PICK h : h = Head(wire).tag
    OBVIOUS
  <2>2. wire # << >> /\ wire' = Tail(wire) /\ wire \in Seq(Answers)
    BY <1>5 DEF readReply, RestTyped
  <2>3. Head(wire) \in Answers /\ h \in Hdrs /\ wire' \in Seq(Answers)
    <3>1. Head(wire) \in Answers /\ wire' \in Seq(Answers)
      BY <2>2, TailFacts
    <3> QED
      BY <2>1, <3>1 DEF Answers
  <2>4. queue' = queue \/ queue' = Without(queue, {h})
    BY <1>5, <2>1 DEF readReply, mnt
  <2>5. queue' \in Seq(Hdrs)
    BY <2>4, WithoutFacts DEF RestTyped
  <2>6. done' \in [Hdrs -> BOOLEAN] /\ reply' \in [Hdrs -> Answers \cup {None}]
    BY <1>5, <2>1, <2>3 DEF readReply, RestTyped, rpc
  <2>7. target' \in [Procs -> Hdrs \cup {None}]
    BY <1>5, <2>1, <2>3 DEF readReply, RestTyped
  <2>8. UNCHANGED <<failed, sent, served, hung>>
    BY <1>5 DEF readReply
  <2> QED
    BY <2>3, <2>5, <2>6, <2>7, <2>8 DEF RestTyped
<1>6. ASSUME NEW p \in Procs, muxWakeup(p) PROVE RestTyped'
  BY <1>6 DEF muxWakeup, RestTyped, mnt, rpc, server
<1>7. ASSUME NEW p \in Procs, mntflushfree(p) PROVE RestTyped'
  <2>1. PICK h : h = Head(chain[p])
    OBVIOUS
  <2>2. pc[p] # "idle"
    BY <1>7 DEF mntflushfree
  <2>3. h \in Hdrs
    BY <2>1, <2>2, ChainEnds
  <2>4. queue' = queue \/ queue' = Without(queue, {h})
    BY <1>7, <2>1 DEF mntflushfree
  <2>5. queue' \in Seq(Hdrs)
    BY <2>4, WithoutFacts DEF RestTyped
  <2>6. done' = [done EXCEPT ![h] = TRUE] /\ (reply' = reply \/ reply' = [reply EXCEPT ![h] = None])
    BY <1>7, <2>1 DEF mntflushfree
  <2>7. UNCHANGED <<failed, target, sent, wire, served, hung>>
    BY <1>7 DEF mntflushfree, server
  <2> QED
    BY <2>5, <2>6, <2>7 DEF RestTyped
<1>8. ASSUME NEW p \in Procs, Return(p) PROVE RestTyped'
  <2>1. /\ failed' = [failed EXCEPT ![p] = FALSE]
        /\ reply' = [reply EXCEPT ![Request(p)] = None]
        /\ served' = served \ {Request(p)}
        /\ UNCHANGED <<queue, done, target, sent, wire, hung>>
    BY <1>8 DEF Return, mnt
  <2> QED
    BY <2>1 DEF RestTyped
<1>9. ASSUME NEW n \in 1 .. Len(sent), serve(n) \/ serveFlush(n) PROVE RestTyped'
  <2>1. sent[n] \in Requests /\ Answer(sent[n]) \in Answers /\ sent[n].tag \in Hdrs
    <3>1. sent[n] \in Requests
      BY DEF RestTyped
    <3> QED
      BY <3>1 DEF Requests, Answer, Answers
  <2>2. \E D : sent' = Without(sent, D)
    BY <1>9 DEF serve, serveFlush
  <2>3. sent' \in Seq(Requests)
    BY <2>2, WithoutFacts DEF RestTyped
  <2>4. wire' = Append(wire, Answer(sent[n])) /\ served' \subseteq served \cup {sent[n].tag}
    BY <1>9 DEF serve, serveFlush
  <2>5. wire' \in Seq(Answers)
    BY <2>1, <2>4, AppendFacts DEF RestTyped
  <2>6. UNCHANGED <<failed, queue, done, reply, target, hung>>
    BY <1>9 DEF serve, serveFlush, mnt, rpc
  <2> QED
    BY <2>1, <2>3, <2>4, <2>5, <2>6 DEF RestTyped
<1>10. CASE hangup \/ remount \/ UNCHANGED vars
  <2>1. /\ sent' = sent \/ sent' = << >>
        /\ wire' = wire \/ wire' = << >>
        /\ hung' \in {hung, TRUE, FALSE}
        /\ UNCHANGED <<failed, queue, done, reply, target, served>>
    BY <1>10 DEF hangup, remount, vars, mnt, rpc, server
  <2>2. << >> \in Seq(Requests) /\ << >> \in Seq(Answers)
    OBVIOUS
  <2>3. sent' \in Seq(Requests) /\ wire' \in Seq(Answers)
    BY <2>1, <2>2 DEF RestTyped
  <2>4. hung' \in BOOLEAN
    BY <2>1 DEF RestTyped
  <2> QED
    BY <2>1, <2>3, <2>4 DEF RestTyped
<1> QED
  BY <1>1, <1>2, <1>3, <1>4, <1>5, <1>6, <1>7, <1>8, <1>9, <1>10
     DEF Next, Step, Interrupt, ServeFlush

LEMMA InitRest == Init => RestTyped
<1>1. << >> \in Seq(Hdrs) /\ << >> \in Seq(Requests) /\ << >> \in Seq(Answers)
  OBVIOUS
<1> QED
  BY <1>1 DEF Init, RestTyped

-----------------------------------------------------------------------------
(* What is on its way between the Procs and the server.                     *)

Sent == {x \in Requests : In(x, sent)}
Wired == {x \in Answers : In(x, wire)}
Listed == {h \in Hdrs : In(h, queue)}
Has(p) == {h \in Hdrs : In(h, chain[p])}
SentAfter(x) == {y \in Requests : Before(sent, x, y)}
WiredAfter(x) == {y \in Answers : Before(wire, x, y)}
Once == Distinct(sent) /\ Distinct(wire)

\* Nothing is on its way for p.
Quiet(p) == /\ \A x \in Sent : x.from # p
            /\ \A x \in Wired : x.to # p

\* The tag of what is on its way has a header, in the queue and in the chain of
\* the Proc that waits.
Waited == /\ \A x \in Sent : x.tag \in Listed /\ x.tag \in Has(x.from)
          /\ \A x \in Wired : x.tag \in Listed /\ x.tag \in Has(x.to)

\* No two messages on their way have the same tag.
Single == /\ \A x, y \in Sent : x.tag = y.tag => x = y
          /\ \A x, y \in Wired : x.tag = y.tag => x = y
          /\ \A x \in Sent : \A y \in Wired : x.tag # y.tag

\* What is not the request flushes the request.
Olds == \A x \in Sent : x.old = IF x.tag = Request(x.from) THEN None ELSE Request(x.from)

\* The newest message of a Proc is its last on the way there and back.
Latest == /\ \A x \in Sent : x.tag = Head(chain[x.from]) =>
                 \A y \in Sent : y \in SentAfter(x) => y.from # x.from
          /\ \A x \in Wired : x.tag = Head(chain[x.to]) =>
                 /\ \A y \in Wired : y \in WiredAfter(x) => y.to # x.to
                 /\ \A y \in Sent : y.from # x.to

\* Whose newest message is answered has nothing on its way, nor has who leaves.
Over == \A p \in Procs :
           pc[p] \in {"free", "return"} \/ (pc[p] # "idle" /\ done[Head(chain[p])])
               => Quiet(p)

\* The header that a Proc is to write is in the queue, and new.
Unsent == \A p \in Procs : pc[p] = "write" =>
             /\ Head(chain[p]) \in Listed /\ ~done[Head(chain[p])]
             /\ \A x \in Sent : x.tag # Head(chain[p])
             /\ \A x \in Wired : x.tag # Head(chain[p])

Live == Once /\ Waited /\ Single /\ Olds /\ Latest /\ Over /\ Unsent

TagInv == IF hung THEN sent = << >> ELSE Live

LEMMA SentTyped == \A x \in Sent : x \in Requests /\ x.tag \in Hdrs /\ x.from \in Procs
BY DEF Sent, Requests

LEMMA WiredTyped == \A x \in Wired : x \in Answers /\ x.tag \in Hdrs /\ x.to \in Procs
BY DEF Wired, Answers

LEMMA SentAppend ==
    ASSUME sent \in Seq(Requests), Distinct(sent), NEW m \in Requests, m \notin Sent,
           sent' = Append(sent, m)
    PROVE  /\ Sent' = Sent \cup {m} /\ Distinct(sent)'
           /\ \A x, y : y \in SentAfter(x)' => y \in SentAfter(x) \/ (x \in Sent /\ y = m)
<1>1. ~In(m, sent)
  BY DEF Sent
<1>2. /\ Distinct(Append(sent, m))
      /\ \A x \in Requests : In(x, Append(sent, m)) <=> In(x, sent) \/ x = m
  BY <1>1, JoinQueue
<1>3. \A x, y : Before(Append(sent, m), x, y) => Before(sent, x, y) \/ (In(x, sent) /\ y = m)
  BY JoinOrder
<1>4. Distinct(sent)'
  BY <1>2 DEF Distinct
<1>5. Sent' = {x \in Requests : In(x, sent')}
  BY DEF Sent, In
<1>6. Sent' = Sent \cup {m}
  BY <1>2, <1>5 DEF Sent
<1>7. ASSUME NEW x, NEW y, y \in SentAfter(x)'
      PROVE  y \in SentAfter(x) \/ (x \in Sent /\ y = m)
  <2>1. y \in Requests /\ Before(sent', x, y)
    BY <1>7 DEF SentAfter, Before
  <2>2. In(x, sent) => x \in Requests
    BY DEF In
  <2> QED
    BY <1>3, <2>1, <2>2 DEF SentAfter, Sent
<1> QED
  BY <1>4, <1>6, <1>7

LEMMA SentWithout ==
    ASSUME sent \in Seq(Requests), Distinct(sent), NEW D, sent' = Without(sent, D)
    PROVE  /\ Sent' = Sent \ D /\ Distinct(sent)'
           /\ \A x, y : y \in SentAfter(x)' => y \in SentAfter(x)
<1>1. /\ Distinct(Without(sent, D))
      /\ \A x : In(x, Without(sent, D)) <=> In(x, sent) /\ x \notin D
  BY WithoutFacts
<1>2. \A x, y : Before(Without(sent, D), x, y) => Before(sent, x, y)
  BY WithoutBefore
<1>3. Distinct(sent)'
  BY <1>1 DEF Distinct
<1>4. Sent' = {x \in Requests : In(x, sent')}
  BY DEF Sent, In
<1>5. Sent' = Sent \ D
  BY <1>1, <1>4 DEF Sent
<1>6. ASSUME NEW x, NEW y, y \in SentAfter(x)' PROVE y \in SentAfter(x)
  <2>1. y \in Requests /\ Before(sent', x, y)
    BY <1>6 DEF SentAfter, Before
  <2> QED
    BY <1>2, <2>1 DEF SentAfter
<1> QED
  BY <1>3, <1>5, <1>6

LEMMA WireAppend ==
    ASSUME wire \in Seq(Answers), Distinct(wire), NEW m \in Answers, m \notin Wired,
           wire' = Append(wire, m)
    PROVE  /\ Wired' = Wired \cup {m} /\ Distinct(wire)'
           /\ \A x, y : y \in WiredAfter(x)' => y \in WiredAfter(x) \/ (x \in Wired /\ y = m)
<1>1. ~In(m, wire)
  BY DEF Wired
<1>2. /\ Distinct(Append(wire, m))
      /\ \A x \in Answers : In(x, Append(wire, m)) <=> In(x, wire) \/ x = m
  BY <1>1, JoinQueue
<1>3. \A x, y : Before(Append(wire, m), x, y) => Before(wire, x, y) \/ (In(x, wire) /\ y = m)
  BY JoinOrder
<1>4. Distinct(wire)'
  BY <1>2 DEF Distinct
<1>5. Wired' = {x \in Answers : In(x, wire')}
  BY DEF Wired, In
<1>6. Wired' = Wired \cup {m}
  BY <1>2, <1>5 DEF Wired
<1>7. ASSUME NEW x, NEW y, y \in WiredAfter(x)'
      PROVE  y \in WiredAfter(x) \/ (x \in Wired /\ y = m)
  <2>1. y \in Answers /\ Before(wire', x, y)
    BY <1>7 DEF WiredAfter, Before
  <2>2. In(x, wire) => x \in Answers
    BY DEF In
  <2> QED
    BY <1>3, <2>1, <2>2 DEF WiredAfter, Wired
<1> QED
  BY <1>4, <1>6, <1>7

LEMMA WireTail ==
    ASSUME wire \in Seq(Answers), Distinct(wire), wire # << >>, wire' = Tail(wire)
    PROVE  /\ Head(wire) \in Wired
           /\ Wired' = Wired \ {Head(wire)} /\ Distinct(wire)'
           /\ \A y \in Wired' : y \in WiredAfter(Head(wire))
           /\ \A x, y : y \in WiredAfter(x)' => y \in WiredAfter(x)
<1>1. /\ Distinct(Tail(wire)) /\ In(Head(wire), wire)
      /\ \A x \in Answers : In(x, Tail(wire)) <=> In(x, wire) /\ x # Head(wire)
  BY LeaveQueue
<1>2. /\ \A x, y : Before(Tail(wire), x, y) => Before(wire, x, y)
      /\ \A x : In(x, Tail(wire)) => Before(wire, Head(wire), x)
  BY LeaveOrder
<1>3. Head(wire) \in Answers
  BY TailFacts
<1>4. Distinct(wire)'
  BY <1>1 DEF Distinct
<1>5. Wired' = {x \in Answers : In(x, wire')}
  BY DEF Wired, In
<1>6. Head(wire) \in Wired /\ Wired' = Wired \ {Head(wire)}
  BY <1>1, <1>3, <1>5 DEF Wired
<1>7. \A y \in Wired' : y \in WiredAfter(Head(wire))
  BY <1>2, <1>5 DEF WiredAfter
<1>8. ASSUME NEW x, NEW y, y \in WiredAfter(x)' PROVE y \in WiredAfter(x)
  <2>1. y \in Answers /\ Before(wire', x, y)
    BY <1>8 DEF WiredAfter, Before
  <2> QED
    BY <1>2, <2>1 DEF WiredAfter
<1> QED
  BY <1>4, <1>6, <1>7, <1>8

\* What stays on its way.
LEMMA SentStays ==
    ASSUME UNCHANGED sent, Once
    PROVE  /\ Sent' = Sent /\ Distinct(sent)' /\ \A x : SentAfter(x)' = SentAfter(x)
BY DEF Sent, SentAfter, Once, In, Distinct, Before

LEMMA WireStays ==
    ASSUME UNCHANGED wire, Once
    PROVE  /\ Wired' = Wired /\ Distinct(wire)' /\ \A x : WiredAfter(x)' = WiredAfter(x)
BY DEF Wired, WiredAfter, Once, In, Distinct, Before

\* A header that p has is nobody else's.
LEMMA HasAlone ==
    ASSUME HeaderInv, NEW p \in Procs, NEW q \in Procs, NEW h \in Has(p), h \in Has(q)
    PROVE  p = q
BY DEF HeaderInv, Owned, Has

LEMMA NewestHas ==
    ASSUME HeaderInv, NEW p \in Procs, pc[p] # "idle" PROVE Head(chain[p]) \in Has(p)
BY ChainEnds DEF Has

LEMMA LiveMoves ==
    ASSUME HeaderInv, Live, UNCHANGED <<chain, queue, done, sent, wire>>,
           \A q \in Procs : \/ pc'[q] # "write" /\ pc'[q] # "idle" /\ pc[q] # "idle"
                            \/ pc'[q] = pc[q],
           \A q \in Procs : pc'[q] \in {"free", "return"} /\ pc[q] \notin {"free", "return"}
                               => done[Head(chain[q])]
    PROVE  Live'
<1>1. Sent' = Sent /\ Wired' = Wired
  BY SentStays, WireStays DEF Live
<1>2. Once'
  BY SentStays, WireStays DEF Live, Once
<1>3. Listed' = Listed /\ \A q : Has(q)' = Has(q)
  BY DEF Listed, Has, In
<1>4. Waited'
  BY <1>1, <1>3 DEF Live, Waited
<1>5. Single'
  BY <1>1 DEF Live, Single
<1>6. Olds'
  <2>1. \A q : Request(q)' = Request(q)
    BY DEF Request
  <2> QED
    BY <1>1, <2>1 DEF Live, Olds
<1>7. Latest'
  <2>1. \A x : SentAfter(x)' = SentAfter(x) /\ WiredAfter(x)' = WiredAfter(x)
    BY SentStays, WireStays DEF Live
  <2> QED
    BY <1>1, <2>1 DEF Live, Latest
<1>8. Over'
  <2>1. \A q : Quiet(q)' = Quiet(q)
    BY <1>1 DEF Quiet
  <2>2. SUFFICES ASSUME NEW q \in Procs,
                        pc'[q] \in {"free", "return"} \/ (pc'[q] # "idle" /\ done'[Head(chain'[q])])
                 PROVE  Quiet(q)
    BY <2>1 DEF Over
  <2> QED
    BY <2>2 DEF Live, Over
<1>9. Unsent'
  BY <1>1, <1>3 DEF Live, Unsent
<1> QED
  BY <1>2, <1>4, <1>5, <1>6, <1>7, <1>8, <1>9 DEF Live

\* mntralloc.
LEMMA LiveAlloc ==
    ASSUME HeaderInv, RestTyped, Live, NEW p \in Procs, NEW h \in Hdrs, mntralloc(p, h),
           UNCHANGED <<sent, wire>>, pc' = [pc EXCEPT ![p] = "write"]
    PROVE  Live'
<1>0. /\ chain \in [Procs -> Seq(Hdrs)] /\ pc \in [Procs -> Labels]
      /\ queue \in Seq(Hdrs) /\ done \in [Hdrs -> BOOLEAN]
  BY DEF HeaderInv, TurnTyped, RestTyped
<1>a. /\ chain' = [chain EXCEPT ![p] = <<h>> \o chain[p]]
      /\ queue' = <<h>> \o queue
      /\ done' = [done EXCEPT ![h] = FALSE]
      /\ h \in Free
  BY DEF mntralloc
<1>b. \A q \in Procs : ~In(h, chain[q])
  BY <1>0, <1>a, FreeIsUnowned
<1>c. /\ <<h>> \o chain[p] \in Seq(Hdrs)
      /\ Head(<<h>> \o chain[p]) = h
      /\ \A x \in Hdrs : In(x, <<h>> \o chain[p]) <=> In(x, chain[p]) \/ x = h
  BY <1>0, PushQueue
<1>d. \A q \in Procs : chain'[q] = IF q = p THEN <<h>> \o chain[p] ELSE chain[q]
  BY <1>0, <1>a
<1>e. \A q \in Procs : Head(chain'[q]) = IF q = p THEN h ELSE Head(chain[q])
  BY <1>c, <1>d
<1>f. \A q \in Procs : h \notin Has(q) /\ \A x \in Has(q) : x \in Has(q)'
  <2>1. \A q \in Procs : Has(q)' = {x \in Hdrs : In(x, chain'[q])}
    BY DEF Has, In
  <2> QED
    BY <1>b, <1>c, <1>d, <2>1 DEF Has
<1>g. Listed' = Listed \cup {h}
  <2>1. Listed' = {x \in Hdrs : In(x, queue')}
    BY DEF Listed, In
  <2>2. \A x \in Hdrs : In(x, <<h>> \o queue) <=> In(x, queue) \/ x = h
    BY <1>0, PushQueue
  <2> QED
    BY <1>a, <2>1, <2>2 DEF Listed
<1>1. Sent' = Sent /\ Wired' = Wired
  BY SentStays, WireStays DEF Live
<1>2. Once'
  BY SentStays, WireStays DEF Live, Once
<1>3. /\ \A x \in Sent : x.tag \in Has(x.from) /\ x.from \in Procs
      /\ \A x \in Wired : x.tag \in Has(x.to) /\ x.to \in Procs
  BY SentTyped, WiredTyped DEF Live, Waited
<1>4. Waited'
  BY <1>1, <1>3, <1>f, <1>g DEF Live, Waited
<1>5. Single'
  BY <1>1 DEF Live, Single
<1>6. Olds'
  <2>1. ASSUME NEW x \in Sent PROVE Request(x.from)' = Request(x.from)
    <3>1. x.from \in Procs /\ In(x.tag, chain[x.from])
      BY <1>3 DEF Has
    <3>2. CASE x.from # p
      BY <1>d, <3>1, <3>2 DEF Request
    <3>3. CASE x.from = p
      <4> DEFINE c == chain[p]
      <4>1. c \in Seq(Hdrs) /\ Len(c) \in Nat /\ Len(c) # 0
        BY <1>0, <3>1, <3>3 DEF In
      <4>2. (<<h>> \o c)[Len(<<h>> \o c)] = c[Len(c)]
        BY <4>1
      <4>3. chain'[p] = <<h>> \o c
        BY <1>d
      <4> HIDE DEF c
      <4>4. Last(<<h>> \o c) = Last(c)
        BY <4>2 DEF Last
      <4> QED
        BY <3>3, <4>3, <4>4 DEF Request, c
    <3> QED
      BY <3>2, <3>3
  <2> QED
    BY <1>1, <2>1 DEF Live, Olds
<1>7. Latest'
  <2>1. \A x : SentAfter(x)' = SentAfter(x) /\ WiredAfter(x)' = WiredAfter(x)
    BY SentStays, WireStays DEF Live
  <2>2. /\ \A x \in Sent : x.tag = Head(chain'[x.from]) => x.tag = Head(chain[x.from])
        /\ \A x \in Wired : x.tag = Head(chain'[x.to]) => x.tag = Head(chain[x.to])
    BY <1>3, <1>e, <1>f
  <2> QED
    BY <1>1, <2>1, <2>2 DEF Live, Latest
<1>8. \A q \in Procs \ {p} : pc'[q] = pc[q] /\ Head(chain'[q]) = Head(chain[q])
                           /\ (pc[q] # "idle" => done'[Head(chain[q])] = done[Head(chain[q])])
  <2>1. \A q \in Procs \ {p} : pc[q] # "idle" => Head(chain[q]) # h /\ Head(chain[q]) \in Hdrs
    BY <1>f, NewestHas DEF Has
  <2>2. \A x \in Hdrs : x # h => done'[x] = done[x]
    BY <1>0, <1>a
  <2> QED
    BY <1>0, <1>e, <2>1, <2>2
<1>9. pc'[p] = "write" /\ Head(chain'[p]) = h /\ done'[h] = FALSE
  BY <1>0, <1>a, <1>e
<1>10. Over'
  <2>1. \A q : Quiet(q)' = Quiet(q)
    BY <1>1 DEF Quiet
  <2>2. SUFFICES ASSUME NEW q \in Procs,
                        pc'[q] \in {"free", "return"} \/ (pc'[q] # "idle" /\ done'[Head(chain'[q])])
                 PROVE  Quiet(q)
    BY <2>1 DEF Over
  <2>3. q # p
    BY <1>9, <2>2
  <2> QED
    BY <1>8, <2>2, <2>3 DEF Live, Over
<1>11. Unsent'
  <2>1. SUFFICES ASSUME NEW q \in Procs, pc'[q] = "write"
                 PROVE  /\ Head(chain'[q]) \in Listed' /\ ~done'[Head(chain'[q])]
                        /\ \A x \in Sent : x.tag # Head(chain'[q])
                        /\ \A x \in Wired : x.tag # Head(chain'[q])
    BY <1>1 DEF Unsent
  <2>2. CASE q = p
    BY <1>3, <1>9, <1>f, <1>g, <2>2
  <2>3. CASE q # p
    BY <1>8, <1>g, <2>1, <2>3 DEF Live, Unsent
  <2> QED
    BY <2>2, <2>3
<1> QED
  BY <1>2, <1>4, <1>5, <1>6, <1>7, <1>10, <1>11 DEF Live

\* The message of p goes out.
LEMMA LiveSend ==
    ASSUME HeaderInv, RestTyped, Live, NEW p \in Procs, pc[p] = "write",
           sent' = Append(sent, Message(p)), UNCHANGED <<chain, queue, done, wire>>,
           NEW to \in {"gate", "flush"}, pc' = [pc EXCEPT ![p] = to]
    PROVE  Live'
<1> DEFINE m == Message(p)
<1>0. /\ chain \in [Procs -> Seq(Hdrs)] /\ pc \in [Procs -> Labels]
      /\ sent \in Seq(Requests)
  BY DEF HeaderInv, TurnTyped, RestTyped
<1>a. m \in Requests /\ m.tag = Head(chain[p]) /\ m.from = p /\ m.old = oldtag(p)
  BY MessageTyped DEF Message
<1>b. m.old = IF m.tag = Request(p) THEN None ELSE Request(p)
  BY <1>a, ChainEnds DEF oldtag
<1>c. /\ m.tag \in Listed /\ ~done[m.tag]
      /\ \A x \in Sent : x.tag # m.tag
      /\ \A x \in Wired : x.tag # m.tag
  BY <1>a DEF Live, Unsent
<1>d. m.tag \in Has(p)
  BY <1>a, NewestHas
<1> HIDE DEF m
<1>e. sent' = Append(sent, m)
  BY DEF m
<1>f. /\ Sent' = Sent \cup {m} /\ Distinct(sent)'
      /\ \A x, y : y \in SentAfter(x)' => y \in SentAfter(x) \/ (x \in Sent /\ y = m)
  BY <1>0, <1>a, <1>c, <1>e, SentAppend DEF Live, Once
<1>1. Wired' = Wired /\ \A x : WiredAfter(x)' = WiredAfter(x)
  BY WireStays DEF Live
<1>2. Once'
  BY <1>f, WireStays DEF Live, Once
<1>3. Listed' = Listed /\ \A q : Has(q)' = Has(q)
  BY DEF Listed, Has, In
<1>4. Waited'
  BY <1>a, <1>c, <1>d, <1>f, <1>1, <1>3 DEF Live, Waited
<1>5. Single'
  BY <1>c, <1>f, <1>1 DEF Live, Single
<1>6. Olds'
  <2>1. \A q : Request(q)' = Request(q)
    BY DEF Request
  <2> QED
    BY <1>a, <1>b, <1>f, <2>1 DEF Live, Olds
<1>7. Latest'
  <2>1. SUFFICES /\ \A x \in Sent' : x.tag = Head(chain[x.from]) =>
                        \A y \in Sent' : y \in SentAfter(x)' => y.from # x.from
                 /\ \A x \in Wired : x.tag = Head(chain[x.to]) =>
                        /\ \A y \in Wired : y \in WiredAfter(x) => y.to # x.to
                        /\ \A y \in Sent' : y.from # x.to
    BY <1>1 DEF Latest
  <2>2. ASSUME NEW x \in Sent', x.tag = Head(chain[x.from]), NEW y \in Sent', y \in SentAfter(x)',
               y.from = x.from
        PROVE  FALSE
    <3>1. CASE y \in SentAfter(x)
      <4>1. y \in Sent
        <5>1. In(y, sent)
          BY <3>1 DEF SentAfter, Before, In
        <5>2. y \in Requests
          BY <3>1 DEF SentAfter
        <5> QED
          BY <5>1, <5>2 DEF Sent
      <4>2. x \in Sent
        <5>1. In(x, sent)
          BY <3>1 DEF SentAfter, Before, In
        <5>2. x \in Requests
          BY <5>1, <1>0 DEF In
        <5> QED
          BY <5>1, <5>2 DEF Sent
      <4> QED
        BY <2>2, <3>1, <4>1, <4>2 DEF Live, Latest
    <3>2. CASE x \in Sent /\ y = m
      BY <1>a, <1>c, <2>2, <3>2
    <3> QED
      BY <1>f, <2>2, <3>1, <3>2
  <2>3. ASSUME NEW x \in Wired, x.tag = Head(chain[x.to]), NEW y \in Sent', y.from = x.to
        PROVE  FALSE
    BY <1>a, <1>c, <1>f, <2>3 DEF Live, Latest
  <2> QED
    BY <2>2, <2>3 DEF Live, Latest
<1>8. /\ pc'[p] = to /\ to \notin {"write", "free", "return", "idle"}
      /\ \A q \in Procs \ {p} : pc'[q] = pc[q]
  BY <1>0
<1>9. Over'
  <2>1. SUFFICES ASSUME NEW q \in Procs,
                        pc'[q] \in {"free", "return"} \/ (pc'[q] # "idle" /\ done[Head(chain[q])])
                 PROVE  Quiet(q)'
    BY DEF Over
  <2>2. q # p
    BY <1>8, <1>a, <1>c, <2>1
  <2>3. Quiet(q)
    BY <1>8, <2>1, <2>2 DEF Live, Over
  <2> QED
    BY <1>a, <1>f, <1>1, <2>2, <2>3 DEF Quiet
<1>10. Unsent'
  <2>1. SUFFICES ASSUME NEW q \in Procs, pc'[q] = "write"
                 PROVE  /\ Head(chain[q]) \in Listed /\ ~done[Head(chain[q])]
                        /\ \A x \in Sent' : x.tag # Head(chain[q])
                        /\ \A x \in Wired : x.tag # Head(chain[q])
    BY <1>1, <1>3 DEF Unsent
  <2>2. q # p /\ pc[q] = "write"
    BY <1>8, <2>1
  <2>3. m.tag # Head(chain[q])
    BY <1>d, <2>2, NewestHas, HasAlone
  <2> QED
    BY <1>f, <2>2, <2>3 DEF Live, Unsent
<1> QED
  BY <1>2, <1>4, <1>5, <1>6, <1>7, <1>9, <1>10 DEF Live

\* The reader takes an answer, which is never an unexpected one.
LEMMA LiveReply ==
    ASSUME HeaderInv, RestTyped, Live, NEW p \in Procs, readReply(p)
    PROVE  Live'
<1>a. PICK w : w = Head(wire)
  OBVIOUS
<1>b. /\ pc \in [Procs -> Labels] /\ queue \in Seq(Hdrs) /\ done \in [Hdrs -> BOOLEAN]
      /\ wire \in Seq(Answers)
  BY DEF HeaderInv, TurnTyped, RestTyped
<1>c. wire # << >> /\ wire' = Tail(wire) /\ UNCHANGED <<chain, sent>> /\ pc[p] = "read"
  BY DEF readReply
<1>d. /\ w \in Wired /\ Wired' = Wired \ {w} /\ Distinct(wire)'
      /\ \A y \in Wired' : y \in WiredAfter(w)
      /\ \A x, y : y \in WiredAfter(x)' => y \in WiredAfter(x)
  BY <1>a, <1>b, <1>c, WireTail DEF Live, Once
<1>e. w.tag \in Listed /\ w.tag \in Has(w.to) /\ w.tag \in Hdrs /\ w.to \in Procs
  BY <1>d, WiredTyped DEF Live, Waited
<1>f. Contains(queue, w.tag)
  BY <1>b, <1>e, ToSetIn DEF Contains, ToSet, Listed, In
<1>g. queue' = Without(queue, {w.tag}) /\ done' = [done EXCEPT ![w.tag] = TRUE]
  BY <1>a, <1>f DEF readReply
<1>h. Listed' = Listed \ {w.tag} /\ \A q : Has(q)' = Has(q)
  <2>1. Listed' = {x \in Hdrs : In(x, queue')}
    BY DEF Listed, In
  <2>2. \A x : In(x, Without(queue, {w.tag})) <=> In(x, queue) /\ x \notin {w.tag}
    BY <1>b, WithoutFacts
  <2>3. \A q : Has(q)' = Has(q)
    BY <1>c DEF Has, In
  <2> QED
    BY <1>g, <2>1, <2>2, <2>3 DEF Listed
<1>i. /\ pc'[p] \in {"read", "wake"}
      /\ \A q \in Procs \ {p} : pc'[q] = pc[q]
  BY <1>b, <1>c DEF readReply
<1>1. Sent' = Sent /\ \A x : SentAfter(x)' = SentAfter(x)
  BY <1>c, SentStays DEF Live
<1>2. Once'
  BY <1>c, <1>d, SentStays DEF Live, Once
<1>3. /\ \A x \in Sent : x.tag # w.tag
      /\ \A x \in Wired' : x.tag # w.tag
  BY <1>d DEF Live, Single
<1>4. Waited'
  BY <1>d, <1>h, <1>1, <1>3 DEF Live, Waited
<1>5. Single'
  BY <1>d, <1>1 DEF Live, Single
<1>6. Olds'
  <2>1. \A q : Request(q)' = Request(q)
    BY <1>c DEF Request
  <2> QED
    BY <1>1, <2>1 DEF Live, Olds
<1>7. Latest'
  BY <1>c, <1>d, <1>1 DEF Live, Latest
<1>8. \A q \in Procs : Quiet(q) => Quiet(q)'
  BY <1>d, <1>1 DEF Quiet
<1>9. Over'
  <2>1. SUFFICES ASSUME NEW q \in Procs,
                        pc'[q] \in {"free", "return"} \/ (pc'[q] # "idle" /\ done'[Head(chain[q])])
                 PROVE  Quiet(q)'
    BY <1>c DEF Over
  <2>2. pc[q] # "idle" /\ (pc'[q] \in {"free", "return"} => pc[q] \in {"free", "return"})
    BY <1>c, <1>i, <2>1
  <2>3. CASE Head(chain[q]) # w.tag
    <3>1. Head(chain[q]) \in Hdrs
      BY <2>2, NewestHas DEF Has
    <3>2. done'[Head(chain[q])] = done[Head(chain[q])]
      BY <1>b, <1>g, <2>3, <3>1
    <3> QED
      BY <1>8, <2>1, <2>2, <3>2 DEF Live, Over
  <2>4. CASE Head(chain[q]) = w.tag
    <3>1. q = w.to
      BY <1>e, <2>2, <2>4, NewestHas, HasAlone
    <3>2. \A y \in Wired : y \in WiredAfter(w) => y.to # q
      BY <1>d, <2>4, <3>1 DEF Live, Latest
    <3>3. \A y \in Sent : y.from # q
      BY <1>d, <2>4, <3>1 DEF Live, Latest
    <3> QED
      BY <1>d, <1>1, <3>2, <3>3 DEF Quiet
  <2> QED
    BY <2>3, <2>4
<1>10. Unsent'
  <2>1. SUFFICES ASSUME NEW q \in Procs, pc'[q] = "write"
                 PROVE  /\ Head(chain[q]) \in Listed' /\ ~done'[Head(chain[q])]
                        /\ \A x \in Sent : x.tag # Head(chain[q])
                        /\ \A x \in Wired' : x.tag # Head(chain[q])
    BY <1>c, <1>1 DEF Unsent
  <2>2. q # p /\ pc[q] = "write"
    BY <1>i, <2>1
  <2>3. /\ Head(chain[q]) \in Listed /\ ~done[Head(chain[q])]
        /\ \A x \in Sent : x.tag # Head(chain[q])
        /\ \A x \in Wired : x.tag # Head(chain[q])
    BY <2>2 DEF Live, Unsent
  <2>4. Head(chain[q]) # w.tag /\ Head(chain[q]) \in Hdrs
    BY <1>d, <2>3 DEF Listed
  <2>5. done'[Head(chain[q])] = done[Head(chain[q])]
    BY <1>b, <1>g, <2>4
  <2> QED
    BY <1>d, <1>h, <2>3, <2>4, <2>5
<1> QED
  BY <1>2, <1>4, <1>5, <1>6, <1>7, <1>9, <1>10 DEF Live

\* mntflushfree and the end of an RPC, when nothing is on its way for p.
LEMMA LiveDrop ==
    ASSUME HeaderInv, RestTyped, Live, NEW p \in Procs, pc[p] \in {"free", "return"},
           UNCHANGED <<sent, wire>>, NEW h, h = Head(chain[p]),
           queue' = queue \/ queue' = Without(queue, {h}),
           done' = done \/ done' = [done EXCEPT ![h] = TRUE],
           \A q \in Procs \ {p} : pc'[q] = pc[q] /\ chain'[q] = chain[q],
           pc'[p] # "write"
    PROVE  Live'
<1>a. queue \in Seq(Hdrs) /\ done \in [Hdrs -> BOOLEAN]
  BY DEF RestTyped
<1>b. h \in Has(p) /\ h \in Hdrs
  BY NewestHas DEF Has
<1>c. Quiet(p)
  BY DEF Live, Over
<1>d. \A x \in Listed : x # h => x \in Listed'
  <2>1. Listed' = {x \in Hdrs : In(x, queue')}
    BY DEF Listed, In
  <2>2. \A x : In(x, Without(queue, {h})) <=> In(x, queue) /\ x \notin {h}
    BY <1>a, WithoutFacts
  <2> QED
    BY <2>1, <2>2 DEF Listed
<1>e. \A q \in Procs \ {p} : Has(q)' = Has(q) /\ Request(q)' = Request(q)
  BY DEF Has, In, Request
<1>f. \A x \in Hdrs : x # h => done'[x] = done[x]
  BY <1>a
<1>1. /\ Sent' = Sent /\ Wired' = Wired
      /\ \A x : SentAfter(x)' = SentAfter(x) /\ WiredAfter(x)' = WiredAfter(x)
  BY SentStays, WireStays DEF Live
<1>2. Once'
  BY SentStays, WireStays DEF Live, Once
<1>3. /\ \A x \in Sent : x.from \in Procs \ {p} /\ x.tag \in Has(x.from) /\ x.tag # h
      /\ \A x \in Wired : x.to \in Procs \ {p} /\ x.tag \in Has(x.to) /\ x.tag # h
  BY <1>b, <1>c, SentTyped, WiredTyped, HasAlone DEF Live, Waited, Quiet
<1>4. Waited'
  BY <1>d, <1>e, <1>1, <1>3 DEF Live, Waited
<1>5. Single'
  BY <1>1 DEF Live, Single
<1>6. Olds'
  BY <1>e, <1>1, <1>3 DEF Live, Olds
<1>7. Latest'
  BY <1>1, <1>3 DEF Live, Latest
<1>8. \A q \in Procs \ {p} : pc[q] # "idle" => Head(chain[q]) # h /\ done'[Head(chain[q])] = done[Head(chain[q])]
  <2>1. \A q \in Procs \ {p} : pc[q] # "idle" => Head(chain[q]) # h /\ Head(chain[q]) \in Hdrs
    BY <1>b, NewestHas, HasAlone DEF Has
  <2> QED
    BY <1>f, <2>1
<1>9. Over'
  <2>1. \A q : Quiet(q)' = Quiet(q)
    BY <1>1 DEF Quiet
  <2>2. SUFFICES ASSUME NEW q \in Procs,
                        pc'[q] \in {"free", "return"} \/ (pc'[q] # "idle" /\ done'[Head(chain'[q])])
                 PROVE  Quiet(q)
    BY <2>1 DEF Over
  <2>3. CASE q # p
    BY <1>8, <2>2, <2>3 DEF Live, Over
  <2> QED
    BY <1>c, <2>3
<1>10. Unsent'
  <2>1. SUFFICES ASSUME NEW q \in Procs, pc'[q] = "write"
                 PROVE  /\ Head(chain'[q]) \in Listed' /\ ~done'[Head(chain'[q])]
                        /\ \A x \in Sent : x.tag # Head(chain'[q])
                        /\ \A x \in Wired : x.tag # Head(chain'[q])
    BY <1>1 DEF Unsent
  <2>2. q # p /\ pc[q] = "write" /\ chain'[q] = chain[q]
    BY <2>1
  <2> QED
    BY <1>d, <1>8, <2>2 DEF Live, Unsent
<1> QED
  BY <1>2, <1>4, <1>5, <1>6, <1>7, <1>9, <1>10 DEF Live

LEMMA OneHeader ==
    ASSUME NEW c \in Seq(Hdrs), c # << >>, Distinct(c)
    PROVE  /\ Last(c) \in Hdrs
           /\ Last(c) = Head(c) => \A x : In(x, c) => x = Head(c)
<1>1. /\ Len(c) \in Nat \ {0} /\ Head(c) = c[1]
      /\ \A i \in 1 .. Len(c) : c[i] \in Hdrs
  BY TailFacts
<1>2. Last(c) = c[Len(c)] /\ 1 \in 1 .. Len(c) /\ Len(c) \in 1 .. Len(c)
  BY <1>1 DEF Last
<1>3. ASSUME Last(c) = Head(c), NEW x, In(x, c) PROVE x = Head(c)
  <2>1. Len(c) = 1
    BY <1>1, <1>2, <1>3 DEF Distinct
  <2> QED
    BY <1>1, <1>3, <2>1 DEF In
<1> QED
  BY <1>1, <1>2, <1>3

\* What the server answers and drops: after the newest message of a Proc it has
\* nothing of it left.
LEMMA ServesLast ==
    ASSUME HeaderInv, RestTyped, Live, NEW n \in 1 .. Len(sent), serve(n) \/ serveFlush(n)
    PROVE  /\ sent[n] \in Sent
           /\ \E D : /\ sent' = Without(sent, D) /\ sent[n] \in D
                     /\ sent[n].tag = Head(chain[sent[n].from]) =>
                           \A y \in Sent : y.from = sent[n].from => y \in D
<1>0. sent \in Seq(Requests) /\ \A k \in 1 .. Len(sent) : sent[k] \in Requests
  BY DEF RestTyped
<1>1. PICK m : m = sent[n]
  OBVIOUS
<1>2. m \in Sent /\ m \in Requests /\ m.tag \in Has(m.from) /\ m.from \in Procs
  <2>1. m \in Sent
    BY <1>0, <1>1 DEF Sent, In
  <2> QED
    BY <2>1, SentTyped DEF Live, Waited
<1>c. /\ chain[m.from] \in Seq(Hdrs) /\ Distinct(chain[m.from]) /\ In(m.tag, chain[m.from])
      /\ chain[m.from] # << >>
  BY <1>2 DEF HeaderInv, Owned, Has, In
<1>d. /\ Request(m.from) # None
      /\ Request(m.from) = Head(chain[m.from]) =>
            \A x : In(x, chain[m.from]) => x = Head(chain[m.from])
  BY <1>c, OneHeader, DevmntAssumption DEF Request
<1>e. m.old = IF m.tag = Request(m.from) THEN None ELSE Request(m.from)
  BY <1>2 DEF Live, Olds
<1>3. CASE serve(n)
  <2>1. sent' = Without(sent, {m}) /\ m.old = None
    BY <1>1, <1>3 DEF serve
  <2>2. ASSUME m.tag = Head(chain[m.from]), NEW y \in Sent, y.from = m.from PROVE y = m
    <3>1. Request(m.from) = Head(chain[m.from])
      BY <1>d, <1>e, <2>1, <2>2
    <3>2. In(y.tag, chain[m.from])
      BY <2>2 DEF Live, Waited, Has
    <3>3. y.tag = m.tag
      BY <1>d, <2>2, <3>1, <3>2
    <3> QED
      BY <1>2, <3>3 DEF Live, Single
  <2> QED
    BY <1>1, <1>2, <2>1, <2>2
<1>4. CASE serveFlush(n)
  <2> DEFINE dropped == {x \in {sent[k] : k \in 1 .. n - 1} : x.tag = m.old \/ x.old = m.old}
  <2>1. sent' = Without(sent, {m} \cup dropped) /\ m.old # None
    BY <1>1, <1>4 DEF serveFlush
  <2>2. ASSUME m.tag = Head(chain[m.from]), NEW y \in Sent, y.from = m.from, y # m
        PROVE  y \in dropped
    <3>1. PICK k \in 1 .. Len(sent) : sent[k] = y
      BY DEF Sent, In
    <3>2. ~(n < k)
      <4> SUFFICES ASSUME n < k PROVE FALSE
        OBVIOUS
      <4>1. Before(sent, m, y)
        BY <1>1, <3>1 DEF Before
      <4>2. y \in SentAfter(m)
        BY <4>1, SentTyped DEF SentAfter
      <4> QED
        BY <1>2, <2>2, <4>2 DEF Live, Latest
    <3>3. k \in 1 .. n - 1
      BY <1>1, <2>2, <3>1, <3>2
    <3>4. y.tag = m.old \/ y.old = m.old
      <4>1. y.old = IF y.tag = Request(y.from) THEN None ELSE Request(y.from)
        BY DEF Live, Olds
      <4> QED
        BY <1>e, <2>1, <2>2, <4>1
    <3> QED
      BY <3>1, <3>3, <3>4
  <2> HIDE DEF dropped
  <2> QED
    BY <1>1, <1>2, <2>1, <2>2
<1> QED
  BY <1>3, <1>4

LEMMA LiveServe ==
    ASSUME HeaderInv, RestTyped, Live, NEW n \in 1 .. Len(sent), serve(n) \/ serveFlush(n)
    PROVE  Live'
<1>1. PICK m : m = sent[n]
  OBVIOUS
<1>2. m \in Sent
  BY <1>1, ServesLast
<1>k. PICK D : /\ sent' = Without(sent, D) /\ sent[n] \in D
               /\ sent[n].tag = Head(chain[sent[n].from]) =>
                     \A y \in Sent : y.from = sent[n].from => y \in D
  BY ServesLast
<1>3. /\ sent' = Without(sent, D) /\ m \in D
      /\ m.tag = Head(chain[m.from]) => \A y \in Sent : y.from = m.from => y \in D
  BY <1>1, <1>k
<1>a. PICK a : a = Answer(m)
  OBVIOUS
<1>b. a \in Answers /\ a.tag = m.tag /\ a.to = m.from
  BY <1>2, <1>a, SentTyped DEF Answer, Answers
<1>c. /\ wire' = Append(wire, a) /\ UNCHANGED <<pc, chain, queue, done>>
  BY <1>1, <1>a DEF serve, serveFlush, mnt, rpc
<1>d. sent \in Seq(Requests) /\ wire \in Seq(Answers)
  BY DEF RestTyped
<1>e. /\ m.tag \in Listed /\ m.tag \in Has(m.from)
      /\ \A y \in Sent : y.tag = m.tag => y = m
      /\ \A y \in Wired : y.tag # m.tag
  BY <1>2 DEF Live, Waited, Single
<1>f. a \notin Wired
  BY <1>b, <1>e
<1>g. /\ Wired' = Wired \cup {a} /\ Distinct(wire)'
      /\ \A x, y : y \in WiredAfter(x)' => y \in WiredAfter(x) \/ (x \in Wired /\ y = a)
  BY <1>b, <1>c, <1>d, <1>f, WireAppend DEF Live, Once
<1>h. /\ Sent' = Sent \ D /\ Distinct(sent)'
      /\ \A x, y : y \in SentAfter(x)' => y \in SentAfter(x)
  BY <1>3, <1>d, SentWithout DEF Live, Once
<1>i. Listed' = Listed /\ \A q : Has(q)' = Has(q)
  BY <1>c DEF Listed, Has, In
<1>4. Once'
  BY <1>g, <1>h DEF Once
<1>5. Waited'
  BY <1>b, <1>e, <1>g, <1>h, <1>i DEF Live, Waited
<1>6. Single'
  BY <1>2, <1>3, <1>b, <1>e, <1>g, <1>h DEF Live, Single
<1>7. Olds'
  <2>1. \A q : Request(q)' = Request(q)
    BY <1>c DEF Request
  <2> QED
    BY <1>h, <2>1 DEF Live, Olds
<1>8. Latest'
  <2>1. SUFFICES /\ \A x \in Sent' : x.tag = Head(chain[x.from]) =>
                        \A y \in Sent' : y \in SentAfter(x)' => y.from # x.from
                 /\ \A x \in Wired' : x.tag = Head(chain[x.to]) =>
                        /\ \A y \in Wired' : y \in WiredAfter(x)' => y.to # x.to
                        /\ \A y \in Sent' : y.from # x.to
    BY <1>c DEF Latest
  <2>2. \A x \in Sent' : x.tag = Head(chain[x.from]) =>
           \A y \in Sent' : y \in SentAfter(x)' => y.from # x.from
    BY <1>h DEF Live, Latest
  <2>3. ASSUME NEW x \in Wired', x.tag = Head(chain[x.to]), NEW y \in Wired', y \in WiredAfter(x)',
               y.to = x.to
        PROVE  FALSE
    <3>1. CASE y \in WiredAfter(x)
      <4>1. y \in Answers /\ In(y, wire) /\ In(x, wire)
        BY <3>1 DEF WiredAfter, Before, In
      <4>2. x \in Answers
        BY <1>d, <4>1 DEF In
      <4> QED
        BY <2>3, <3>1, <4>1, <4>2 DEF Live, Latest, Wired
    <3>2. CASE x \in Wired /\ y = a
      BY <1>2, <1>b, <2>3, <3>2 DEF Live, Latest
    <3> QED
      BY <1>g, <2>3, <3>1, <3>2
  <2>4. ASSUME NEW x \in Wired', x.tag = Head(chain[x.to]), NEW y \in Sent', y.from = x.to
        PROVE  FALSE
    <3>1. CASE x \in Wired
      BY <1>h, <2>4, <3>1 DEF Live, Latest
    <3>2. CASE x = a
      BY <1>3, <1>b, <1>h, <2>4, <3>2
    <3> QED
      BY <1>g, <3>1, <3>2
  <2> QED
    BY <2>2, <2>3, <2>4
<1>9. Over'
  <2>1. SUFFICES ASSUME NEW q \in Procs,
                        pc[q] \in {"free", "return"} \/ (pc[q] # "idle" /\ done[Head(chain[q])])
                 PROVE  Quiet(q)'
    BY <1>c DEF Over
  <2>2. Quiet(q)
    BY <2>1 DEF Live, Over
  <2>3. m.from # q
    BY <1>2, <2>2 DEF Quiet
  <2> QED
    BY <1>b, <1>g, <1>h, <2>2, <2>3 DEF Quiet
<1>10. Unsent'
  <2>1. SUFFICES ASSUME NEW q \in Procs, pc[q] = "write"
                 PROVE  /\ Head(chain[q]) \in Listed /\ ~done[Head(chain[q])]
                        /\ \A x \in Sent' : x.tag # Head(chain[q])
                        /\ \A x \in Wired' : x.tag # Head(chain[q])
    BY <1>c, <1>i DEF Unsent
  <2>2. /\ Head(chain[q]) \in Listed /\ ~done[Head(chain[q])]
        /\ \A x \in Sent : x.tag # Head(chain[q])
        /\ \A x \in Wired : x.tag # Head(chain[q])
    BY <2>1 DEF Live, Unsent
  <2> QED
    BY <1>2, <1>b, <1>g, <1>h, <2>2
<1> QED
  BY <1>4, <1>5, <1>6, <1>7, <1>8, <1>9, <1>10 DEF Live

\* Procs neither break the connection nor mend it, and write none to it when it
\* is broken.
LEMMA ActsHung ==
    ASSUME NEW p \in Procs, Acts(p) PROVE hung' = hung /\ (hung => sent' = sent)
<1>1. CASE write(p) \/ writeEintr(p) \/ writeFail(p)
  BY <1>1 DEF write, writeEintr, writeFail, server
<1>2. CASE gateTake(p) \/ gateWait(p) \/ Sleep(p) \/ Woken(p) \/ sleepEintr(p)
  BY <1>2 DEF gateTake, gateWait, Sleep, Woken, sleepEintr, server
<1>3. CASE readDone(p) \/ readReply(p) \/ muxWakeup(p) \/ readFail(p) \/ readEintr(p)
  BY <1>3 DEF readDone, readReply, muxWakeup, readFail, readEintr, server
<1>4. CASE (\E h \in Hdrs : mntflushalloc(p, h) \/ mountrpc(p, h)) \/ mntflushfree(p) \/ Return(p)
  BY <1>4 DEF mntflushalloc, mountrpc, mntflushfree, Return, server
<1> QED
  BY <1>1, <1>2, <1>3, <1>4 DEF Acts, Step, Interrupt

LEMMA ActsLive ==
    ASSUME HeaderInv, RestTyped, Live, ~hung, NEW p \in Procs, Acts(p) PROVE Live'
<1>0. pc \in [Procs -> Labels] /\ chain \in [Procs -> Seq(Hdrs)]
  BY DEF HeaderInv, TurnTyped
<1>1. ASSUME NEW h \in Hdrs, mountrpc(p, h) \/ mntflushalloc(p, h) PROVE Live'
  <2>1. mntralloc(p, h) /\ UNCHANGED <<sent, wire>> /\ pc' = [pc EXCEPT ![p] = "write"]
    BY <1>1 DEF mountrpc, mntflushalloc, Goto, server
  <2> QED
    BY <2>1, LiveAlloc
<1>2. CASE write(p)
  <2>1. /\ pc[p] = "write" /\ pc' = [pc EXCEPT ![p] = "gate"]
        /\ sent' = Append(sent, Message(p)) /\ UNCHANGED <<chain, queue, done, wire>>
    BY <1>2 DEF write, Goto, mnt, rpc
  <2> QED
    BY <2>1, LiveSend
<1>3. CASE writeFail(p)
  BY <1>3 DEF writeFail
<1>4. CASE writeEintr(p)
  <2>1. /\ pc[p] = "write" /\ pc' = [pc EXCEPT ![p] = "flush"]
        /\ UNCHANGED <<chain, queue, done, wire>>
    BY <1>4 DEF writeEintr, Goto, mnt, rpc
  <2>2. CASE sent' = Append(sent, Message(p))
    BY <2>1, <2>2, LiveSend
  <2>3. CASE sent' = sent
    <3>1. \A q \in Procs : pc'[q] = IF q = p THEN "flush" ELSE pc[q]
      BY <1>0, <2>1
    <3> QED
      BY <2>1, <2>3, <3>1, LiveMoves
  <2> QED
    BY <1>4, <2>2, <2>3 DEF writeEintr
<1>5. CASE gateTake(p) \/ gateWait(p) \/ sleepEintr(p)
  <2>1. UNCHANGED <<chain, queue, done, sent, wire>>
    BY <1>5 DEF gateTake, gateWait, sleepEintr, mnt, rpc, server
  <2>2. /\ pc[p] # "idle"
        /\ \E to \in {"read", "sleep", "flush"} : pc' = [pc EXCEPT ![p] = to]
    BY <1>5 DEF gateTake, gateWait, sleepEintr, Goto
  <2>3. \A q \in Procs : IF q = p THEN pc'[q] \in {"read", "sleep", "flush"} ELSE pc'[q] = pc[q]
    BY <1>0, <2>2
  <2> QED
    BY <2>1, <2>2, <2>3, LiveMoves
<1>6. CASE Sleep(p) \/ Woken(p)
  <2>1. UNCHANGED <<chain, queue, done, sent, wire>>
    BY <1>6 DEF Sleep, Woken, mnt, rpc, server
  <2>2. pc[p] # "idle" /\ \A q \in Procs \ {p} : pc'[q] = pc[q]
    BY <1>0, <1>6 DEF Sleep, Woken
  <2>3. /\ pc'[p] \in {"woken", "asleep", "free", "gate"}
        /\ pc'[p] = "free" => done[Head(chain[p])]
    BY <1>0, <1>6 DEF Sleep, Woken
  <2> QED
    BY <2>1, <2>2, <2>3, LiveMoves
<1>7. CASE readDone(p) \/ readEintr(p) \/ muxWakeup(p)
  <2>1. UNCHANGED <<chain, queue, done, sent, wire>>
    BY <1>7 DEF readDone, readEintr, muxWakeup, mnt, rpc, server
  <2>2. PICK to \in {"free", "flush", "read"} :
           Moves(p, to) /\ pc[p] \in {"read", "wake"} /\ (to = "free" => done[Head(chain[p])])
    <3>1. {"free", "flush", "read"} \subseteq Labels
      BY DEF Labels
    <3>2. CASE readDone(p)
      BY <1>0, <3>1, <3>2, GateMoves DEF readDone
    <3>3. CASE readEintr(p)
      BY <1>0, <3>1, <3>3, GateMoves DEF readEintr
    <3>4. CASE muxWakeup(p)
      BY <1>0, <3>1, <3>4, WakeupMoves
    <3> QED
      BY <1>7, <3>2, <3>3, <3>4
  <2>3. \A q \in Procs \ {p} : pc'[q] = pc[q] \/ (pc[q] = "asleep" /\ pc'[q] = "woken")
    BY <2>2 DEF Moves
  <2>4. pc'[p] = to
    BY <2>2 DEF Moves
  <2> QED
    BY <2>1, <2>2, <2>3, <2>4, LiveMoves
<1>8. CASE readReply(p)
  BY <1>8, LiveReply
<1>9. CASE readFail(p)
  BY <1>9 DEF readFail
<1>10. CASE mntflushfree(p)
  <2>1. PICK h : h = Head(chain[p])
    OBVIOUS
  <2>2. /\ pc[p] = "free" /\ done' = [done EXCEPT ![h] = TRUE]
        /\ queue' = queue \/ queue' = Without(queue, {h})
        /\ UNCHANGED <<sent, wire>>
    BY <1>10, <2>1 DEF mntflushfree, server
  <2>3. \A q \in Procs \ {p} : pc'[q] = pc[q] /\ chain'[q] = chain[q]
    BY <1>0, <1>10 DEF mntflushfree
  <2>4. pc'[p] # "write"
    BY <1>0, <1>10 DEF mntflushfree
  <2> QED
    BY <2>1, <2>2, <2>3, <2>4, LiveDrop
<1>11. CASE Return(p)
  <2>1. PICK h : h = Head(chain[p])
    OBVIOUS
  <2>2. pc[p] = "return" /\ UNCHANGED <<sent, wire, queue, done>>
    BY <1>11 DEF Return, Goto, mnt
  <2>3. \A q \in Procs \ {p} : pc'[q] = pc[q] /\ chain'[q] = chain[q]
    BY <1>0, <1>11 DEF Return, Goto
  <2>4. pc'[p] # "write"
    BY <1>0, <1>11 DEF Return, Goto
  <2> QED
    BY <2>1, <2>2, <2>3, <2>4, LiveDrop
<1> QED
  BY <1>1, <1>2, <1>3, <1>4, <1>5, <1>6, <1>7, <1>8, <1>9, <1>10, <1>11
     DEF Acts, Step, Interrupt

\* Nothing is on its way, and nobody is in an RPC.
LEMMA LiveEmpty ==
    ASSUME sent = << >>, wire = << >>, \A p \in Procs : pc[p] = "idle" PROVE Live
<1>1. Sent = {} /\ Wired = {} /\ Once
  BY DEF Sent, Wired, Once, In, Distinct
<1> QED
  BY <1>1 DEF Live, Waited, Single, Olds, Latest, Over, Unsent

LEMMA TagsInvKept == HeaderInv /\ RestTyped /\ TagInv /\ [Next]_vars => TagInv'
<1> SUFFICES ASSUME HeaderInv, RestTyped, TagInv, [Next]_vars PROVE TagInv'
  OBVIOUS
<1>1. ASSUME NEW p \in Procs, Acts(p) PROVE TagInv'
  BY <1>1, ActsHung, ActsLive DEF TagInv
<1>2. ASSUME NEW n \in 1 .. Len(sent), serve(n) \/ serveFlush(n) PROVE TagInv'
  <2>1. hung' = hung
    BY <1>2 DEF serve, serveFlush
  <2>2. ~hung
    <3> SUFFICES ASSUME hung PROVE FALSE
      OBVIOUS
    <3>1. sent = << >>
      BY DEF TagInv
    <3> QED
      BY <3>1
  <2> QED
    BY <1>2, <2>1, <2>2, LiveServe DEF TagInv
<1>3. CASE hangup
  BY <1>3 DEF hangup, TagInv
<1>4. CASE remount
  <2>1. /\ hung /\ ~hung' /\ sent' = << >> /\ wire' = << >>
        /\ \A p \in Procs : pc'[p] = "idle"
    BY <1>4 DEF remount, TagInv
  <2>2. Sent' = {} /\ Wired' = {} /\ Once'
    BY <2>1 DEF Sent, Wired, Once, In, Distinct
  <2>3. Live'
    BY <2>1, <2>2 DEF Live, Waited, Single, Olds, Latest, Over, Unsent
  <2> QED
    BY <2>1, <2>3 DEF TagInv
<1>5. CASE UNCHANGED vars
  <2>1. UNCHANGED <<pc, chain, queue, done, sent, wire, hung>>
    BY <1>5 DEF vars, mnt, rpc, server
  <2> QED
    BY <2>1, LiveMoves DEF TagInv
<1> QED
  BY <1>1, <1>2, <1>3, <1>4, <1>5 DEF Next, ServeFlush, Acts

\* What is in flight is what is sent and what is answered.
LEMMA FlightFacts ==
    ASSUME RestTyped
    PROVE  /\ Len(InFlight) = Len(sent) + Len(wire)
           /\ \A i \in 1 .. Len(InFlight) :
                 \/ i \in 1 .. Len(sent) /\ InFlight[i] = Answer(sent[i])
                 \/ i - Len(sent) \in 1 .. Len(wire) /\ InFlight[i] = wire[i - Len(sent)]
<1> DEFINE a == [n \in 1 .. Len(sent) |-> Answer(sent[n])]
<1>1. sent \in Seq(Requests) /\ wire \in Seq(Answers)
  BY DEF RestTyped
<1>2. Len(sent) \in Nat /\ Len(wire) \in Nat /\ \A i \in 1 .. Len(sent) : sent[i] \in Requests
  BY <1>1
<1>3. \A i \in 1 .. Len(sent) : Answer(sent[i]) \in Answers
  BY <1>2 DEF Requests, Answers, Answer
<1>4. a \in Seq(Answers) /\ Len(a) = Len(sent) /\ \A i \in 1 .. Len(sent) : a[i] = Answer(sent[i])
  BY <1>2, <1>3
<1>5. InFlight = a \o wire
  BY DEF InFlight
<1> HIDE DEF a
<1>6. /\ Len(a \o wire) = Len(a) + Len(wire)
      /\ \A i \in 1 .. Len(a) + Len(wire) :
            (a \o wire)[i] = IF i <= Len(a) THEN a[i] ELSE wire[i - Len(a)]
  BY <1>1, <1>4, JoinFacts
<1>7. ASSUME NEW i \in 1 .. Len(InFlight)
      PROVE  \/ i \in 1 .. Len(sent) /\ InFlight[i] = Answer(sent[i])
             \/ i - Len(sent) \in 1 .. Len(wire) /\ InFlight[i] = wire[i - Len(sent)]
  <2>1. i \in 1 .. Len(a) + Len(wire)
    BY <1>5, <1>6, <1>7
  <2>2. CASE i <= Len(a)
    BY <1>2, <1>4, <1>5, <1>6, <2>1, <2>2
  <2>3. CASE ~(i <= Len(a))
    <3>1. i - Len(sent) \in 1 .. Len(wire)
      BY <1>2, <1>4, <2>1, <2>3
    <3> QED
      BY <1>4, <1>5, <1>6, <2>1, <2>3, <3>1
  <2> QED
    BY <2>2, <2>3
<1> QED
  BY <1>4, <1>5, <1>6, <1>7

LEMMA LiveTags ==
    ASSUME HeaderInv, RestTyped, Live
    PROVE  /\ \A n \in 1 .. Len(InFlight) :
                 /\ Contains(queue, InFlight[n].tag)
                 /\ Contains(chain[InFlight[n].to], InFlight[n].tag)
           /\ \A m, n \in 1 .. Len(InFlight) :
                 InFlight[m].tag = InFlight[n].tag => m = n
<1> DEFINE Off(i) == i \in 1 .. Len(sent) /\ InFlight[i] = Answer(sent[i])
           Back(i) == i - Len(sent) \in 1 .. Len(wire) /\ InFlight[i] = wire[i - Len(sent)]
<1>1. \A i \in 1 .. Len(InFlight) : Off(i) \/ Back(i)
  BY FlightFacts
<1>2. sent \in Seq(Requests) /\ wire \in Seq(Answers)
  BY DEF RestTyped
<1>3. \A i \in 1 .. Len(sent) : sent[i] \in Sent
  BY <1>2 DEF Sent, In
<1>4. \A i \in 1 .. Len(wire) : wire[i] \in Wired
  BY <1>2 DEF Wired, In
<1>5. \A x : Answer(x).tag = x.tag /\ Answer(x).to = x.from
  BY DEF Answer
<1>6. ASSUME NEW i \in 1 .. Len(InFlight)
      PROVE  /\ Contains(queue, InFlight[i].tag)
             /\ Contains(chain[InFlight[i].to], InFlight[i].tag)
  <2>1. InFlight[i].tag \in Listed /\ InFlight[i].tag \in Has(InFlight[i].to)
    <3>1. CASE Off(i)
      BY <1>3, <1>5, <3>1 DEF Live, Waited
    <3>2. CASE Back(i)
      BY <1>4, <3>2 DEF Live, Waited
    <3> QED
      BY <1>1, <3>1, <3>2
  <2>2. In(InFlight[i].tag, queue) /\ In(InFlight[i].tag, chain[InFlight[i].to])
    BY <2>1 DEF Listed, Has
  <2> HIDE DEF Off, Back
  <2> QED
    BY <2>2 DEF Contains, In
<1>7. ASSUME NEW i \in 1 .. Len(InFlight), NEW j \in 1 .. Len(InFlight),
             InFlight[i].tag = InFlight[j].tag
      PROVE  i = j
  <2>1. CASE Off(i) /\ Off(j)
    <3>1. sent[i] = sent[j]
      BY <1>3, <1>5, <1>7, <2>1 DEF Live, Single
    <3> QED
      BY <2>1, <3>1 DEF Live, Once, Distinct
  <2>2. CASE Back(i) /\ Back(j)
    <3>1. wire[i - Len(sent)] = wire[j - Len(sent)]
      BY <1>4, <1>7, <2>2 DEF Live, Single
    <3>2. i - Len(sent) = j - Len(sent)
      BY <2>2, <3>1 DEF Live, Once, Distinct
    <3>3. Len(sent) \in Nat /\ i \in Int /\ j \in Int
      BY <1>2
    <3> QED
      BY <3>2, <3>3
  <2>3. CASE Off(i) /\ Back(j)
    BY <1>3, <1>4, <1>5, <1>7, <2>3 DEF Live, Single
  <2>4. CASE Back(i) /\ Off(j)
    BY <1>3, <1>4, <1>5, <1>7, <2>4 DEF Live, Single
  <2> QED
    BY <1>1, <2>1, <2>2, <2>3, <2>4
<1> QED
  BY <1>6, <1>7

\* No reply is unexpected, or taken for one to a later request: whatever is on
\* its way between the Procs and the server, its tag's header waits in the queue,
\* in the chain of the Proc that sent it, and nothing else on its way has that
\* tag, though interrupted Procs free the tags of requests that the server may
\* have been answering.
THEOREM NoStaleReply == Spec => []TagsKept
<1>1. Init => HeaderInv
  BY InitHeaders
<1>2. Init => RestTyped
  BY InitRest
<1>3. Init => TagInv
  BY LiveEmpty DEF Init, TagInv
<1>4. HeaderInv /\ RestTyped /\ TagInv => TagsKept
  <2> SUFFICES ASSUME HeaderInv, RestTyped, TagInv PROVE TagsKept
    OBVIOUS
  <2>1. TypeOK
    BY DEF HeaderInv, TurnTyped, RestTyped, TypeOK, Requests
  <2> QED
    BY <2>1, LiveTags DEF TagsKept, TagInv
<1> QED
  BY <1>1, <1>2, <1>3, <1>4, HeadersKept, RestKept, TagsInvKept, PTL DEF Spec

-----------------------------------------------------------------------------
(* What an RPC returns.                                                     *)

\* p is in an RPC that has not failed and need not.
Sure(p) == pc[p] # "idle" /\ ~failed[p] /\ (hung => pc[p] \notin {"flush", "write"})

\* The reply to the request of p.
Reply(p) == [tag |-> Request(p), to |-> p]

\* If the server has carried out the request its reply has come, or is to come,
\* and otherwise there is none.
Ledger(p) == IF Request(p) \in served THEN reply[Request(p)] = Reply(p) \/ Reply(p) \in Wired
             ELSE reply[Request(p)] = None /\ Reply(p) \notin Wired

\* What is to come for p is for its headers, and the newest is the last.
Settled(p) ==
    /\ \A x \in Wired : x.to = p => x.tag \in Listed
    /\ \A x \in Wired : x.tag \in Has(p) <=> x.to = p
    /\ \A x \in Wired : x.to = p /\ x.tag = Head(chain[p]) =>
          \A y \in Wired : y \in WiredAfter(x) => y.to # p
    /\ pc[p] \in {"free", "return"} \/ done[Head(chain[p])] => \A x \in Wired : x.to # p

IdleEmpty == \A p \in Procs : pc[p] = "idle" => chain[p] = << >>
ServedOwned == \A h \in served : \E p \in Procs : pc[p] # "idle" /\ h = Request(p)
SentUnserved == \A x \in Sent : x.tag \notin served
Fresh == \A p \in Procs : pc[p] = "write" => Head(chain[p]) \notin served
Known == \A p \in Procs : Sure(p) => Ledger(p)
Coming == hung => Distinct(wire) /\ \A p \in Procs : Sure(p) => Settled(p)

ServedInv == IdleEmpty /\ ServedOwned /\ SentUnserved /\ Fresh /\ Known /\ Coming

LEMMA LiveSettled ==
    ASSUME HeaderInv, RestTyped, Live, NEW p \in Procs, pc[p] # "idle"
    PROVE  Settled(p)
<1>1. \A x \in Wired : x.to = p => x.tag \in Listed
  BY DEF Live, Waited
<1>2. ASSUME NEW x \in Wired PROVE x.tag \in Has(p) <=> x.to = p
  <2>1. x.tag \in Has(x.to) /\ x.to \in Procs
    BY WiredTyped DEF Live, Waited
  <2> QED
    BY <2>1, HasAlone
<1>3. \A x \in Wired : x.to = p /\ x.tag = Head(chain[p]) =>
         \A y \in Wired : y \in WiredAfter(x) => y.to # p
  BY DEF Live, Latest
<1>4. pc[p] \in {"free", "return"} \/ done[Head(chain[p])] => \A x \in Wired : x.to # p
  BY DEF Live, Over, Quiet
<1> QED
  BY <1>1, <1>2, <1>3, <1>4 DEF Settled

\* It holds in either case.
LEMMA SureSettled ==
    ASSUME HeaderInv, RestTyped, TagInv, ServedInv, NEW p \in Procs, Sure(p)
    PROVE  Settled(p) /\ Distinct(wire)
<1>1. CASE hung
  BY <1>1 DEF ServedInv, Coming
<1>2. CASE ~hung
  BY <1>2, LiveSettled DEF TagInv, Sure, Live, Once
<1> QED
  BY <1>1, <1>2

LEMMA RequestHas ==
    ASSUME HeaderInv, NEW p \in Procs, pc[p] # "idle"
    PROVE  Request(p) \in Has(p) /\ Request(p) \in Hdrs
BY ChainEnds DEF Has

\* A request stays the last of its chain.
LEMMA LastStays ==
    ASSUME NEW c \in Seq(Hdrs), c # << >>
    PROVE  /\ \A h \in Hdrs : Last(<<h>> \o c) = Last(c)
           /\ Len(c) > 1 => Last(Tail(c)) = Last(c)
<1>1. Len(c) \in Nat \ {0}
  BY TailFacts
<1>2. ASSUME NEW h \in Hdrs PROVE Last(<<h>> \o c) = Last(c)
  <2>1. (<<h>> \o c)[Len(<<h>> \o c)] = c[Len(c)]
    BY <1>1
  <2> QED
    BY <2>1 DEF Last
<1>3. ASSUME Len(c) > 1 PROVE Last(Tail(c)) = Last(c)
  <2>1. Len(Tail(c)) = Len(c) - 1 /\ \A i \in 1 .. Len(c) - 1 : Tail(c)[i] = c[i + 1]
    BY TailFacts
  <2>2. Tail(c)[Len(Tail(c))] = c[Len(c)]
    BY <1>1, <1>3, <2>1
  <2> QED
    BY <2>2 DEF Last
<1> QED
  BY <1>2, <1>3

LEMMA RequestStays ==
    ASSUME HeaderInv, NEW p \in Procs, Acts(p), NEW q \in Procs,
           pc[q] # "idle", pc'[q] # "idle"
    PROVE  Request(q)' = Request(q) /\ Request(q) \in Has(q)'
<1>0. chain \in [Procs -> Seq(Hdrs)] /\ chain[q] \in Seq(Hdrs) /\ chain[q] # << >>
  BY DEF HeaderInv, Owned
<1>1. Chained(p)
  BY ActsChained
<1>2. CASE q # p
  <2>1. chain'[q] = chain[q]
    BY <1>0, <1>1, <1>2 DEF Chained
  <2> QED
    BY <2>1, RequestHas DEF Request, Has, In
<1>3. CASE q = p
  <2>1. \/ \E h \in Hdrs : chain'[q] = <<h>> \o chain[q]
        \/ chain'[q] = Tail(chain[q]) /\ Len(chain[q]) > 1
        \/ chain'[q] = chain[q]
    BY <1>0, <1>1, <1>3 DEF Chained, Free
  <2>2. Last(chain'[q]) = Last(chain[q])
    BY <1>0, <2>1, LastStays
  <2>3. chain'[q] \in Seq(Hdrs) /\ chain'[q] # << >>
    <3>1. CASE \E h \in Hdrs : chain'[q] = <<h>> \o chain[q]
      BY <1>0, <3>1, PushQueue
    <3>2. CASE chain'[q] = Tail(chain[q]) /\ Len(chain[q]) > 1
      BY <1>0, <3>2, TailLeaves
    <3> QED
      BY <1>0, <2>1, <3>1, <3>2
  <2>4. Last(chain'[q]) \in Hdrs /\ In(Last(chain'[q]), chain'[q])
    <3>1. /\ Len(chain'[q]) \in Nat \ {0}
          /\ \A i \in 1 .. Len(chain'[q]) : chain'[q][i] \in Hdrs
      BY <2>3, TailFacts
    <3>2. Len(chain'[q]) \in 1 .. Len(chain'[q])
      BY <3>1
    <3> QED
      BY <3>1, <3>2 DEF Last, In
  <2>5. Request(q)' = Last(chain'[q])
    BY DEF Request
  <2>6. Has(q)' = {h \in Hdrs : In(h, chain'[q])}
    BY DEF Has, In
  <2> QED
    BY <2>2, <2>4, <2>5, <2>6 DEF Request
<1> QED
  BY <1>2, <1>3

\* Different Procs have different requests.
LEMMA RequestsApart ==
    ASSUME HeaderInv, NEW p \in Procs, NEW q \in Procs, pc[p] # "idle", pc[q] # "idle",
           Request(p) = Request(q)
    PROVE  p = q
BY RequestHas, HasAlone

LEMMA LedgerStays ==
    ASSUME NEW q \in Procs, Ledger(q), Request(q)' = Request(q),
           reply'[Request(q)] = reply[Request(q)],
           Request(q) \in served' <=> Request(q) \in served,
           Reply(q) \in Wired' <=> Reply(q) \in Wired
    PROVE  Ledger(q)'
<1>1. Reply(q)' = Reply(q)
  BY DEF Reply
<1> QED
  BY <1>1 DEF Ledger

\* The steps of p that change neither headers nor answers.
Still(p) ==
    /\ UNCHANGED <<chain, queue, done, reply, wire, served>>
    /\ \A q \in Procs \ {p} : failed'[q] = failed[q]
    /\ pc[p] # "idle" /\ pc'[p] \notin {"idle", "write", "return"}
    /\ failed[p] => failed'[p]
    /\ pc'[p] = "free" => done[Head(chain[p])] \/ failed'[p]
    /\ hung /\ pc[p] \in {"flush", "write"} => failed'[p]

LEMMA ActsKinds ==
    ASSUME NEW p \in Procs, HeaderInv, RestTyped, Acts(p)
    PROVE  \/ Still(p) \/ readReply(p) \/ mntflushfree(p) \/ Return(p)
           \/ \E h \in Hdrs : mountrpc(p, h) \/ mntflushalloc(p, h)
<1>0. pc \in [Procs -> Labels] /\ failed \in [Procs -> BOOLEAN]
  BY DEF HeaderInv, TurnTyped, RestTyped
<1>1. CASE write(p) \/ writeFail(p) \/ writeEintr(p)
  <2>1. UNCHANGED <<chain, queue, done, reply, wire, served>>
    BY <1>1 DEF write, writeFail, writeEintr, mnt, rpc, server
  <2>2. /\ pc[p] = "write" /\ pc'[p] \in {"gate", "free", "flush"}
        /\ pc'[p] = "free" \/ hung => failed'[p]
        /\ \A q \in Procs \ {p} : failed'[q] = failed[q]
        /\ failed[p] => failed'[p]
    BY <1>0, <1>1 DEF write, writeFail, writeEintr, Goto
  <2> QED
    BY <2>1, <2>2 DEF Still
<1>2. CASE gateTake(p) \/ gateWait(p) \/ sleepEintr(p)
  <2>1. UNCHANGED <<chain, queue, done, reply, wire, served, failed>>
    BY <1>2 DEF gateTake, gateWait, sleepEintr, mnt, rpc, server
  <2>2. /\ pc[p] \in {"gate", "sleep", "asleep", "woken"}
        /\ pc'[p] \in {"read", "sleep", "flush"}
    BY <1>0, <1>2 DEF gateTake, gateWait, sleepEintr, Goto
  <2> QED
    BY <2>1, <2>2 DEF Still
<1>3. CASE Sleep(p) \/ Woken(p)
  <2>1. UNCHANGED <<chain, queue, done, reply, wire, served, failed>>
    BY <1>3 DEF Sleep, Woken, mnt, rpc, server
  <2>2. /\ pc[p] \in {"sleep", "woken"}
        /\ pc'[p] \in {"woken", "asleep", "free", "gate"}
        /\ pc'[p] = "free" => done[Head(chain[p])]
    BY <1>0, <1>3 DEF Sleep, Woken
  <2> QED
    BY <2>1, <2>2 DEF Still
<1>4. CASE readDone(p) \/ readFail(p) \/ readEintr(p)
  <2>1. UNCHANGED <<chain, queue, done, reply, wire, served>>
    BY <1>4 DEF readDone, readFail, readEintr, mnt, rpc, server
  <2>2. /\ pc[p] = "read"
        /\ \A q \in Procs \ {p} : failed'[q] = failed[q]
        /\ failed[p] => failed'[p]
    BY <1>0, <1>4 DEF readDone, readFail, readEintr
  <2>3. \/ pc'[p] = "free" /\ (done[Head(chain[p])] \/ failed'[p])
        \/ pc'[p] = "flush"
    BY <1>0, <1>4 DEF readDone, readFail, readEintr, mntgate
  <2> QED
    BY <2>1, <2>2, <2>3 DEF Still
<1>5. CASE muxWakeup(p)
  <2>1. UNCHANGED <<chain, queue, done, reply, wire, served, failed>>
    BY <1>5 DEF muxWakeup, mnt, rpc, server
  <2>2. pc[p] = "wake" /\ pc'[p] = "read"
    BY <1>5 DEF muxWakeup
  <2> QED
    BY <2>1, <2>2 DEF Still
<1> QED
  BY <1>1, <1>2, <1>3, <1>4, <1>5 DEF Acts, Step, Interrupt

\* The others.
LEMMA OthersMove ==
    ASSUME NEW p \in Procs, HeaderInv, Acts(p), NEW q \in Procs, q # p
    PROVE  /\ pc'[q] = pc[q] \/ (pc[q] = "asleep" /\ pc'[q] = "woken")
           /\ chain'[q] = chain[q]
<1>1. \E to \in Labels : Moves(p, to)
  BY ActsPlace DEF Place, HeaderInv
<1>2. Chained(p)
  BY ActsChained
<1>3. chain \in [Procs -> Seq(Hdrs)]
  BY DEF HeaderInv
<1> QED
  BY <1>1, <1>2, <1>3 DEF Moves, Chained

LEMMA NewIsUnserved ==
    ASSUME HeaderInv, ServedOwned, NEW h \in Free PROVE h \notin served
<1>1. \A q \in Procs : h \notin Has(q)
  BY FreeIsUnowned DEF HeaderInv, Has
<1> QED
  BY <1>1, RequestHas DEF ServedOwned

LEMMA ActsServed ==
    ASSUME NEW p \in Procs, HeaderInv, RestTyped, TagInv, ServedInv, Acts(p)
    PROVE  IdleEmpty' /\ ServedOwned' /\ SentUnserved' /\ Fresh'
<1>0. pc \in [Procs -> Labels] /\ chain \in [Procs -> Seq(Hdrs)]
  BY DEF HeaderInv, TurnTyped
<1>1. \A q \in Procs : IF q = p THEN TRUE
                        ELSE /\ chain'[q] = chain[q]
                             /\ pc'[q] # pc[q] => pc[q] = "asleep" /\ pc'[q] = "woken"
  BY OthersMove
<1>2. pc'[p] = "idle" => Return(p)
  <2>1. mntflushfree(p) \/ readReply(p) => pc'[p] # "idle"
    BY <1>0 DEF mntflushfree, readReply
  <2>2. (\E h \in Hdrs : mountrpc(p, h) \/ mntflushalloc(p, h)) => pc'[p] # "idle"
    BY <1>0 DEF mountrpc, mntflushalloc, Goto
  <2> QED
    BY <2>1, <2>2, ActsKinds DEF Still
<1>3. pc'[p] = "write" => \E h \in Free : chain'[p] = <<h>> \o chain[p]
  <2>1. mntflushfree(p) \/ readReply(p) \/ Return(p) => pc'[p] # "write"
    BY <1>0 DEF mntflushfree, readReply, Return, Goto
  <2>2. (\E h \in Hdrs : mountrpc(p, h) \/ mntflushalloc(p, h)) =>
            \E h \in Free : chain'[p] = <<h>> \o chain[p]
    BY <1>0 DEF mountrpc, mntflushalloc, mntralloc
  <2> QED
    BY <2>1, <2>2, ActsKinds DEF Still
<1>4. served' \subseteq served /\ (Return(p) => served' = served \ {Request(p)})
  <2>1. mntflushfree(p) \/ readReply(p) => served' = served
    BY DEF mntflushfree, readReply, server
  <2>2. (\E h \in Hdrs : mountrpc(p, h) \/ mntflushalloc(p, h)) => served' = served
    BY DEF mountrpc, mntflushalloc, server
  <2>3. Return(p) => served' = served \ {Request(p)}
    BY DEF Return
  <2>4. Still(p) => served' = served
    BY DEF Still
  <2> QED
    BY <2>1, <2>2, <2>3, <2>4, ActsKinds
<1>5. IdleEmpty'
  <2>1. Return(p) => chain'[p] = << >>
    BY <1>0 DEF Return
  <2> QED
    BY <1>1, <1>2, <2>1 DEF IdleEmpty, ServedInv
<1>6. ServedOwned'
  <2>1. SUFFICES ASSUME NEW h \in served' PROVE \E q \in Procs : pc'[q] # "idle" /\ h = Request(q)'
    BY DEF ServedOwned
  <2>2. PICK q \in Procs : pc[q] # "idle" /\ h = Request(q)
    BY <1>4 DEF ServedInv, ServedOwned
  <2>3. pc'[q] # "idle"
    BY <1>1, <1>2, <1>4, <2>2
  <2> QED
    BY <2>2, <2>3, RequestStays
<1>7. SentUnserved'
  <2>1. CASE sent' = sent
    <3>1. Sent' = Sent
      BY <2>1 DEF Sent, In
    <3> QED
      BY <1>4, <3>1 DEF ServedInv, SentUnserved
  <2>2. CASE sent' # sent
    <3>1. /\ sent' = Append(sent, Message(p)) /\ pc[p] = "write" /\ ~hung
      <4>1. write(p) \/ writeEintr(p)
        <5>1. writeFail(p) \/ gateTake(p) \/ gateWait(p) \/ Sleep(p) \/ Woken(p) \/ sleepEintr(p)
                => sent' = sent
          BY DEF writeFail, gateTake, gateWait, Sleep, Woken, sleepEintr, server
        <5>2. readDone(p) \/ readReply(p) \/ muxWakeup(p) \/ readFail(p) \/ readEintr(p)
                => sent' = sent
          BY DEF readDone, readReply, muxWakeup, readFail, readEintr, server
        <5>3. (\E h \in Hdrs : mntflushalloc(p, h) \/ mountrpc(p, h)) \/ mntflushfree(p) \/ Return(p)
                => sent' = sent
          BY DEF mntflushalloc, mountrpc, mntflushfree, Return, server
        <5> QED
          BY <2>2, <5>1, <5>2, <5>3 DEF Acts, Step, Interrupt
      <4> QED
        BY <2>2, <4>1 DEF write, writeEintr, Goto
    <3>2. Message(p) \in Requests /\ Message(p).tag = Head(chain[p])
      BY <3>1, MessageTyped DEF Message
    <3>3. Message(p) \notin Sent
      BY <3>1, <3>2 DEF TagInv, Live, Unsent
    <3>4. Sent' = Sent \cup {Message(p)}
      BY <3>1, <3>2, <3>3, SentAppend DEF TagInv, Live, Once, RestTyped
    <3> QED
      BY <1>4, <3>1, <3>2, <3>4 DEF ServedInv, SentUnserved, Fresh
  <2> QED
    BY <2>1, <2>2
<1>8. Fresh'
  <2>1. SUFFICES ASSUME NEW q \in Procs, pc'[q] = "write" PROVE Head(chain'[q]) \notin served
    BY <1>4 DEF Fresh
  <2>2. CASE q = p
    <3>1. PICK h \in Free : chain'[p] = <<h>> \o chain[p]
      BY <1>3, <2>1, <2>2
    <3>2. Head(<<h>> \o chain[p]) = h
      BY <1>0, PushQueue DEF Free
    <3> QED
      BY <2>2, <3>1, <3>2, NewIsUnserved DEF ServedInv
  <2>3. CASE q # p
    BY <1>1, <2>1, <2>3 DEF ServedInv, Fresh
  <2> QED
    BY <2>2, <2>3
<1> QED
  BY <1>5, <1>6, <1>7, <1>8

\* Who need not fail need not have failed before, unless the RPC begins.
LEMMA SureBefore ==
    ASSUME NEW p \in Procs, HeaderInv, RestTyped, Acts(p), NEW q \in Procs, Sure(q)',
           q # p \/ ~ \E h \in Hdrs : mountrpc(p, h)
    PROVE  /\ Sure(q) /\ pc'[q] # "idle" /\ ~failed'[q]
           /\ q = p => ~Return(p) /\ (hung => ~ \E h \in Hdrs : mntflushalloc(p, h))
<1>0. pc \in [Procs -> Labels] /\ failed \in [Procs -> BOOLEAN]
  BY DEF HeaderInv, TurnTyped, RestTyped
<1>1. hung' = hung
  BY ActsHung
<1>2. pc'[q] # "idle" /\ ~failed'[q] /\ (hung => pc'[q] \notin {"flush", "write"})
  BY <1>1 DEF Sure
<1>3. CASE q # p
  <2>1. failed'[q] = failed[q]
    <3>1. mntflushfree(p) \/ readReply(p) \/ Return(p) => failed'[q] = failed[q]
      BY <1>0, <1>3 DEF mntflushfree, readReply, Return
    <3>2. (\E h \in Hdrs : mountrpc(p, h) \/ mntflushalloc(p, h)) => failed'[q] = failed[q]
      BY DEF mountrpc, mntflushalloc
    <3> QED
      BY <1>3, <3>1, <3>2, ActsKinds DEF Still
  <2> QED
    BY <1>2, <1>3, <2>1, OthersMove DEF Sure
<1>4. CASE q = p
  <2>1. CASE Still(p)
    <3>1. pc[p] # "idle" /\ ~failed[p] /\ (hung => pc[p] \notin {"flush", "write"})
      BY <1>2, <1>4, <2>1 DEF Still
    <3>2. ~Return(p) /\ ~ \E h \in Hdrs : mntflushalloc(p, h)
      BY <1>0, <2>1 DEF Still, Return, mntflushalloc, Goto
    <3> QED
      BY <1>2, <1>4, <3>1, <3>2 DEF Sure
  <2>2. CASE readReply(p) \/ mntflushfree(p)
    <3>1. pc[p] \in {"read", "free"} /\ failed' = failed
      BY <2>2 DEF readReply, mntflushfree
    <3>2. ~Return(p) /\ ~ \E h \in Hdrs : mntflushalloc(p, h)
      BY <3>1 DEF Return, mntflushalloc, Goto
    <3> QED
      BY <1>2, <1>4, <3>1, <3>2 DEF Sure
  <2>3. CASE Return(p)
    BY <1>0, <1>2, <1>4, <2>3 DEF Return, Goto
  <2>4. CASE \E h \in Hdrs : mntflushalloc(p, h)
    <3>1. pc[p] = "flush" /\ pc'[p] = "write" /\ failed' = failed
      BY <1>0, <2>4 DEF mntflushalloc, Goto
    <3>2. ~Return(p)
      BY <3>1 DEF Return, Goto
    <3> QED
      BY <1>2, <1>4, <3>1, <3>2 DEF Sure
  <2> QED
    BY <1>4, <2>1, <2>2, <2>3, <2>4, ActsKinds
<1> QED
  BY <1>3, <1>4

LEMMA SettledStays ==
    ASSUME NEW q \in Procs, Settled(q), chain'[q] = chain[q], Wired' \subseteq Wired,
           \A x, y : y \in WiredAfter(x)' => y \in WiredAfter(x),
           \A x \in Wired' : x.to = q => x.tag \in Listed',
           pc'[q] \in {"free", "return"} \/ done'[Head(chain[q])] => \A x \in Wired' : x.to # q
    PROVE  Settled(q)'
<1>1. Has(q)' = Has(q)
  BY DEF Has, In
<1>2. \A x \in Wired' : x.tag \in Has(q)' <=> x.to = q
  BY <1>1 DEF Settled
<1>3. \A x \in Wired' : x.to = q /\ x.tag = Head(chain'[q]) =>
         \A y \in Wired' : y \in WiredAfter(x)' => y.to # q
  BY DEF Settled
<1> QED
  BY <1>2, <1>3 DEF Settled

LEMMA WireSame ==
    ASSUME UNCHANGED wire PROVE Wired' = Wired /\ \A x : WiredAfter(x)' = WiredAfter(x)
BY DEF Wired, WiredAfter, In, Before

LEMMA AfterStill ==
    ASSUME NEW p \in Procs, HeaderInv, RestTyped, Acts(p), Still(p),
           NEW q \in Procs, Sure(q)', Ledger(q), Settled(q)
    PROVE  Ledger(q)' /\ Settled(q)'
<1>1. UNCHANGED <<chain, queue, done, reply, wire, served>>
  BY DEF Still
<1>2. Wired' = Wired /\ Listed' = Listed /\ \A x : WiredAfter(x)' = WiredAfter(x)
  BY <1>1, WireSame DEF Listed, In
<1>3. Request(q)' = Request(q)
  BY <1>1 DEF Request
<1>4. Ledger(q)'
  BY <1>1, <1>2, <1>3, LedgerStays
<1>5. pc'[q] \in {"free", "return"} => pc[q] \in {"free", "return"} \/ done[Head(chain[q])]
  <2>1. CASE q = p
    BY <2>1 DEF Still, Sure
  <2>2. CASE q # p
    BY <2>2, OthersMove
  <2> QED
    BY <2>1, <2>2
<1>6. Settled(q)'
  BY <1>1, <1>2, <1>5, SettledStays DEF Settled
<1> QED
  BY <1>4, <1>6

LEMMA AfterAlloc ==
    ASSUME NEW p \in Procs, NEW h \in Hdrs, HeaderInv, RestTyped, ServedInv,
           mountrpc(p, h) \/ mntflushalloc(p, h),
           NEW q \in Procs, pc[q] # "idle", Request(q)' = Request(q), Ledger(q), Settled(q)
    PROVE  Ledger(q)' /\ (q # p => Settled(q)')
<1>0. /\ chain \in [Procs -> Seq(Hdrs)] /\ pc \in [Procs -> Labels]
      /\ queue \in Seq(Hdrs) /\ done \in [Hdrs -> BOOLEAN] /\ reply \in [Hdrs -> Answers \cup {None}]
  BY DEF HeaderInv, TurnTyped, RestTyped
<1>1. /\ mntralloc(p, h) /\ UNCHANGED <<wire, served>>
      /\ pc' = [pc EXCEPT ![p] = "write"]
  BY DEF mountrpc, mntflushalloc, Goto, server
<1>2. h \notin Has(q)
  BY <1>0, <1>1, FreeIsUnowned DEF Has, mntralloc
<1>3. \A x \in Hdrs : x # h => reply'[x] = reply[x] /\ done'[x] = done[x]
  BY <1>0, <1>1 DEF mntralloc
<1>4. Wired' = Wired /\ \A x : WiredAfter(x)' = WiredAfter(x)
  BY <1>1, WireSame
<1>5. Ledger(q)'
  <2>1. Request(q) \in Hdrs /\ Request(q) # h
    BY <1>2, RequestHas
  <2> QED
    BY <1>1, <1>3, <1>4, <2>1, LedgerStays
<1>6. ASSUME q # p PROVE Settled(q)'
  <2>1. chain'[q] = chain[q] /\ pc'[q] = pc[q]
    BY <1>0, <1>1, <1>6 DEF mntralloc
  <2>2. Head(chain[q]) \in Hdrs /\ Head(chain[q]) # h
    BY <1>2, NewestHas DEF Has
  <2>3. \A x \in Listed : x \in Listed'
    <3>1. Listed' = {x \in Hdrs : In(x, queue')}
      BY DEF Listed, In
    <3>2. \A x \in Hdrs : In(x, <<h>> \o queue) <=> In(x, queue) \/ x = h
      BY <1>0, PushQueue
    <3> QED
      BY <1>1, <3>1, <3>2 DEF Listed, mntralloc
  <2>4. done'[Head(chain[q])] = done[Head(chain[q])]
    BY <1>3, <2>2
  <2> QED
    BY <1>4, <2>1, <2>3, <2>4, SettledStays DEF Settled
<1> QED
  BY <1>5, <1>6

LEMMA AfterBegin ==
    ASSUME NEW p \in Procs, NEW h \in Hdrs, HeaderInv, RestTyped, TagInv, ServedInv, ~hung,
           mountrpc(p, h)
    PROVE  Ledger(p)'
<1>0. chain \in [Procs -> Seq(Hdrs)] /\ reply \in [Hdrs -> Answers \cup {None}]
  BY DEF HeaderInv, RestTyped
<1>1. /\ h \in Free /\ chain'[p] = <<h>> \o chain[p] /\ reply'[h] = None
      /\ UNCHANGED <<wire, served>> /\ ~hung /\ pc[p] = "idle"
  BY <1>0 DEF mountrpc, mntralloc, Goto, server
<1>2. chain'[p] = <<h>> \o << >>
  BY <1>1 DEF ServedInv, IdleEmpty
<1>3. Request(p)' = h
  <2>1. (<<h>> \o << >>)[Len(<<h>> \o << >>)] = h
    OBVIOUS
  <2> QED
    BY <1>2, <2>1 DEF Request, Last
<1>4. h \notin served'
  BY <1>1, NewIsUnserved DEF ServedInv
<1>5. Reply(p)'.tag = h
  BY <1>3 DEF Reply
<1>6. Wired' = Wired
  BY <1>1, WireSame
<1>7. \A x \in Wired : x.tag # h
  <2>1. \A x \in Wired : x.tag \in Has(x.to) /\ x.to \in Procs
    BY <1>1, WiredTyped DEF TagInv, Live, Waited
  <2> QED
    BY <1>0, <1>1, <2>1, FreeIsUnowned DEF Has
<1> QED
  BY <1>1, <1>3, <1>4, <1>5, <1>6, <1>7 DEF Ledger

LEMMA AfterReply ==
    ASSUME NEW p \in Procs, HeaderInv, RestTyped, readReply(p), NEW q \in Procs, pc[q] # "idle",
           Distinct(wire), Ledger(q), Settled(q)
    PROVE  Ledger(q)' /\ Settled(q)'
<1>a. PICK w : w = Head(wire)
  OBVIOUS
<1>0. /\ chain \in [Procs -> Seq(Hdrs)] /\ pc \in [Procs -> Labels]
      /\ queue \in Seq(Hdrs) /\ done \in [Hdrs -> BOOLEAN] /\ reply \in [Hdrs -> Answers \cup {None}]
      /\ wire \in Seq(Answers)
  BY DEF HeaderInv, TurnTyped, RestTyped
<1>1. wire # << >> /\ wire' = Tail(wire) /\ UNCHANGED <<chain, served>> /\ pc[p] = "read"
  BY DEF readReply
<1>2. /\ w \in Wired /\ Wired' = Wired \ {w}
      /\ \A y \in Wired' : y \in WiredAfter(w)
      /\ \A x, y : y \in WiredAfter(x)' => y \in WiredAfter(x)
  BY <1>a, <1>0, <1>1, WireTail
<1>3. w \in Answers /\ w.tag \in Hdrs
  BY <1>2, WiredTyped
<1>4. Contains(queue, w.tag) <=> w.tag \in Listed
  BY <1>0, <1>3 DEF Contains, Listed, In
<1>5. CASE w.tag \in Listed
  <2>1. /\ queue' = Without(queue, {w.tag})
        /\ done' = [done EXCEPT ![w.tag] = TRUE]
        /\ reply' = [reply EXCEPT ![w.tag] = w]
    BY <1>a, <1>4, <1>5 DEF readReply
  <2>2. \A x \in Hdrs : x # w.tag => done'[x] = done[x] /\ reply'[x] = reply[x]
    BY <1>0, <1>3, <2>1
  <2>3. reply'[w.tag] = w
    BY <1>0, <1>3, <2>1
  <2>4. \A x \in Listed : x # w.tag => x \in Listed'
    <3>1. Listed' = {x \in Hdrs : In(x, queue')}
      BY DEF Listed, In
    <3>2. \A x : In(x, Without(queue, {w.tag})) <=> In(x, queue) /\ x \notin {w.tag}
      BY <1>0, WithoutFacts
    <3> QED
      BY <2>1, <3>1, <3>2 DEF Listed
  <2>5. Ledger(q)'
    <3>0. Request(q)' = Request(q)
      BY <1>1 DEF Request
    <3>1. CASE w.tag = Request(q)
      <4>1. w.to = q
        BY <1>2, <3>1, RequestHas DEF Settled
      <4>2. w = Reply(q)
        BY <1>3, <3>1, <4>1 DEF Reply, Answers
      <4>3. Request(q) \in served
        BY <1>2, <4>2 DEF Ledger
      <4>4. Reply(q)' = Reply(q)
        BY <3>0 DEF Reply
      <4> QED
        BY <1>1, <2>3, <3>0, <3>1, <4>2, <4>3, <4>4 DEF Ledger
    <3>2. CASE w.tag # Request(q)
      <4>1. reply'[Request(q)] = reply[Request(q)]
        BY <2>2, <3>2, RequestHas
      <4>2. w # Reply(q)
        BY <3>2 DEF Reply
      <4> QED
        BY <1>1, <1>2, <3>0, <4>1, <4>2, LedgerStays
    <3> QED
      BY <3>1, <3>2
  <2>6. ASSUME NEW x \in Wired', x.to = q PROVE x.tag \in Listed'
    <3>1. x \in Wired /\ x # w /\ x.tag \in Listed /\ x.tag \in Has(q)
      BY <1>2, <2>6 DEF Settled
    <3>2. x.tag # w.tag
      <4> SUFFICES ASSUME x.tag = w.tag PROVE FALSE
        OBVIOUS
      <4>1. w.to = q
        BY <1>2, <3>1 DEF Settled
      <4>2. x \in Answers
        BY <3>1, WiredTyped
      <4> QED
        BY <1>3, <2>6, <3>1, <4>1, <4>2 DEF Answers
    <3> QED
      BY <2>4, <3>1, <3>2
  <2>7. ASSUME pc'[q] \in {"free", "return"} \/ done'[Head(chain[q])] PROVE \A x \in Wired' : x.to # q
    <3>1. pc'[q] \in {"free", "return"} => pc[q] \in {"free", "return"}
      BY <1>0, <1>1 DEF readReply
    <3>2. CASE Head(chain[q]) = w.tag
      <4>1. w.to = q
        BY <1>2, <3>2, NewestHas DEF Settled
      <4> QED
        BY <1>2, <3>2, <4>1 DEF Settled
    <3>3. CASE Head(chain[q]) # w.tag
      <4>1. Head(chain[q]) \in Hdrs
        BY NewestHas DEF Has
      <4>2. done'[Head(chain[q])] = done[Head(chain[q])]
        BY <2>2, <3>3, <4>1
      <4> QED
        BY <1>2, <2>7, <3>1, <4>2 DEF Settled
    <3> QED
      BY <3>2, <3>3
  <2>8. Settled(q)'
    BY <1>1, <1>2, <2>6, <2>7, SettledStays
  <2> QED
    BY <2>5, <2>8
<1>6. CASE w.tag \notin Listed
  <2>1. UNCHANGED <<queue, done, reply, pc>>
    BY <1>a, <1>4, <1>6 DEF readReply, rpc
  <2>2. w.to # q
    BY <1>2, <1>6 DEF Settled
  <2>3. Listed' = Listed
    BY <2>1 DEF Listed, In
  <2>4. Ledger(q)'
    <3>1. w # Reply(q)
      BY <2>2 DEF Reply
    <3>2. Request(q)' = Request(q)
      BY <1>1 DEF Request
    <3> QED
      BY <1>1, <1>2, <2>1, <3>1, <3>2, LedgerStays
  <2>5. Settled(q)'
    BY <1>1, <1>2, <2>1, <2>3, SettledStays DEF Settled
  <2> QED
    BY <2>4, <2>5
<1> QED
  BY <1>5, <1>6

LEMMA AfterFree ==
    ASSUME NEW p \in Procs, HeaderInv, RestTyped, mntflushfree(p), NEW q \in Procs, pc[q] # "idle",
           Request(q)' = Request(q), Ledger(q), Settled(q)
    PROVE  Ledger(q)' /\ Settled(q)'
<1>a. PICK h : h = Head(chain[p])
  OBVIOUS
<1>0. /\ chain \in [Procs -> Seq(Hdrs)] /\ pc \in [Procs -> Labels]
      /\ queue \in Seq(Hdrs) /\ done \in [Hdrs -> BOOLEAN] /\ reply \in [Hdrs -> Answers \cup {None}]
  BY DEF HeaderInv, TurnTyped, RestTyped
<1>1. /\ pc[p] = "free" /\ UNCHANGED <<wire, served>>
      /\ done' = [done EXCEPT ![h] = TRUE]
      /\ queue' = queue \/ queue' = Without(queue, {h})
  BY <1>a DEF mntflushfree, server
<1>2. h \in Has(p) /\ h \in Hdrs
  BY <1>a, <1>1, NewestHas DEF Has
<1>3. Wired' = Wired /\ \A x : WiredAfter(x)' = WiredAfter(x)
  BY <1>1, WireSame
<1>4. reply'[Request(q)] = reply[Request(q)]
  <2>1. CASE q # p \/ Flushing(p)
    <3>1. Request(q) \in Hdrs /\ Request(q) \in Has(q)
      BY RequestHas
    <3>2. Request(q) # h
      <4>1. CASE q # p
        BY <1>2, <3>1, <4>1, HasAlone
      <4>2. CASE q = p /\ Flushing(p)
        BY <1>a, <1>1, <4>2, ChainEnds
      <4> QED
        BY <2>1, <4>1, <4>2
    <3>3. reply' = reply \/ reply' = [reply EXCEPT ![h] = None]
      BY <1>a DEF mntflushfree
    <3> QED
      BY <1>0, <1>2, <3>1, <3>2, <3>3
  <2>2. CASE ~Flushing(p)
    BY <2>2 DEF mntflushfree
  <2> QED
    BY <2>1, <2>2
<1>5. Ledger(q)'
  BY <1>1, <1>3, <1>4, LedgerStays
<1>6. CASE q # p
  <2>1. chain'[q] = chain[q] /\ pc'[q] = pc[q]
    BY <1>0, <1>6 DEF mntflushfree
  <2>2. Head(chain[q]) # h /\ Head(chain[q]) \in Hdrs
    BY <1>2, <1>6, NewestHas, HasAlone DEF Has
  <2>3. done'[Head(chain[q])] = done[Head(chain[q])]
    BY <1>0, <1>1, <2>2
  <2>4. \A x \in Wired' : x.to = q => x.tag \in Listed'
    <3>1. Listed' = {x \in Hdrs : In(x, queue')}
      BY DEF Listed, In
    <3>2. \A x : In(x, Without(queue, {h})) <=> In(x, queue) /\ x \notin {h}
      BY <1>0, WithoutFacts
    <3>3. \A x \in Listed : x # h => x \in Listed'
      BY <1>1, <3>1, <3>2 DEF Listed
    <3>4. \A x \in Wired : x.to = q => x.tag \in Listed /\ x.tag \in Has(q)
      BY DEF Settled
    <3>5. h \notin Has(q)
      BY <1>2, <1>6, HasAlone
    <3> QED
      BY <1>3, <3>3, <3>4, <3>5
  <2>5. Settled(q)'
    BY <1>3, <2>1, <2>3, <2>4, SettledStays DEF Settled
  <2> QED
    BY <1>5, <2>5
<1>7. CASE q = p
  <2>1. \A x \in Wired : x.to # p /\ x.tag \notin Has(p)
    BY <1>1, <1>7 DEF Settled
  <2>2. Has(p)' \subseteq Has(p)
    <3>1. Has(p)' = {x \in Hdrs : In(x, chain'[p])}
      BY DEF Has, In
    <3>2. CASE ~Flushing(p)
      BY <3>1, <3>2 DEF mntflushfree, Has
    <3>3. CASE Flushing(p)
      <4>1. chain[p] \in Seq(Hdrs) /\ chain[p] # << >> /\ Distinct(chain[p])
        BY <1>1, ChainEnds
      <4>2. \A x \in Hdrs : In(x, Tail(chain[p])) => In(x, chain[p])
        BY <4>1, LeaveQueue
      <4>3. chain'[p] = Tail(chain[p])
        BY <1>0, <3>3 DEF mntflushfree
      <4> QED
        BY <3>1, <4>2, <4>3 DEF Has
    <3> QED
      BY <3>2, <3>3
  <2>3. Settled(p)'
    BY <1>3, <2>1, <2>2 DEF Settled
  <2> QED
    BY <1>5, <1>7, <2>3
<1> QED
  BY <1>6, <1>7

LEMMA AfterReturn ==
    ASSUME NEW p \in Procs, HeaderInv, RestTyped, Return(p), NEW q \in Procs, pc[q] # "idle", q # p,
           Ledger(q), Settled(q)
    PROVE  Ledger(q)' /\ Settled(q)'
<1>0. /\ chain \in [Procs -> Seq(Hdrs)] /\ pc \in [Procs -> Labels]
      /\ reply \in [Hdrs -> Answers \cup {None}]
  BY DEF HeaderInv, TurnTyped, RestTyped
<1>1. /\ pc[p] = "return" /\ UNCHANGED <<wire, queue, done>>
      /\ reply' = [reply EXCEPT ![Request(p)] = None] /\ served' = served \ {Request(p)}
  BY DEF Return, Goto, mnt
<1>2. chain'[q] = chain[q] /\ pc'[q] = pc[q]
  BY <1>0 DEF Return, Goto
<1>3. Request(q) # Request(p) /\ Request(q) \in Hdrs
  BY <1>1, RequestsApart, RequestHas
<1>4. Request(q)' = Request(q)
  BY <1>2 DEF Request
<1>5. Wired' = Wired /\ Listed' = Listed /\ \A x : WiredAfter(x)' = WiredAfter(x)
  BY <1>1, WireSame DEF Listed, In
<1>6. reply'[Request(q)] = reply[Request(q)] /\ (Request(q) \in served' <=> Request(q) \in served)
  BY <1>0, <1>1, <1>3
<1>7. Ledger(q)'
  BY <1>4, <1>5, <1>6, LedgerStays
<1>8. Settled(q)'
  BY <1>1, <1>2, <1>5, SettledStays DEF Settled
<1> QED
  BY <1>7, <1>8

LEMMA ActsServedInv ==
    ASSUME NEW p \in Procs, HeaderInv, RestTyped, TagInv, ServedInv, Acts(p) PROVE ServedInv'
<1>1. hung' = hung
  BY ActsHung
<1>2. ASSUME NEW q \in Procs, Sure(q)', Sure(q), pc'[q] # "idle",
             q = p => ~Return(p) /\ (hung => ~ \E h \in Hdrs : mntflushalloc(p, h)),
             q # p \/ ~ \E h \in Hdrs : mountrpc(p, h)
      PROVE  Ledger(q)' /\ (hung => Settled(q)')
  <2>1. Ledger(q) /\ Settled(q) /\ Distinct(wire)
    BY <1>2, SureSettled DEF ServedInv, Known
  <2>2. pc[q] # "idle" /\ Request(q)' = Request(q)
    BY <1>2, RequestStays DEF Sure
  <2>3. CASE Still(p)
    BY <1>2, <2>1, <2>3, AfterStill
  <2>4. CASE readReply(p)
    BY <2>1, <2>2, <2>4, AfterReply
  <2>5. CASE mntflushfree(p)
    BY <2>1, <2>2, <2>5, AfterFree
  <2>6. CASE Return(p)
    BY <1>2, <2>1, <2>2, <2>6, AfterReturn
  <2>7. ASSUME NEW h \in Hdrs, mountrpc(p, h) PROVE Ledger(q)' /\ (hung => Settled(q)')
    BY <1>2, <2>1, <2>2, <2>7, AfterAlloc
  <2>8. ASSUME NEW h \in Hdrs, mntflushalloc(p, h) PROVE Ledger(q)' /\ (hung => Settled(q)')
    BY <1>2, <2>1, <2>2, <2>8, AfterAlloc
  <2> QED
    BY <2>3, <2>4, <2>5, <2>6, <2>7, <2>8, ActsKinds
<1>3. ASSUME NEW q \in Procs, Sure(q)' PROVE Ledger(q)' /\ (hung => Settled(q)')
  <2>1. CASE q # p \/ ~ \E h \in Hdrs : mountrpc(p, h)
    BY <1>2, <1>3, <2>1, SureBefore
  <2>2. CASE q = p /\ \E h \in Hdrs : mountrpc(p, h)
    <3>1. pc'[p] = "write"
      <4>1. pc \in [Procs -> Labels]
        BY DEF HeaderInv, TurnTyped
      <4> QED
        BY <2>2, <4>1 DEF mountrpc, Goto
    <3>2. ~hung
      BY <1>1, <1>3, <2>2, <3>1 DEF Sure
    <3> QED
      BY <2>2, <3>2, AfterBegin
  <2> QED
    BY <2>1, <2>2
<1>4. hung => Distinct(wire)'
  <2>1. ASSUME hung PROVE Distinct(wire)'
    <3>1. Distinct(wire)
      BY <2>1 DEF ServedInv, Coming
    <3>2. CASE readReply(p)
      BY <3>1, <3>2, WireTail DEF readReply, RestTyped
    <3>3. CASE ~readReply(p)
      <4>1. UNCHANGED wire
        <5>1. mntflushfree(p) \/ Return(p) => UNCHANGED wire
          BY DEF mntflushfree, Return, server
        <5>2. (\E h \in Hdrs : mountrpc(p, h) \/ mntflushalloc(p, h)) => UNCHANGED wire
          BY DEF mountrpc, mntflushalloc, server
        <5> QED
          BY <3>3, <5>1, <5>2, ActsKinds DEF Still
      <4> QED
        BY <3>1, <4>1 DEF Distinct
    <3> QED
      BY <3>2, <3>3
  <2> QED
    BY <2>1
<1>5. Known' /\ Coming'
  BY <1>1, <1>3, <1>4 DEF Known, Coming
<1> QED
  BY <1>5, ActsServed DEF ServedInv

LEMMA ServeFacts ==
    ASSUME HeaderInv, RestTyped, Live, NEW n \in 1 .. Len(sent), serve(n) \/ serveFlush(n)
    PROVE  /\ sent[n] \in Sent
           /\ Sent' \subseteq Sent \ {sent[n]}
           /\ Wired' = Wired \cup {Answer(sent[n])}
           /\ UNCHANGED <<pc, chain, failed, queue, done, reply, hung>>
<1>1. PICK D : sent' = Without(sent, D) /\ sent[n] \in D
  BY ServesLast
<1>2. sent[n] \in Sent
  BY ServesLast
<1>3. Sent' = Sent \ D
  BY <1>1, SentWithout DEF Live, Once, RestTyped
<1>4. /\ Answer(sent[n]) \in Answers
      /\ Answer(sent[n]).tag = sent[n].tag
  BY <1>2, SentTyped DEF Answer, Answers
<1>5. wire' = Append(wire, Answer(sent[n])) /\ UNCHANGED <<pc, chain, failed, queue, done, reply, hung>>
  BY DEF serve, serveFlush, mnt, rpc
<1>6. Answer(sent[n]) \notin Wired
  BY <1>2, <1>4 DEF Live, Single
<1>7. Wired' = Wired \cup {Answer(sent[n])}
  BY <1>4, <1>5, <1>6, WireAppend DEF Live, Once, RestTyped
<1> QED
  BY <1>1, <1>2, <1>3, <1>5, <1>7

LEMMA ServeServedInv ==
    ASSUME HeaderInv, RestTyped, TagInv, ServedInv, ~hung,
           NEW n \in 1 .. Len(sent), serve(n) \/ serveFlush(n)
    PROVE  ServedInv'
<1>1. PICK m : m = sent[n]
  OBVIOUS
<1>2. Live
  BY DEF TagInv
<1>3. /\ m \in Sent /\ Sent' \subseteq Sent \ {m} /\ Wired' = Wired \cup {Answer(m)}
      /\ UNCHANGED <<pc, chain, failed, queue, done, reply, hung>>
  BY <1>1, <1>2, ServeFacts
<1>4. /\ m.from \in Procs /\ m.tag \in Has(m.from)
      /\ m.old = IF m.tag = Request(m.from) THEN None ELSE Request(m.from)
  BY <1>2, <1>3, SentTyped DEF Live, Waited, Olds
<1>5. pc[m.from] # "idle"
  <2> SUFFICES ASSUME pc[m.from] = "idle" PROVE FALSE
    OBVIOUS
  <2>1. chain[m.from] = << >>
    BY <1>4 DEF ServedInv, IdleEmpty
  <2> QED
    BY <1>4, <2>1 DEF Has, In
<1>6. /\ m.old = None => m.tag = Request(m.from) /\ served' = served \cup {m.tag}
      /\ m.old # None => m.tag # Request(m.from) /\ served' = served
  <2>1. Request(m.from) \in Hdrs /\ None \notin Hdrs
    BY <1>4, <1>5, RequestHas, DevmntAssumption
  <2>2. /\ m.old = None => served' = served \cup {m.tag}
        /\ m.old # None => served' = served
    BY <1>1 DEF serve, serveFlush
  <2> QED
    BY <1>4, <2>1, <2>2
<1>7. \A q : Request(q)' = Request(q) /\ (Sure(q)' => Sure(q))
  BY <1>3 DEF Request, Sure
<1>8. IdleEmpty'
  BY <1>3 DEF ServedInv, IdleEmpty
<1>9. ServedOwned'
  BY <1>3, <1>4, <1>5, <1>6, <1>7 DEF ServedInv, ServedOwned
<1>10. SentUnserved'
  <2>1. \A x \in Sent' : x \in Sent /\ x.tag # m.tag
    BY <1>2, <1>3 DEF Live, Single
  <2> QED
    BY <1>6, <2>1 DEF ServedInv, SentUnserved
<1>11. Fresh'
  BY <1>2, <1>3, <1>6 DEF ServedInv, Fresh, Live, Unsent
<1>12. Known'
  <2> SUFFICES ASSUME NEW q \in Procs, Sure(q)' PROVE Ledger(q)'
    BY DEF Known
  <2>1. Ledger(q) /\ pc[q] # "idle"
    BY <1>7 DEF ServedInv, Known, Sure
  <2>2. Reply(q)' = Reply(q)
    BY <1>7 DEF Reply
  <2>3. CASE m.tag = Request(q)
    <3>1. q = m.from
      BY <1>4, <2>1, <2>3, RequestHas, HasAlone
    <3>2. Reply(q) = Answer(m)
      BY <2>3, <3>1 DEF Reply, Answer
    <3>3. Request(q) \in served'
      BY <1>6, <2>3, <3>1
    <3> QED
      BY <1>3, <1>7, <2>2, <3>2, <3>3 DEF Ledger
  <2>4. CASE m.tag # Request(q)
    <3>1. Answer(m) # Reply(q)
      BY <2>4 DEF Answer, Reply
    <3>2. Request(q) \in served' <=> Request(q) \in served
      BY <1>6, <2>4
    <3> QED
      BY <1>3, <1>7, <2>1, <3>1, <3>2, LedgerStays
  <2> QED
    BY <2>3, <2>4
<1>13. Coming'
  BY <1>3 DEF Coming
<1> QED
  BY <1>8, <1>9, <1>10, <1>11, <1>12, <1>13 DEF ServedInv

LEMMA ServedKept == HeaderInv /\ RestTyped /\ TagInv /\ ServedInv /\ [Next]_vars => ServedInv'
<1> SUFFICES ASSUME HeaderInv, RestTyped, TagInv, ServedInv, [Next]_vars PROVE ServedInv'
  OBVIOUS
<1>1. ASSUME NEW p \in Procs, Acts(p) PROVE ServedInv'
  BY <1>1, ActsServedInv
<1>2. ASSUME NEW n \in 1 .. Len(sent), serve(n) \/ serveFlush(n) PROVE ServedInv'
  <2>1. ~hung
    <3> SUFFICES ASSUME hung PROVE FALSE
      OBVIOUS
    <3>1. sent = << >>
      BY DEF TagInv
    <3> QED
      BY <3>1
  <2> QED
    BY <1>2, <2>1, ServeServedInv
<1>3. CASE hangup
  <2>1. /\ ~hung /\ hung' /\ sent' = << >>
        /\ UNCHANGED <<pc, chain, failed, queue, done, reply, wire, served>>
    BY <1>3 DEF hangup, mnt, rpc
  <2>2. Live
    BY <2>1 DEF TagInv
  <2>3. Sent' = {} /\ Wired' = Wired /\ Listed' = Listed
        /\ \A q : Has(q)' = Has(q) /\ Request(q)' = Request(q)
    BY <2>1, WireSame DEF Sent, In, Listed, Has, Request
  <2>4. \A q : (Sure(q)' => Sure(q)) /\ Reply(q)' = Reply(q)
    BY <2>1, <2>3 DEF Sure, Reply
  <2>5. IdleEmpty' /\ ServedOwned' /\ SentUnserved' /\ Fresh'
    BY <2>1, <2>3 DEF ServedInv, IdleEmpty, ServedOwned, SentUnserved, Fresh
  <2>6. Known'
    BY <2>1, <2>3, <2>4 DEF ServedInv, Known, Ledger
  <2>7. Coming'
    <3>1. Distinct(wire)'
      BY <2>1, <2>2 DEF Live, Once, Distinct
    <3>2. ASSUME NEW q \in Procs, Sure(q)' PROVE Settled(q)'
      <4>1. Settled(q)
        BY <2>2, <2>4, <3>2, LiveSettled DEF Sure
      <4>2. \A x : WiredAfter(x)' = WiredAfter(x)
        BY <2>1, WireSame
      <4> QED
        BY <2>1, <2>3, <4>1, <4>2, SettledStays DEF Settled
    <3> QED
      BY <3>1, <3>2 DEF Coming
  <2> QED
    BY <2>5, <2>6, <2>7 DEF ServedInv
<1>4. CASE remount
  <2>1. /\ ~hung' /\ sent' = << >> /\ \A q \in Procs : pc'[q] = "idle"
        /\ UNCHANGED <<pc, chain, served>>
    BY <1>4 DEF remount, TagInv
  <2>2. Sent' = {} /\ \A q : Request(q)' = Request(q)
    BY <2>1 DEF Sent, In, Request
  <2>3. \A q \in Procs : ~Sure(q)'
    BY <2>1 DEF Sure
  <2> QED
    BY <2>1, <2>2, <2>3
       DEF ServedInv, IdleEmpty, ServedOwned, SentUnserved, Fresh, Known, Coming
<1>5. CASE UNCHANGED vars
  <2>1. UNCHANGED <<pc, chain, failed, queue, done, reply, sent, wire, served, hung>>
    BY <1>5 DEF vars, mnt, rpc, server
  <2>2. /\ Sent' = Sent /\ Wired' = Wired /\ Listed' = Listed
        /\ \A q : Has(q)' = Has(q) /\ Request(q)' = Request(q)
        /\ \A x : WiredAfter(x)' = WiredAfter(x)
    BY <2>1, WireSame DEF Sent, In, Listed, Has, Request
  <2>3. \A q : Sure(q)' = Sure(q) /\ Reply(q)' = Reply(q)
    BY <2>1, <2>2 DEF Sure, Reply
  <2>4. IdleEmpty' /\ ServedOwned' /\ SentUnserved' /\ Fresh'
    BY <2>1, <2>2 DEF ServedInv, IdleEmpty, ServedOwned, SentUnserved, Fresh
  <2>5. Known'
    BY <2>1, <2>2, <2>3 DEF ServedInv, Known, Ledger
  <2>6. Coming'
    <3>1. hung => Distinct(wire)'
      BY <2>1 DEF ServedInv, Coming, Distinct
    <3>2. \A q \in Procs : Settled(q) => Settled(q)'
      BY <2>1, <2>2, SettledStays DEF Settled
    <3> QED
      BY <2>1, <2>3, <3>1, <3>2 DEF ServedInv, Coming
  <2> QED
    BY <2>4, <2>5, <2>6 DEF ServedInv
<1> QED
  BY <1>1, <1>2, <1>3, <1>4, <1>5 DEF Next, ServeFlush, Acts

\* A response that came before the Rflush is honoured: an RPC that does not fail
\* returns its own reply if the server has carried it out, and raises Eintr only
\* if it has not and will not.
THEOREM ReplyHonoured == Spec => Honoured
<1>1. Init => HeaderInv /\ RestTyped
  BY InitHeaders, InitRest
<1>2. Init => TagInv
  BY LiveEmpty DEF Init, TagInv
<1>3. Init => ServedInv
  <2> SUFFICES ASSUME Init PROVE ServedInv
    OBVIOUS
  <2>1. Sent = {} /\ ~hung /\ served = {}
        /\ \A p \in Procs : pc[p] = "idle" /\ chain[p] = << >>
    BY DEF Init, Sent, In
  <2> QED
    BY <2>1 DEF ServedInv, IdleEmpty, ServedOwned, SentUnserved, Fresh, Known, Coming, Sure
<1>4. HeaderInv /\ RestTyped /\ TagInv /\ ServedInv /\ [Next]_vars =>
         [\A p \in Procs :
            Return(p) /\ ~failed[p] =>
                IF Request(p) \in served THEN reply[Request(p)] = [tag |-> Request(p), to |-> p]
                ELSE /\ reply[Request(p)] = None
                     /\ hung \/ \A n \in 1 .. Len(sent) : sent[n].tag # Request(p)]_vars
  <2> SUFFICES ASSUME HeaderInv, RestTyped, TagInv, ServedInv, NEW p \in Procs, Return(p), ~failed[p]
               PROVE  IF Request(p) \in served THEN reply[Request(p)] = [tag |-> Request(p), to |-> p]
                      ELSE /\ reply[Request(p)] = None
                           /\ hung \/ \A n \in 1 .. Len(sent) : sent[n].tag # Request(p)
    OBVIOUS
  <2>1. pc[p] = "return"
    BY DEF Return, Goto
  <2>2. Sure(p)
    BY <2>1 DEF Sure
  <2>3. Ledger(p) /\ Settled(p)
    BY <2>2, SureSettled DEF ServedInv, Known
  <2>4. Reply(p) \notin Wired
    BY <2>1, <2>3 DEF Settled, Reply
  <2>5. ASSUME ~hung, NEW n \in 1 .. Len(sent), sent[n].tag = Request(p) PROVE FALSE
    <3>1. Live
      BY <2>5 DEF TagInv
    <3>2. sent[n] \in Sent
      BY DEF Sent, In, RestTyped
    <3>3. sent[n].from = p
      BY <2>1, <2>5, <3>1, <3>2, SentTyped, RequestHas, HasAlone DEF Live, Waited
    <3> QED
      BY <2>1, <3>1, <3>2, <3>3 DEF Live, Over, Quiet
  <2> QED
    BY <2>3, <2>4, <2>5 DEF Ledger, Reply
<1> QED
  BY <1>1, <1>2, <1>3, <1>4, HeadersKept, RestKept, TagsInvKept, ServedKept, PTL
     DEF Spec, Honoured
=============================================================================
