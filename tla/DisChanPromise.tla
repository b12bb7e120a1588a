---------------------------- MODULE DisChanPromise ----------------------------
(* DisChan with the order in which Progs have come to wait as a history     *)
(* variable, by which its state is one of Rendezvous: the line of offers is *)
(* what those Progs do, and what a Prog got what it has been told.          *)
EXTENDS DisChan

\* *p->R.d is told from a number of a case.
ASSUME NoneNoCase == None \notin Nat

VARIABLE order

\* Those that wait no more leave the order, one that has begun to wait joins it.
Order == LET stay == Without(order, {p \in Progs : ~Waiting(p)'})
             come == {p \in Progs : Waiting(p)'} \ ToSet(order)
         IN order' = IF come = {} THEN stay ELSE Append(stay, CHOOSE p \in come : TRUE)

OrderInit == Init /\ order = << >>
OrderNext == Next /\ Order
OrderSpec == OrderInit /\ [][OrderNext]_<<vars, order>>

Offer(p) == [who |-> p, cases |-> ToSet(op[p]), val |-> cell[p]]
Line == [n \in 1 .. Len(order) |-> Offer(order[n])]
Got == [p \in Progs |-> IF result[p] = None THEN None ELSE <<op[p][result[p]], cell[p]>>]

Promise == INSTANCE Rendezvous WITH line <- Line, buffer <- buf, got <- Got

\* Channels with queues, alts on several of them, kprocs that come and go, kills
\* and hangups do what Rendezvous promises: every communication is between one
\* sender and the receiver that has waited longest, or the reverse, in one case
\* of each; it takes both off every queue; values come in order and once.
KeepsPromise == Promise!Spec
===============================================================================
