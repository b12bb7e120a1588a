------------------------------ MODULE Rendezvous ------------------------------
(***************************************************************************)
(* What the channels of Dis promise, without their queues: a line of       *)
(* offers.  An offer is a Prog's wish to communicate in one of several     *)
(* cases, a case being a direction and a channel.  A Prog that finds one   *)
(* of its cases possible communicates at once, with the first in the line  *)
(* that has the opposite case or with the channel's buffer; both are then  *)
(* done, with that one case, and the partner's offer is gone as a whole.   *)
(* A Prog waits only if none of its cases is possible.                     *)
(***************************************************************************)
EXTENDS Naturals, Sequences, SequencesExt, Queues

CONSTANTS Progs, Chans, Vals, None,
          Cap           \* Cap[c]: how many values c buffers

VARIABLES line,         \* the offers, in the order they were made
          buffer,       \* buffer[c]: the values c holds
          got           \* got[p]: the case and value of p's last communication

vars == <<line, buffer, got>>

Cases == {"send", "recv"} \X Chans
Opposite(k) == <<IF k[1] = "send" THEN "recv" ELSE "send", k[2]>>

\* The first offer of a set of lines that has case k.
Offering(k) == {n \in 1 .. Len(line) : k \in line[n].cases}
First(k) == CHOOSE n \in Offering(k) : \A m \in Offering(k) : n <= m

Buffers(k) == IF k[1] = "send" THEN Len(buffer[k[2]]) < Cap[k[2]]
                               ELSE buffer[k[2]] # << >>
Possible(k) == Offering(Opposite(k)) # {} \/ Buffers(k)
Waits(p) == \E n \in 1 .. Len(line) : line[n].who = p

Init == /\ line = << >>
        /\ buffer = [c \in Chans |-> << >>]
        /\ got = [p \in Progs |-> None]

\* p makes an offer that nobody can take up yet.
Wait(p, S, v) == /\ ~Waits(p)
                 /\ \A k \in S : ~Possible(k)
                 /\ line' = Append(line, [who |-> p, cases |-> S, val |-> v])
                 /\ UNCHANGED <<buffer, got>>

\* p communicates with the first Prog that offers the opposite case.  A value
\* sent to a channel that buffers goes behind those that are there.
Meet(p, k, v) ==
    LET n == First(Opposite(k))
        o == line[n]
        c == k[2]
        in == IF k[1] = "send" THEN v ELSE o.val
        out == IF buffer[c] = << >> THEN in ELSE Head(buffer[c])
    IN /\ ~Waits(p)
       /\ Offering(Opposite(k)) # {}
       /\ line' = Without(line, {o})
       /\ buffer' = [buffer EXCEPT ![c] = IF @ = << >> THEN @ ELSE Append(Tail(@), in)]
       /\ got' = [got EXCEPT ![p] = <<k, IF k[1] = "send" THEN v ELSE out>>,
                             ![o.who] = <<Opposite(k), IF k[1] = "send" THEN out ELSE o.val>>]

\* p communicates with the buffer.
Put(p, c, v) == /\ ~Waits(p)
                /\ Offering(<<"recv", c>>) = {} /\ Buffers(<<"send", c>>)
                /\ buffer' = [buffer EXCEPT ![c] = Append(@, v)]
                /\ got' = [got EXCEPT ![p] = <<<<"send", c>>, v>>]
                /\ UNCHANGED line

Get(p, c) == /\ ~Waits(p)
             /\ Offering(<<"send", c>>) = {} /\ Buffers(<<"recv", c>>)
             /\ buffer' = [buffer EXCEPT ![c] = Tail(@)]
             /\ got' = [got EXCEPT ![p] = <<<<"recv", c>>, Head(buffer[c])>>]
             /\ UNCHANGED line

\* p has seen what it got.
Forget(p) == /\ ~Waits(p)
             /\ got' = [got EXCEPT ![p] = None]
             /\ UNCHANGED <<line, buffer>>

\* An exception, or the end of the Prog, takes its offer back.
Withdraw(p) == /\ \E n \in 1 .. Len(line) :
                     line[n].who = p /\ line' = Without(line, {line[n]})
               /\ UNCHANGED <<buffer, got>>

\* The channel is no more: those that wait for it are told.
Hangup(c) == /\ line' = Without(line, {o \in ToSet(line) : \E k \in o.cases : k[2] = c})
             /\ buffer' = [buffer EXCEPT ![c] = << >>]
             /\ UNCHANGED got

Next == \/ \E p \in Progs :
              \/ \E S \in SUBSET Cases, v \in Vals \cup {None} : Wait(p, S, v)
              \/ \E k \in Cases, v \in Vals \cup {None} : Meet(p, k, v)
              \/ \E c \in Chans : Get(p, c) \/ \E v \in Vals : Put(p, c, v)
              \/ Forget(p) \/ Withdraw(p)
        \/ \E c \in Chans : Hangup(c)

Spec == Init /\ [][Next]_vars
=============================================================================
