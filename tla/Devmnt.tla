-------------------------------- MODULE Devmnt --------------------------------
(***************************************************************************)
(* The mount driver, emu/port/devmnt.c: Procs share one connection to a    *)
(* 9P server.  A request is put on the list m->queue and written; then its *)
(* Proc waits for its turn to read replies (m->rip) until its own has      *)
(* come, and passes what it reads for others on to them.  An interrupted   *)
(* Proc sends a flush and waits for the answer to that instead, with the   *)
(* request, and the flushes before, kept in a chain.                       *)
(*                                                                         *)
(* A header (Mntrpc) keeps its tag for as long as it lives, so the header  *)
(* stands for the tag.  Sections under m->l are single actions.  Between   *)
(* reading a message and mountmux only the reader touches it, and the two  *)
(* are one.                                                                *)
(*                                                                         *)
(* The server is external and does what flush(5) says of servers.          *)
(***************************************************************************)
EXTENDS Naturals, Sequences, SequencesExt, FiniteSets, Queues

CONSTANTS Procs,        \* the Procs that use the mount
          Hdrs,         \* the headers, and the tags: bounds how many are in use
          None

ASSUME DevmntAssumption == None \notin Procs \cup Hdrs

VARIABLES pc,           \* pc[p]: where p is in mountio
          chain,        \* chain[p]: r, r->flushed, ... of p; the request is last
          failed,       \* failed[p]: p leaves by nexterror
          queue,        \* m->queue
          rip,          \* m->rip
          done,         \* done[h]: h->done
          reply,        \* reply[h]: h->reply
          target,       \* target[p]: the q whose sleeper mountmux is to wake
          sent,         \* messages to the server that it has not answered
          wire,         \* its answers that have not been read
          served,       \* the requests in use that the server has carried out
          hung          \* the connection is broken

mnt == <<queue, rip>>
rpc == <<done, reply>>
server == <<sent, wire, served, hung>>
vars == <<pc, chain, failed, mnt, rpc, target, server>>

Labels == {"idle", "write", "gate", "sleep", "asleep", "woken", "read", "wake",
           "flush", "free", "return"}

Init == /\ pc = [p \in Procs |-> "idle"]
        /\ chain = [p \in Procs |-> << >>]
        /\ failed = [p \in Procs |-> FALSE]
        /\ queue = << >>
        /\ rip = None
        /\ done = [h \in Hdrs |-> TRUE]
        /\ reply = [h \in Hdrs |-> None]
        /\ target = [p \in Procs |-> None]
        /\ sent = << >>
        /\ wire = << >>
        /\ served = {}
        /\ hung = FALSE

Goto(p, from, to) == /\ pc[p] = from
                     /\ pc' = [pc EXCEPT ![p] = to]

Request(p) == Last(chain[p])
Flushing(p) == Len(chain[p]) > 1

\* The headers that mntralloc can hand out, less one for each flush that is due.
Free == Hdrs \ UNION {ToSet(chain[p]) : p \in Procs}
Spare == Cardinality(Free) > Cardinality({p \in Procs : pc[p] = "flush"})

\* mntralloc, and mountio's putting of the header at the front of m->queue.
\* m->l is locked for the latter only, but nobody else knows of the header yet.
mntralloc(p, h) ==
    /\ h \in Free
    /\ chain' = [chain EXCEPT ![p] = <<h>> \o @]
    /\ queue' = <<h>> \o queue
    /\ done' = [done EXCEPT ![h] = FALSE]
    /\ reply' = [reply EXCEPT ![h] = None]

\* A device function begins an RPC, on a broken connection too.
mountrpc(p, h) == /\ Spare
                  /\ Goto(p, "idle", "write")
                  /\ mntralloc(p, h)
                  /\ UNCHANGED <<failed, rip, target, server>>

\* Mutant of oldtag: a second flush flushes the first.
oldtagFlush(p) == IF Flushing(p) THEN chain[p][2] ELSE None

\* mntflushalloc: the tag of the request, however many flushes there have been.
oldtag(p) == IF Flushing(p) THEN Request(p) ELSE None

Message(p) == [tag |-> Head(chain[p]), old |-> oldtag(p), from |-> p]

write(p) == /\ ~hung
            /\ Goto(p, "write", "gate")
            /\ sent' = Append(sent, Message(p))
            /\ UNCHANGED <<chain, failed, mnt, rpc, target, wire, served, hung>>

\* The write raises an error of the connection's.
writeFail(p) == /\ hung
                /\ Goto(p, "write", "free")
                /\ failed' = [failed EXCEPT ![p] = TRUE]
                /\ UNCHANGED <<chain, mnt, rpc, target, server>>

\* The write raises Eintr, and the message has gone out or not.
writeEintr(p) == /\ ~hung /\ Spare
                 /\ Goto(p, "write", "flush")
                 /\ sent' = sent \/ sent' = Append(sent, Message(p))
                 /\ UNCHANGED <<chain, failed, mnt, rpc, target, wire, served, hung>>

-----------------------------------------------------------------------------
(* The gate.                                                               *)

\* The sleeper on the Rendez of h.
Sleeper(h) == {p \in Procs : pc[p] = "asleep" /\ Head(chain[p]) = h}

\* Mutant of mntgate: the first of the queue is woken, asleep or not.
mntgateFirst(p, to) ==
    LET next == IF queue = << >> THEN {} ELSE Sleeper(Head(queue))
    IN /\ rip' = None
       /\ pc' = [x \in Procs |-> IF x = p THEN to
                                 ELSE IF x \in next THEN "woken" ELSE pc[x]]

\* mntgate: give up the turn to read, and wake the first in the queue that is
\* asleep without an answer.
mntgate(p, to) ==
    LET waits == {n \in 1 .. Len(queue) : ~done[queue[n]] /\ Sleeper(queue[n]) # {}}
        next == IF waits = {} THEN {}
                ELSE Sleeper(queue[CHOOSE n \in waits : \A m \in waits : n <= m])
    IN /\ rip' = None
       /\ pc' = [x \in Procs |-> IF x = p THEN to
                                 ELSE IF x \in next THEN "woken" ELSE pc[x]]

gateTake(p) == /\ rip = None
               /\ Goto(p, "gate", "read")
               /\ rip' = p
               /\ UNCHANGED <<chain, failed, queue, rpc, target, server>>

gateWait(p) == /\ rip # None
               /\ Goto(p, "gate", "sleep")
               /\ UNCHANGED <<chain, failed, mnt, rpc, target, server>>

\* Sleep(&r->r, rpcattn, r), with the Rendez locked.
Sleep(p) == /\ pc[p] = "sleep"
            /\ pc' = [pc EXCEPT ![p] = IF done[Head(chain[p])] \/ rip = None
                                       THEN "woken" ELSE "asleep"]
            /\ UNCHANGED <<chain, failed, mnt, rpc, target, server>>

Woken(p) == /\ pc[p] = "woken"
            /\ pc' = [pc EXCEPT ![p] = IF done[Head(chain[p])] THEN "free" ELSE "gate"]
            /\ UNCHANGED <<chain, failed, mnt, rpc, target, server>>

-----------------------------------------------------------------------------
(* Reading.                                                                *)

readDone(p) == /\ pc[p] = "read" /\ done[Head(chain[p])]
               /\ mntgate(p, "free")
               /\ UNCHANGED <<chain, failed, queue, rpc, target, server>>

\* mntrpcread and mountmux: the reply goes to the header with its tag, whose Proc
\* is woken later, with m->l unlocked.  A reply to no header is dropped.
readReply(p) ==
    LET h == Head(wire).tag
    IN /\ pc[p] = "read" /\ ~done[Head(chain[p])]
       /\ wire # << >>
       /\ wire' = Tail(wire)
       /\ IF Contains(queue, h)
          THEN /\ queue' = Without(queue, {h})
               /\ done' = [done EXCEPT ![h] = TRUE]
               /\ reply' = [reply EXCEPT ![h] = Head(wire)]
          ELSE UNCHANGED <<queue, rpc>>
       /\ IF Contains(queue, h) /\ h # Head(chain[p])
          THEN /\ pc' = [pc EXCEPT ![p] = "wake"]
               /\ target' = [target EXCEPT ![p] = h]
          ELSE UNCHANGED <<pc, target>>
       /\ UNCHANGED <<chain, failed, rip, sent, served, hung>>

\* mountmux: Wakeup(&q->r), whoever sleeps there by now.
muxWakeup(p) == /\ pc[p] = "wake"
                /\ pc' = [x \in Procs |-> IF x = p THEN "read"
                                          ELSE IF x \in Sleeper(target[p]) THEN "woken"
                                          ELSE pc[x]]
                /\ target' = [target EXCEPT ![p] = None]
                /\ UNCHANGED <<chain, failed, mnt, rpc, server>>

\* The read fails: the handler passes the turn on, and the RPC fails.
readFail(p) == /\ pc[p] = "read" /\ ~done[Head(chain[p])]
               /\ hung /\ wire = << >>
               /\ mntgate(p, "free")
               /\ failed' = [failed EXCEPT ![p] = TRUE]
               /\ UNCHANGED <<chain, queue, rpc, target, server>>

-----------------------------------------------------------------------------
(* Interrupts.                                                             *)

\* Mutant of readEintr: the reader keeps the turn.
readEintrKeeps(p) == /\ Spare
                     /\ Goto(p, "read", "flush")
                     /\ UNCHANGED <<chain, failed, mnt, rpc, target, server>>

\* Eintr while reading: the turn is passed on.
readEintr(p) == /\ Spare
                /\ pc[p] = "read" /\ ~done[Head(chain[p])]
                /\ mntgate(p, "flush")
                /\ UNCHANGED <<chain, failed, queue, rpc, target, server>>

\* Eintr in Sleep, though p may have been woken to read: its flush comes first.
sleepEintr(p) == /\ Spare
                 /\ \/ Goto(p, "sleep", "flush")
                    \/ Goto(p, "asleep", "flush")
                    \/ Goto(p, "woken", "flush")
                 /\ UNCHANGED <<chain, failed, mnt, rpc, target, server>>

mntflushalloc(p, h) == /\ Goto(p, "flush", "write")
                       /\ mntralloc(p, h)
                       /\ UNCHANGED <<failed, rip, target, server>>

-----------------------------------------------------------------------------
(* The end of mountio.                                                     *)

\* Mutant of mntflushfree: the request is given up as answered by an Rflush.
mntflushfreeAll(p) ==
    LET h == Head(chain[p])
    IN /\ pc[p] = "free"
       /\ queue' = Without(queue, {h})
       /\ done' = [done EXCEPT ![h] = TRUE]
       /\ reply' = [reply EXCEPT ![h] = None]
       /\ IF Flushing(p)
          THEN chain' = [chain EXCEPT ![p] = Tail(@)] /\ UNCHANGED pc
          ELSE pc' = [pc EXCEPT ![p] = "return"] /\ UNCHANGED chain
       /\ UNCHANGED <<failed, rip, target, server>>

\* One turn of mntflushfree's loop: what is unanswered comes off the queue
\* (mntqrm); flushes are freed (what a free header holds is of no use, and is
\* cleared here), the request is left to the caller.
mntflushfree(p) ==
    LET h == Head(chain[p])
    IN /\ pc[p] = "free"
       /\ queue' = IF done[h] THEN queue ELSE Without(queue, {h})
       /\ done' = [done EXCEPT ![h] = TRUE]
       /\ IF Flushing(p)
          THEN /\ chain' = [chain EXCEPT ![p] = Tail(@)]
               /\ reply' = [reply EXCEPT ![h] = None]
               /\ UNCHANGED pc
          ELSE /\ pc' = [pc EXCEPT ![p] = "return"]
               /\ UNCHANGED <<chain, reply>>
       /\ UNCHANGED <<failed, rip, target, server>>

\* The caller sees the reply, or with none (Rflush) raises Eintr, and frees the
\* header.
Return(p) == /\ Goto(p, "return", "idle")
             /\ chain' = [chain EXCEPT ![p] = << >>]
             /\ failed' = [failed EXCEPT ![p] = FALSE]
             /\ reply' = [reply EXCEPT ![Request(p)] = None]
             /\ served' = served \ {Request(p)}
             /\ UNCHANGED <<mnt, done, target, sent, wire, hung>>

-----------------------------------------------------------------------------
(* The server, as flush(5) has it.                                         *)

Answer(m) == [tag |-> m.tag, to |-> m.from]

serve(n) == /\ sent[n].old = None
            /\ sent' = Without(sent, {sent[n]})
            /\ wire' = Append(wire, Answer(sent[n]))
            /\ served' = served \cup {sent[n].tag}
            /\ UNCHANGED <<pc, chain, failed, mnt, rpc, target, hung>>

\* A flush is answered with the request's reply sent before, or the request, and
\* earlier flushes of it, dropped.
serveFlush(n) ==
    LET m == sent[n]
        dropped == {x \in {sent[k] : k \in 1 .. n - 1} : x.tag = m.old \/ x.old = m.old}
    IN /\ m.old # None
       /\ sent' = Without(sent, {m} \cup dropped)
       /\ wire' = Append(wire, Answer(m))
       /\ UNCHANGED <<pc, chain, failed, mnt, rpc, target, served, hung>>

hangup == /\ ~hung
          /\ hung' = TRUE
          /\ sent' = << >>
          /\ UNCHANGED <<pc, chain, failed, mnt, rpc, target, wire, served>>

\* All have left the broken connection, and it is mounted anew.
remount == /\ hung
           /\ \A p \in Procs : pc[p] = "idle"
           /\ hung' = FALSE
           /\ wire' = << >>
           /\ UNCHANGED <<pc, chain, failed, mnt, rpc, target, sent, served>>

-----------------------------------------------------------------------------
Step(p) == \/ write(p) \/ writeFail(p)
           \/ gateTake(p) \/ gateWait(p) \/ Sleep(p) \/ Woken(p)
           \/ readDone(p) \/ readReply(p) \/ muxWakeup(p) \/ readFail(p)
           \/ \E h \in Hdrs : mntflushalloc(p, h)
           \/ mntflushfree(p) \/ Return(p)

Interrupt(p) == writeEintr(p) \/ readEintr(p) \/ sleepEintr(p)

ServeFlush(p) == \E n \in 1 .. Len(sent) : sent[n].from = p /\ serveFlush(n)

Next == \/ \E p \in Procs : \/ Step(p) \/ Interrupt(p)
                            \/ \E h \in Hdrs : mountrpc(p, h)
        \/ \E n \in 1 .. Len(sent) : serve(n)
        \/ \E p \in Procs : ServeFlush(p)
        \/ hangup \/ remount

Spec == Init /\ [][Next]_vars

\* Procs go on with what they do, and the server answers flushes; it need not
\* ever answer a request.
FairSpec == /\ Spec
            /\ \A p \in Procs : WF_vars(Step(p)) /\ WF_vars(ServeFlush(p))

-----------------------------------------------------------------------------
Answers == [tag : Hdrs, to : Procs]

TypeOK == /\ pc \in [Procs -> Labels]
          /\ chain \in [Procs -> Seq(Hdrs)]
          /\ failed \in [Procs -> BOOLEAN]
          /\ queue \in Seq(Hdrs)
          /\ rip \in Procs \cup {None}
          /\ done \in [Hdrs -> BOOLEAN]
          /\ reply \in [Hdrs -> Answers \cup {None}]
          /\ target \in [Procs -> Hdrs \cup {None}]
          /\ sent \in Seq([tag : Hdrs, old : Hdrs \cup {None}, from : Procs])
          /\ wire \in Seq(Answers)
          /\ served \subseteq Hdrs
          /\ hung \in BOOLEAN

\* flush(5): the client must wait for the Rflush before it uses a flushed tag
\* again.  While the server may answer a message its header waits for that on
\* the queue, with the Proc that sent it, and no other message has its tag: no
\* reply is unexpected, or taken for one to a later request.
InFlight == [n \in 1 .. Len(sent) |-> Answer(sent[n])] \o wire
TagsKept == /\ TypeOK
            /\ ~hung => /\ \A n \in 1 .. Len(InFlight) :
                              /\ Contains(queue, InFlight[n].tag)
                              /\ Contains(chain[InFlight[n].to], InFlight[n].tag)
                        /\ \A m, n \in 1 .. Len(InFlight) :
                              InFlight[m].tag = InFlight[n].tag => m = n

\* flush(5): a response received before the Rflush must be honoured, since the
\* request may have changed the server's state.  An RPC that does not fail
\* returns its reply if the server has carried it out, and Eintr only if it has
\* not and will not.
Honoured == [][\A p \in Procs :
    Return(p) /\ ~failed[p] =>
        IF Request(p) \in served THEN reply[Request(p)] = [tag |-> Request(p), to |-> p]
        ELSE /\ reply[Request(p)] = None
             /\ hung \/ \A n \in 1 .. Len(sent) : sent[n].tag # Request(p)]_vars

\* One Proc reads at a time, and it is the one that m->rip names.
OneReader == \A p \in Procs : pc[p] \in {"read", "wake"} <=> rip = p

\* Nobody is left to read: a Proc that mntgate woke was interrupted and could
\* not send its flush on the broken connection, so that nobody wakes the others.
TurnLost == /\ hung /\ rip = None
            /\ \E p \in Procs : pc[p] = "asleep"
            /\ \A p \in Procs : pc[p] \in {"idle", "asleep"}

\* An RPC ends if it has been interrupted, though the server never answers
\* requests, or if the server has sent its reply, though other RPCs are given no
\* reply: whoever reads passes the turn on when it is done or interrupted itself.
Returns == \A p \in Procs :
    (Flushing(p) \/ (pc[p] # "idle" /\ Request(p) \in served))
        ~> (pc[p] = "idle" \/ TurnLost)
=============================================================================
