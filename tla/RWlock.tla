------------------------------- MODULE RWlock -------------------------------
(***************************************************************************)
(* The readers/writer lock of emu/port/lock.c: two QLocks, x and k, and a  *)
(* count of readers under the spin lock l.  Writers keep x and k; a reader *)
(* passes through x, and the first reader in takes k with canqlock, whose  *)
(* result it does not look at, for the last reader out to release.         *)
(*                                                                         *)
(* The QLocks have the behaviour KProc establishes: first come first       *)
(* served, handed over by qunlock.  The spin lock k.use is modelled        *)
(* because canqlock gives up when it finds it taken.  Names KProc has too  *)
(* begin with RW here: one module proves theorems about both.              *)
(***************************************************************************)
EXTENDS Processes, Integers, Sequences, FiniteSets

ASSUME RWlockAssumption == IsFiniteSet(Procs)

VARIABLES at,        \* at[p]: what Proc p is doing
          xlocked,   \* x.locked
          xq,        \* the Procs queued in x
          klocked,   \* k.locked
          kq,        \* the Procs queued in k
          kuse,      \* the Proc that has the spin lock k.use
          l,         \* the Proc that has the spin lock l
          readers

rwVars == <<at, xlocked, xq, klocked, kq, kuse, l, readers>>

RWLabels == {"idle",
             "rwaitx", "rx", "rl", "rdone", "reading", "runlock", "rlast", "rlastk",
             "wwaitx", "wx", "wkuse", "wwaitk", "writing", "wunk", "wunx"}

RWInit == /\ at = [p \in Procs |-> "idle"]
          /\ xlocked = FALSE /\ xq = << >>
          /\ klocked = FALSE /\ kq = << >> /\ kuse = None
          /\ l = None
          /\ readers = 0

RWGoto(p, from, to) == /\ at[p] = from
                       /\ at' = [at EXCEPT ![p] = to]

-----------------------------------------------------------------------------
(* The QLock x.                                                            *)

\* Mutant of qlockX: last come, first served.
qlockXLifo(p, waiting, got) ==
    /\ IF xlocked
       THEN /\ xq' = <<p>> \o xq
            /\ RWGoto(p, "idle", waiting)
            /\ UNCHANGED xlocked
       ELSE /\ xlocked' = TRUE
            /\ RWGoto(p, "idle", got)
            /\ UNCHANGED xq
    /\ UNCHANGED <<klocked, kq, kuse, l, readers>>

\* qlock(&l->x): go on to got, or queue as waiting.
qlockX(p, waiting, got) ==
    /\ IF xlocked
       THEN /\ xq' = Append(xq, p)
            /\ RWGoto(p, "idle", waiting)
            /\ UNCHANGED xlocked
       ELSE /\ xlocked' = TRUE
            /\ RWGoto(p, "idle", got)
            /\ UNCHANGED xq
    /\ UNCHANGED <<klocked, kq, kuse, l, readers>>

\* qunlock(&l->x) by p, which goes on to next: the Proc at the head of the
\* queue, if there is one, now has x.
qunlockX(p, from, next) ==
    /\ at[p] = from
    /\ \/ /\ xq # << >>
          /\ xq' = Tail(xq)
          /\ at' = [at EXCEPT ![p] = next,
                              ![Head(xq)] = IF @ = "rwaitx" THEN "rx" ELSE "wx"]
          /\ UNCHANGED xlocked
       \/ /\ xq = << >>
          /\ xlocked' = FALSE
          /\ at' = [at EXCEPT ![p] = next]
          /\ UNCHANGED xq
    /\ UNCHANGED <<klocked, kq, kuse, l, readers>>

(* The QLock k.                                                            *)

\* qunlock(&l->k) by p, which has k.use: hand k to the queued writer, or free it.
qunlockK(p, from, next) ==
    /\ at[p] = from
    /\ \/ /\ kq # << >>
          /\ kq' = Tail(kq)
          /\ at' = [at EXCEPT ![p] = next, ![Head(kq)] = "writing"]
          /\ UNCHANGED klocked
       \/ /\ kq = << >>
          /\ klocked' = FALSE
          /\ at' = [at EXCEPT ![p] = next]
          /\ UNCHANGED kq
    /\ kuse' = None

-----------------------------------------------------------------------------
(* Readers.                                                                *)

rlock(p) == qlockX(p, "rwaitx", "rx")

\* canqlock(&l->x) succeeded.
canrlock(p) == /\ ~xlocked
               /\ xlocked' = TRUE
               /\ RWGoto(p, "idle", "rx")
               /\ UNCHANGED <<xq, klocked, kq, kuse, l, readers>>

rlockSpin(p) == /\ l = None
                /\ l' = p
                /\ RWGoto(p, "rx", "rl")
                /\ UNCHANGED <<xlocked, xq, klocked, kq, kuse, readers>>

\* Count the reader and try to take k; let l go.
rlockCount(p) == /\ RWGoto(p, "rl", "rdone")
                 /\ readers' = readers + 1
                 /\ klocked' = (klocked \/ kuse = None)
                 /\ l' = None
                 /\ UNCHANGED <<xlocked, xq, kq, kuse>>

rlockReturn(p) == qunlockX(p, "rdone", "reading")

\* runlock: count the reader out.
runlock(p) == /\ l = None
              /\ RWGoto(p, "reading", "runlock")
              /\ l' = p
              /\ readers' = readers - 1
              /\ UNCHANGED <<xlocked, xq, klocked, kq, kuse>>

runlockReturn(p) == /\ readers # 0
                    /\ RWGoto(p, "runlock", "idle")
                    /\ l' = None
                    /\ UNCHANGED <<xlocked, xq, klocked, kq, kuse, readers>>

\* Mutant of runlockLast: a reader opens k whether or not it is the last.
runlockAny(p) == /\ kuse = None
                 /\ kuse' = p
                 /\ RWGoto(p, "runlock", "rlast")
                 /\ UNCHANGED <<xlocked, xq, klocked, kq, l, readers>>

\* The last reader out takes k.use for qunlock(&l->k), holding l.
runlockLast(p) == /\ readers = 0
                  /\ kuse = None
                  /\ kuse' = p
                  /\ RWGoto(p, "runlock", "rlast")
                  /\ UNCHANGED <<xlocked, xq, klocked, kq, l, readers>>

runlockOpen(p) == /\ qunlockK(p, "rlast", "rlastk")
                  /\ UNCHANGED <<xlocked, xq, l, readers>>

runlockEnd(p) == /\ RWGoto(p, "rlastk", "idle")
                 /\ l' = None
                 /\ UNCHANGED <<xlocked, xq, klocked, kq, kuse, readers>>

-----------------------------------------------------------------------------
(* Writers.                                                                *)

wlock(p) == qlockX(p, "wwaitx", "wx")

\* qlock(&l->k): take k.use, then k or a place in its queue.
wlockSpin(p) == /\ kuse = None
                /\ kuse' = p
                /\ RWGoto(p, "wx", "wkuse")
                /\ UNCHANGED <<xlocked, xq, klocked, kq, l, readers>>

wlockK(p) == /\ IF klocked
                THEN /\ kq' = Append(kq, p)
                     /\ RWGoto(p, "wkuse", "wwaitk")
                     /\ UNCHANGED klocked
                ELSE /\ klocked' = TRUE
                     /\ RWGoto(p, "wkuse", "writing")
                     /\ UNCHANGED kq
             /\ kuse' = None
             /\ UNCHANGED <<xlocked, xq, l, readers>>

wunlock(p) == /\ kuse = None
              /\ kuse' = p
              /\ RWGoto(p, "writing", "wunk")
              /\ UNCHANGED <<xlocked, xq, klocked, kq, l, readers>>

wunlockK(p) == /\ qunlockK(p, "wunk", "wunx")
               /\ UNCHANGED <<xlocked, xq, l, readers>>

wunlockX(p) == qunlockX(p, "wunx", "idle")

-----------------------------------------------------------------------------
RWBegin(p) == rlock(p) \/ canrlock(p) \/ wlock(p)

RWProgress(p) == \/ rlockSpin(p) \/ rlockCount(p) \/ rlockReturn(p)
                 \/ runlock(p) \/ runlockReturn(p)
                 \/ runlockLast(p) \/ runlockOpen(p) \/ runlockEnd(p)
                 \/ wlockSpin(p) \/ wlockK(p)
                 \/ wunlock(p) \/ wunlockK(p) \/ wunlockX(p)

RWNext == \E p \in Procs : RWBegin(p) \/ RWProgress(p)

RWSpec == RWInit /\ [][RWNext]_rwVars

\* Every Proc is a host thread that keeps running and lets go in the end of
\* the locks it has.  The spin locks get no strong fairness.
RWFairSpec == RWSpec /\ \A p \in Procs : WF_rwVars(RWProgress(p))

-----------------------------------------------------------------------------
RWTypeOK == /\ at \in [Procs -> RWLabels]
            /\ xlocked \in BOOLEAN /\ xq \in Seq(Procs)
            /\ klocked \in BOOLEAN /\ kq \in Seq(Procs)
            /\ kuse \in Procs \cup {None}
            /\ l \in Procs \cup {None}
            /\ readers \in Int

Reading(p) == at[p] \in {"rdone", "reading"}
Writing(p) == at[p] \in {"writing", "wunk"}

\* A writer has the lock to itself.  Nothing in rlock waits for a writer
\* once it is past x: that canqlock has taken k rests on who holds x then.
WriterAlone == \A w, p \in Procs : Writing(w) /\ p # w => ~Reading(p) /\ ~Writing(p)

\* While there are readers k is locked: the first one's canqlock, whose result
\* nobody looks at, never fails, not even on a busy spin lock.
ReadersCloseK == readers > 0 => klocked

\* A writer that has asked for the lock gets it, however many readers come:
\* the first come first served queue of x holds back the later ones.
WriterServed == \A p \in Procs : at[p] = "wwaitx" ~> at[p] = "writing"

\* A reader queued behind writers gets in.
ReaderServed == \A p \in Procs : at[p] = "rwaitx" ~> at[p] = "reading"

\* Neither readers nor writers starve, whatever the others do: wlock and rlock
\* return.
Served == WriterServed /\ ReaderServed
=============================================================================
