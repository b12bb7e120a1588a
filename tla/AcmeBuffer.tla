------------------------------ MODULE AcmeBuffer ------------------------------
(***************************************************************************)
(* Acme's Buffer (appl/acme/buff.b) and the temporary file behind it       *)
(* (disk.b): a text kept in blocks of at most Maxblock runes, one of which *)
(* is cached and written back when another is needed.  A block is rounded  *)
(* up to a multiple of Blockincr and, when it outgrows that, moves; what   *)
(* it leaves is kept on the free list of its size.                         *)
(*                                                                         *)
(* A Buffer and its disk are one record: nc, cq, cbi, cdirty and bl are    *)
(* the source's (blocks are counted from 1), c is the part of the cache    *)
(* in use (cnc is its length), free, addr and store are the disk's.  Array *)
(* bounds and the source's asserts become domains: leaving them is an      *)
(* error of evaluation, which stops TLC.                                   *)
(***************************************************************************)
EXTENDS Naturals, Sequences, SequencesExt, FiniteSetsExt

CONSTANTS Maxblock, Blockincr

ASSUME BufferAssumption == /\ Maxblock \in Nat \ {0} /\ Blockincr \in Nat \ {0}
                           /\ Maxblock % Blockincr = 0

\* newbuffer, on an empty disk.
newbuffer == [nc |-> 0, cq |-> 0, c |-> << >>, cbi |-> 1, cdirty |-> FALSE, bl |-> << >>,
              free |-> [i \in 0 .. Maxblock \div Blockincr |-> << >>],
              addr |-> 0, store |-> << >>]

SplitAt(s, n) == <<SubSeq(s, 1, n), SubSeq(s, n + 1, Len(s))>>
Splice(s, q0, q1, new) == SubSeq(s, 1, q0) \o new \o SubSeq(s, q1 + 1, Len(s))

-----------------------------------------------------------------------------
(* disk.b                                                                  *)

ntosize(n) == (n + Blockincr - 1) \div Blockincr
Size(n) == ntosize(n) * Blockincr

\* Disk.new: the buffer and the block, in which what n runes need is reserved.
new(b, n) ==
    LET i == ntosize(n)
    IN IF b.free[i] # << >>
       THEN <<[b EXCEPT !.free[i] = Tail(@)], [addr |-> Head(b.free[i]), n |-> n]>>
       ELSE <<[b EXCEPT !.addr = @ + Size(n),
                        !.store = @ \o [x \in 1 .. Size(n) |-> "free"]],
              [addr |-> b.addr, n |-> n]>>

\* Overwrite a part of the file.
Put(store, addr, s) == Splice(store, addr, addr + Len(s), s)

\* Disk.release.  Nobody is to read what is freed, which is cleared to tell.
release(b, blk) ==
    [b EXCEPT !.free[ntosize(blk.n)] = <<blk.addr>> \o @,
              !.store = Put(@, blk.addr, [x \in 1 .. Size(blk.n) |-> "free"])]

\* Block i is s now, at the place that has been found for it.
place(at, i, s) == [at[1] EXCEPT !.bl[i] = [addr |-> at[2].addr, n |-> Len(s)],
                                 !.store = Put(@, at[2].addr, s)]

\* Mutant of write: a block that has shrunk stays where it is, and is filed under
\* its new size when it is freed.
writeShrunk(b, i, s) ==
    LET old == b.bl[i]
    IN place(IF Size(Len(s)) <= Size(old.n) THEN <<b, old>>
             ELSE new(release(b, old), Len(s)), i, s)

\* Disk.write of block i, which moves if its size changes.
write(b, i, s) ==
    LET old == b.bl[i]
    IN place(IF Size(Len(s)) = Size(old.n) THEN <<b, old>>
             ELSE new(release(b, old), Len(s)), i, s)

\* Disk.read.
diskread(b, blk) == SubSeq(b.store, blk.addr + 1, blk.addr + blk.n)

-----------------------------------------------------------------------------
(* buff.b                                                                  *)

addblock(b, i, n) == LET at == new(b, n)
                     IN [at[1] EXCEPT !.bl = InsertAt(@, i, at[2])]

delblock(b, i) == [release(b, b.bl[i]) EXCEPT !.bl = RemoveAt(@, i)]

\* Mutant of flush: a block that has become empty is left as it was.
flushEmpty(b) == IF b.cdirty /\ b.c # << >>
                 THEN [write(b, b.cbi, b.c) EXCEPT !.cdirty = FALSE]
                 ELSE [b EXCEPT !.cdirty = FALSE]

\* Buffer.flush: the cached block is written, or is no more if it is empty.
flush(b) == IF b.c = << >> THEN [delblock(b, b.cbi) EXCEPT !.cdirty = FALSE]
            ELSE IF b.cdirty THEN [write(b, b.cbi, b.c) EXCEPT !.cdirty = FALSE]
            ELSE b

Cached(b, q0) == \/ b.cq <= q0 /\ q0 < b.cq + Len(b.c)
                 \/ q0 = b.nc /\ q0 = b.cq + Len(b.c) /\ Len(b.c) < Maxblock

\* Read the block that holds q0, searching from the start or, if q0 is further on,
\* from where the cache was.
seek(f, q0) ==
    LET back == q0 < f.cq
        first == IF back THEN 1 ELSE f.cbi
        at[j \in first .. Len(f.bl)] ==
            IF j = first THEN IF back THEN 0 ELSE f.cq ELSE at[j - 1] + f.bl[j - 1].n
        past(j) == at[j] + f.bl[j].n <= q0 /\ at[j] + f.bl[j].n < f.nc
        i == Min({j \in first .. Len(f.bl) : ~past(j)})
    IN [f EXCEPT !.cbi = i, !.cq = at[i], !.c = diskread(f, f.bl[i])]

\* Move the cache to where q0 is.
setcache(b, q0) == IF b.nc = 0 \/ Cached(b, q0) THEN b ELSE seek(flush(b), q0)

\* One turn of Buffer.insert's loop: all of s fits in the block; or q0 is at an
\* end of the block, and s begins a new one; or what follows q0 is cut off into a
\* block of its own, and s is put in its place.
insertSome(b, q0, s) ==
    LET off == q0 - b.cq
        fits == Len(b.c) + Len(s) <= Maxblock
        edge == off \in {0, Len(b.c)}
        k == IF fits THEN Len(s) ELSE Min({Len(s), IF edge THEN Maxblock ELSE Maxblock - off})
        some == SubSeq(s, 1, k)
        flushed == IF b.cdirty THEN flush(b) ELSE b
        i == IF flushed.bl = << >> THEN 1 ELSE IF off > 0 THEN b.cbi + 1 ELSE b.cbi
        cut == SplitAt(b.c, off)
        next == IF fits
                THEN [IF b.bl = << >> THEN [addblock(b, 1, k) EXCEPT !.cbi = 1] ELSE b
                         EXCEPT !.c = Splice(b.c, off, off, some)]
                ELSE IF edge
                THEN [addblock(flushed, i, k) EXCEPT !.c = some, !.cq = q0, !.cbi = i]
                ELSE [write(addblock(b, b.cbi + 1, Len(cut[2])), b.cbi + 1, cut[2])
                         EXCEPT !.c = cut[1] \o some]
    IN <<[next EXCEPT !.nc = @ + k, !.cdirty = TRUE], k>>

\* One turn of Buffer.delete's loop: what there is in the block.
deleteSome(b, q0, q1) ==
    LET off == q0 - b.cq
        n == Min({Len(b.c) - off, q1 - q0})
    IN <<[b EXCEPT !.c = Splice(@, off, off + n, << >>), !.cdirty = TRUE, !.nc = @ - n], n>>

\* One turn of Buffer.read's.
readSome(b, q0, q1) ==
    LET off == q0 - b.cq
    IN SubSeq(b.c, off + 1, off + Min({Len(b.c) - off, q1 - q0}))

\* The turns of the loops, with the cache moved to where they are: w is the Buffer
\* and how many runes have been inserted, or deleted, or what has been read.
insertTurn(w, q0, s) ==
    LET q == q0 + w[2]
        some == insertSome(setcache(w[1], q), q, SubSeq(s, w[2] + 1, Len(s)))
    IN IF w[2] = Len(s) THEN w ELSE <<some[1], w[2] + some[2]>>

deleteTurn(w, q0, q1) ==
    LET some == deleteSome(setcache(w[1], q0), q0, q1 - w[2])
    IN IF w[2] = q1 - q0 THEN w ELSE <<some[1], w[2] + some[2]>>

readTurn(w, q0, q1) ==
    LET q == q0 + Len(w[2])
        b == setcache(w[1], q)
    IN IF q = q1 THEN w ELSE <<b, w[2] \o readSome(b, q, q1)>>

\* The loops.  A turn gets on by a rune at least, so that there are no more turns
\* than runes.
insert(b, q0, s) ==
    LET turn[k \in 0 .. Len(s)] == IF k = 0 THEN <<b, 0>> ELSE insertTurn(turn[k - 1], q0, s)
    IN turn[Len(s)][1]

delete(b, q0, q1) ==
    LET turn[k \in 0 .. q1 - q0] == IF k = 0 THEN <<b, 0>> ELSE deleteTurn(turn[k - 1], q0, q1)
    IN turn[q1 - q0][1]

\* Buffer.read: the buffer, whose cache has moved, and what it has read.
read(b, q0, q1) ==
    LET turn[k \in 0 .. q1 - q0] == IF k = 0 THEN <<b, << >>>> ELSE readTurn(turn[k - 1], q0, q1)
    IN turn[q1 - q0]

\* Buffer.reset, whose loop leaves the last block where it is.
reset(b) ==
    LET empty == [b EXCEPT !.nc = 0, !.c = << >>, !.cq = 0, !.cdirty = FALSE, !.cbi = 1]
        left[i \in 1 .. Len(b.bl)] ==
            IF i = Len(b.bl) THEN empty ELSE delblock(left[i + 1], i)
    IN IF b.bl = << >> THEN empty ELSE left[1]
=============================================================================
