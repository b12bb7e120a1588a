------------------------------- MODULE AcmeFile -------------------------------
(***************************************************************************)
(* A file in acme (file.b), the window that shows it (wind.b, text.b) and  *)
(* the commands on it (exec.b): edits, Undo, Redo, renaming, Put and Get.  *)
(*                                                                         *)
(* Every edit of the Buffer adds to f.delta what would take it back, with  *)
(* the modify bit as it was and the number of the command it is part of.   *)
(* Undo carries out what has the latest number, from the end, writing the  *)
(* inverses on f.epsilon, and Redo does the same the other way.  The two   *)
(* logs are Buffers as well, of which only the ends are touched; here they *)
(* are sequences of entries.                                               *)
(*                                                                         *)
(* Acme's threads take the row's lock or the window's for a command, so a  *)
(* command is a sequence of steps that only its own edits come between:    *)
(* Execute (or a key that is typed), then its edits.  Runes that are typed *)
(* are shown, and kept in the Text's cache; what next wants the text, a    *)
(* click of the mouse or a key that is a command, commits them to the File *)
(* first.                                                                  *)
(***************************************************************************)
EXTENDS AcmeBuffer

CONSTANTS Names,        \* file names
          Strings,      \* what is inserted
          MaxText,      \* bounds the length of the text
          MaxLog,       \* bounds how many edits can be undone and redone
          MaxSeq,       \* bounds how many commands there are
          None

VARIABLES buf,          \* f.buf and the disk
          name,         \* f.name
          seq,          \* f.seq
          mod,          \* f.mod
          delta,        \* f.delta
          epsilon,      \* f.epsilon
          known,        \* the file f.dev, f.qidpath and f.mtime are those of
          shown,        \* what the frame shows, but for the runes in cache
          cq0,          \* where they go; 0 when there are none
          cache,        \* the runes typed and not yet in the File: t.cache
          dirty,        \* w.dirty
          putseq,       \* w.putseq
          count,        \* dat->seq
          busy,         \* a command that has marked the file is editing it
          warned,       \* clean has warned of the unsaved changes
          saved,        \* the files' contents
          astray        \* the names whose files the window may not show
                        \* though it is not dirty, the user having been told

file == <<buf, name, seq, mod, delta, epsilon, known>>
logs == <<delta, epsilon>>
window == <<shown, dirty, putseq>>
typing == <<cq0, cache>>
disk == <<saved, astray>>
vars == <<file, window, typing, count, busy, warned, disk>>

\* A window on a file that has just been read (a File's seq is 0 for it).
Init == \E f \in [Names -> {None} \cup Strings] :
    /\ saved = f
    /\ name \in {n \in Names : f[n] # None}
    /\ known = name
    /\ shown = f[name]
    /\ buf = insert(newbuffer, 0, f[name])
    /\ seq = 0 /\ putseq = 0 /\ count = 0
    /\ mod = FALSE /\ dirty = FALSE
    /\ delta = << >> /\ epsilon = << >>
    /\ cq0 = 0 /\ cache = << >>
    /\ busy = FALSE /\ warned = FALSE /\ astray = {}

-----------------------------------------------------------------------------
(* Entries of the logs.  F is a file in the midst of a command: its buf,   *)
(* shown, name, seq and mod, and the log that is written.                  *)

Entry(F, typex, p0, n, data) ==
    [typex |-> typex, mod |-> F.mod, seq |-> F.seq, p0 |-> p0, n |-> n, data |-> data]

uninsert(F, p0, ns) ==
    [F EXCEPT !.log = Append(@, Entry(F, "Delete", p0, ns, << >>))]

undeleted(F, p0, got) ==
    [F EXCEPT !.buf = got[1],
              !.log = Append(@, Entry(F, "Insert", p0, Len(got[2]), got[2]))]

undelete(F, p0, p1) == undeleted(F, p0, read(F.buf, p0, p1))

unsetname(F) == [F EXCEPT !.log = Append(@, Entry(F, "Filename", 0, 0, F.name))]

Now == [buf |-> buf, shown |-> shown, name |-> name, seq |-> seq, mod |-> mod, log |-> delta]

\* File.insert and File.delete, and Text's that call them and bring the frame up
\* to date.
fileinsert(F, p0, s) ==
    LET G == IF F.seq > 0 THEN uninsert(F, p0, Len(s)) ELSE F
    IN [G EXCEPT !.mod = TRUE, !.buf = insert(@, p0, s), !.shown = Splice(@, p0, p0, s)]

filedelete(F, p0, p1) ==
    LET G == IF F.seq > 0 THEN undelete(F, p0, p1) ELSE F
    IN [G EXCEPT !.mod = TRUE, !.buf = delete(@, p0, p1), !.shown = Splice(@, p0, p1, << >>)]

Becomes(F) == /\ buf' = F.buf /\ shown' = F.shown /\ name' = F.name
              /\ seq' = F.seq /\ mod' = F.mod

\* What File.undo does with an entry.
apply(F, u) ==
    LET G == [F EXCEPT !.seq = u.seq]
    IN CASE u.typex = "Delete" ->
              [undelete(G, u.p0, u.p0 + u.n)
                  EXCEPT !.mod = u.mod, !.buf = delete(@, u.p0, u.p0 + u.n),
                         !.shown = Splice(@, u.p0, u.p0 + u.n, << >>)]
         [] u.typex = "Insert" ->
              [uninsert(G, u.p0, u.n)
                  EXCEPT !.mod = u.mod, !.buf = insert(@, u.p0, u.data),
                         !.shown = Splice(@, u.p0, u.p0, u.data)]
         [] u.typex = "Filename" ->
              [unsetname(G) EXCEPT !.mod = u.mod, !.name = u.data]

-----------------------------------------------------------------------------
(* Commands that edit.                                                     *)

\* execute, and each key that is typed: seq++ and File.mark.
Execute == /\ count < MaxSeq
           /\ count' = count + 1
           /\ seq' = count + 1
           /\ epsilon' = << >>
           /\ busy' = TRUE
           /\ UNCHANGED <<buf, name, mod, delta, known, window, typing, warned, disk>>

Edited(F) == /\ Becomes(F)
             /\ delta' = F.log
             /\ dirty' = TRUE
             /\ UNCHANGED <<epsilon, known, putseq, count, busy, warned, disk>>

Insert(q0, s) == /\ busy /\ Len(delta) < MaxLog /\ Len(shown) + Len(s) <= MaxText
                 /\ cache = << >>
                 /\ q0 <= buf.nc
                 /\ Edited(fileinsert(Now, q0, s))
                 /\ UNCHANGED typing

Delete(q0, q1) == /\ busy /\ Len(delta) < MaxLog
                  /\ cache = << >>
                  /\ q0 < q1 /\ q1 <= buf.nc
                  /\ Edited(filedelete(Now, q0, q1))
                  /\ UNCHANGED typing

\* Text.typex: the key, or a newline with its indentation, goes to the cache; the
\* next at the end of what is there.
typex(q0, s) == /\ busy /\ Len(delta) < MaxLog
                /\ Len(shown) + Len(cache \o s) <= MaxText
                /\ \/ cache = << >> /\ q0 <= buf.nc /\ cq0' = q0
                   \/ cache # << >> /\ q0 = cq0 + Len(cache) /\ cq0' = cq0
                /\ cache' = cache \o s
                /\ UNCHANGED <<file, window, count, busy, warned, disk>>

\* Erasing takes runes off the cache first; the rest is a Delete.
erase(n) == /\ busy
            /\ n <= Len(cache)
            /\ cache' = SubSeq(cache, 1, Len(cache) - n)
            /\ cq0' = IF n = Len(cache) THEN 0 ELSE cq0
            /\ UNCHANGED <<file, window, count, busy, warned, disk>>

\* Text.commit.
Textcommit == /\ busy /\ cache # << >>
              /\ Edited(fileinsert(Now, cq0, cache))
              /\ cq0' = 0 /\ cache' = << >>

\* Window.commit: the name in the tag has been changed.
commit(n) == /\ count < MaxSeq /\ Len(delta) < MaxLog
             /\ n # name /\ cache = << >>
             /\ count' = count + 1
             /\ LET F == unsetname([Now EXCEPT !.seq = count + 1, !.mod = TRUE])
                IN Becomes([F EXCEPT !.name = n]) /\ delta' = F.log
             /\ epsilon' = << >>
             /\ dirty' = TRUE
             /\ busy' = FALSE
             /\ UNCHANGED <<known, putseq, typing, warned, disk>>

\* Something reads a rune of the text, and the cache moves.
readc(q0) == /\ q0 < buf.nc
             /\ buf' = read(buf, q0, q0 + 1)[1]
             /\ UNCHANGED <<name, seq, mod, logs, known, window, typing, count, busy, warned, disk>>

-----------------------------------------------------------------------------
(* Undo and Redo.                                                          *)

\* How many entries of a log stay: those up to the last of the ones in stops.
Kept(stops) == Max({0} \cup stops)

\* Carry out and take back the entries of a log after the first n, the last first.
Reversed(F, from, n) ==
    LET done[i \in n .. Len(from)] ==
            IF i = Len(from) THEN F ELSE apply(done[i + 1], from[i + 1])
    IN done[n]

\* Mutant of undoneSeq: the number is that of the command which has been undone.
undoneSeqKeeps(n) == IF n = 0 THEN seq ELSE delta[n].seq

\* f.seq when undo has left n entries.
undoneSeq(n) == IF n = 0 THEN 0 ELSE delta[n].seq

\* Window.undo, after File.undo.
Undone == /\ cache = << >>
          /\ dirty' = (seq' # putseq)
          /\ busy' = FALSE /\ warned' = FALSE
          /\ UNCHANGED <<known, putseq, typing, count, disk>>

Undo == LET n == Kept({i \in 1 .. Len(delta) : delta[i].seq < seq})
            F == Reversed([Now EXCEPT !.log = epsilon], delta, n)
        IN /\ Becomes([F EXCEPT !.seq = undoneSeq(n)])
           /\ delta' = SubSeq(delta, 1, n)
           /\ epsilon' = F.log
           /\ Undone

\* Mutant of redoStops: everything is redone.
redoStopsNot(u) == FALSE

\* Redo stops at an entry of a later command than the first it redoes.
redoStops(u) == u.seq > Last(epsilon).seq

Redo == LET n == Kept({i \in 1 .. Len(epsilon) : redoStops(epsilon[i])})
            F == Reversed(Now, epsilon, n)
        IN /\ Becomes(F)
           /\ delta' = F.log
           /\ epsilon' = SubSeq(epsilon, 1, n)
           /\ Undone

-----------------------------------------------------------------------------
(* Put and Get.                                                            *)

\* putfile of the whole text, to the file of the window's name.  A file that is
\* not the one known is left alone, once: its stat is remembered.
Writable == cache = << >> /\ (saved[name] # None => known = name)

putRefused == /\ cache = << >> /\ ~Writable
              /\ known' = name
              /\ busy' = FALSE
              /\ UNCHANGED <<buf, name, seq, mod, logs, window, typing, count, warned, disk>>

putWrites == /\ Writable
             /\ LET got == read(buf, 0, buf.nc)
                IN buf' = got[1] /\ saved' = [saved EXCEPT ![name] = got[2]]
             /\ known' = name
             /\ mod' = FALSE /\ dirty' = FALSE /\ putseq' = seq
             /\ busy' = FALSE /\ warned' = FALSE /\ astray' = {}
             /\ UNCHANGED <<name, seq, logs, shown, typing, count>>

\* The time of a file has changed, or has not within the second.
Touched(n) == known' \in IF known = n THEN {known, None} ELSE {known}

\* A write fails when create has truncated the file.
putFails == /\ Writable
            /\ saved' = [saved EXCEPT ![name] = << >>]
            /\ Touched(name)
            /\ astray' = astray \cup {name}
            /\ busy' = FALSE
            /\ UNCHANGED <<buf, name, seq, mod, logs, window, typing, count, warned>>

\* Put with an argument writes another file, or fails to, and nothing tells the
\* window, which may come back to that name by Undo.
putOther(n) == /\ cache = << >> /\ n # name
               /\ LET got == read(buf, 0, buf.nc)
                  IN /\ buf' = got[1]
                     /\ \E text \in {got[2], << >>} : saved' = [saved EXCEPT ![n] = text]
               /\ Touched(n)
               /\ astray' = astray \cup {n}
               /\ busy' = FALSE
               /\ UNCHANGED <<name, seq, mod, logs, window, typing, count, warned>>

\* Window.clean: unsaved changes are warned of, once.
clean == /\ cache = << >> /\ dirty
         /\ dirty' = FALSE /\ warned' = TRUE /\ busy' = FALSE
         /\ UNCHANGED <<file, shown, putseq, typing, count, disk>>

\* Get: Text.reset, and text is read from a file; the window is marked dirty if
\* that is not its own.
Reload(text, other) == /\ cache = << >> /\ (buf.nc > 0 => ~dirty)
                       /\ buf' = insert(reset(buf), 0, text) /\ shown' = text
                       /\ seq' = 0
                       /\ delta' = << >> /\ epsilon' = << >>
                       /\ mod' = other /\ dirty' = other
                       /\ busy' = FALSE /\ warned' = FALSE
                       /\ UNCHANGED <<name, putseq, typing, count, saved>>

\* What a file holds, and what can be read of it before an error.
Read(n) == IF saved[n] = None THEN << >> ELSE saved[n]
Partly(n) == {SubSeq(Read(n), 1, k) : k \in 0 .. Len(Read(n))}

Get == /\ Reload(Read(name), FALSE)
       /\ known' = IF saved[name] = None THEN known ELSE name
       /\ astray' = {}

\* The file cannot be opened, or not read to its end; all the same Get marks the
\* window as clean.
getFails == /\ saved[name] # None
            /\ \/ Reload(<< >>, FALSE) /\ known' = known
               \/ (\E text \in Partly(name) : Reload(text, FALSE)) /\ known' = name
            /\ astray' = astray \cup {name}

\* Get with an argument: another file is shown, or what there is of it, and the
\* file known is still the window's own.  With f.seq and w.putseq both 0 an Undo
\* of nothing then marks the window as clean.
getOther(n) == /\ n # name
               /\ \E text \in Partly(n) : Reload(text, TRUE)
               /\ known' = known
               /\ astray' = astray \cup {name}

-----------------------------------------------------------------------------
Next == \/ Execute
        \/ \E q0 \in 0 .. MaxText : \/ \E s \in Strings : Insert(q0, s)
                                    \/ \E s \in Strings : typex(q0, s)
                                    \/ \E q1 \in 0 .. MaxText : Delete(q0, q1)
                                    \/ readc(q0)
        \/ \E n \in 1 .. MaxText : erase(n)
        \/ Textcommit
        \/ \E n \in Names : commit(n) \/ putOther(n) \/ getOther(n)
        \/ Undo \/ Redo
        \/ putRefused \/ putWrites \/ putFails \/ clean \/ Get \/ getFails

Spec == Init /\ [][Next]_vars

-----------------------------------------------------------------------------
Runes == UNION {ToSet(s) : s \in Strings}

\* None is no text: it says that there is no file.
ASSUME FileAssumption == /\ MaxText \in Nat /\ MaxLog \in Nat /\ MaxSeq \in Nat
                         /\ \A s \in Strings : s \in Seq(Runes) /\ Len(s) <= MaxText
                         /\ None \notin Seq(Runes)

IsEntry(u) == /\ DOMAIN u = {"typex", "mod", "seq", "p0", "n", "data"}
              /\ u.mod \in BOOLEAN /\ u.seq \in 1 .. MaxSeq
              /\ u.p0 \in 0 .. MaxText /\ u.n \in 0 .. MaxText
              /\ CASE u.typex = "Delete" -> u.data = << >>
                   [] u.typex = "Insert" -> u.data \in Seq(Runes) /\ Len(u.data) = u.n
                   [] u.typex = "Filename" -> u.data \in Names

TypeOK == /\ shown \in Seq(Runes)
          /\ name \in Names /\ known \in Names \cup {None}
          /\ seq \in 0 .. MaxSeq /\ putseq \in 0 .. MaxSeq /\ count \in 0 .. MaxSeq
          /\ cq0 \in 0 .. MaxText /\ cache \in Seq(Runes)
          /\ {mod, dirty, busy, warned} \subseteq BOOLEAN /\ astray \subseteq Names
          /\ \A u \in ToSet(delta) \cup ToSet(epsilon) : IsEntry(u)
          /\ \A n \in Names : saved[n] = None \/ saved[n] \in Seq(Runes)

\* The blocks, with the cache over the one it is of, hold what the frame shows.
Held(i) == IF i = buf.cbi THEN buf.c ELSE diskread(buf, buf.bl[i])
Contents == LET upto[i \in 0 .. Len(buf.bl)] == IF i = 0 THEN << >> ELSE upto[i - 1] \o Held(i)
            IN upto[Len(buf.bl)]
ShownIsHeld == TypeOK /\ buf.nc = Len(shown) /\ SubSeq(Contents, 1, buf.nc) = shown

\* Every rune of the temporary file is in exactly one block, in use or free, so
\* that no block is written over another and none is lost.
Used == {<<0, i>> : i \in 1 .. Len(buf.bl)}
Free == UNION {{<<s, k>> : k \in 1 .. Len(buf.free[s])} : s \in 1 .. Maxblock \div Blockincr}
Place(blk) == IF blk[1] = 0 THEN <<buf.bl[blk[2]].addr, Size(buf.bl[blk[2]].n)>>
              ELSE <<buf.free[blk[1]][blk[2]], blk[1] * Blockincr>>
Extent(blk) == Place(blk)[1] + 1 .. Place(blk)[1] + Place(blk)[2]
BlocksApart ==
    /\ UNION {Extent(blk) : blk \in Used \cup Free} = 1 .. buf.addr
    /\ \A blk, other \in Used \cup Free : blk # other => Extent(blk) \cap Extent(other) = {}

\* Window.clean lets a window that is not dirty be closed or read again without a
\* word.  Such a window, with no runes in its cache, shows what is in the file of
\* its name, unless the user has been told of the changes; or has had a Put or a
\* Get of that file fail, has written it from the window under another name, or
\* has read another in its place.
CleanIsSaved == ~dirty /\ cache = << >> /\ ~warned /\ name \notin astray =>
                    shown = IF saved[name] = None THEN << >> ELSE saved[name]

-----------------------------------------------------------------------------
(* The logs hold what History promises.                                    *)

\* The document that an entry leads back to.
Back(u, d) == CASE u.typex = "Delete" -> [d EXCEPT !.text = Splice(@, u.p0, u.p0 + u.n, << >>)]
                [] u.typex = "Insert" -> [d EXCEPT !.text = Splice(@, u.p0, u.p0, u.data)]
                [] u.typex = "Filename" -> [d EXCEPT !.name = u.data]

Document == [text |-> shown, name |-> name]

\* The documents that a log leads back to from the one d, the nearest last: those
\* before the first entry of each command.
Documents(log, d) ==
    LET n == Len(log)
        before[i \in 1 .. n + 1] == IF i = n + 1 THEN d ELSE Back(log[i], before[i + 1])
        upto[i \in 0 .. n] == IF i = 0 THEN << >>
                              ELSE IF i = 1 \/ log[i].seq # log[i - 1].seq
                                   THEN Append(upto[i - 1], before[i])
                                   ELSE upto[i - 1]
    IN upto[n]

Blank == seq # 0 /\ (delta = << >> \/ Last(delta).seq # seq)

Promise == INSTANCE History WITH
    doc <- Document,
    past <- Documents(delta, Document),
    future <- Reverse(Documents(epsilon, Document)),
    blank <- Blank

\* A File with its two logs, flushed or not, is a linear history of documents:
\* an edit appends to it and drops the future, Undo and Redo move along it by
\* whole commands and end at the text and the name of the very document they
\* started from, however many entries of a log one command has made.
KeepsPromise == Promise!Spec
=============================================================================
