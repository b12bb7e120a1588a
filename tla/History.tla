-------------------------------- MODULE History --------------------------------
(***************************************************************************)
(* What undo promises, for acme's File to keep: a line of documents before *)
(* the present one and a line after it.  A command may change the document *)
(* several times over; undo takes all of it back at once, redo does it     *)
(* again, and each restores the document, text and name, exactly.          *)
(*                                                                         *)
(* One thing is not what a user expects, and is stated here as it is: a    *)
(* command that was ready to change the document and did not forgets what  *)
(* could be redone, and the undo that follows it undoes nothing but that.  *)
(***************************************************************************)
EXTENDS Sequences, SequencesExt

VARIABLES doc,      \* the document
          past,     \* what undo goes back to, the most recent last
          future,   \* what redo goes on to, the next one first
          busy,     \* a command is being carried out that can change the document
          blank     \* the latest such command has not changed it

vars == <<doc, past, future, busy, blank>>

Init == /\ past = << >> /\ future = << >>
        /\ busy = FALSE /\ blank = FALSE

Command == /\ busy' = TRUE /\ blank' = TRUE
           /\ future' = << >>
           /\ UNCHANGED <<doc, past>>

Change == /\ busy
          /\ past' = IF blank THEN Append(past, doc) ELSE past
          /\ blank' = FALSE
          /\ UNCHANGED <<future, busy>>

Rename == /\ past' = Append(past, doc)
          /\ future' = << >>
          /\ busy' = FALSE /\ blank' = FALSE

Undo == /\ busy' = FALSE /\ blank' = FALSE
        /\ IF blank \/ past = << >> THEN UNCHANGED <<doc, past, future>>
           ELSE /\ doc' = Last(past)
                /\ past' = Front(past)
                /\ future' = <<doc>> \o future

Redo == /\ busy' = FALSE
        /\ IF future = << >> THEN UNCHANGED <<doc, past, future, blank>>
           ELSE /\ doc' = Head(future)
                /\ past' = Append(past, doc)
                /\ future' = Tail(future)
                /\ blank' = FALSE

\* The document is replaced by what is read from a file.
Reload == /\ past' = << >> /\ future' = << >>
          /\ busy' = FALSE /\ blank' = FALSE

\* Whatever else happens ends the command.
Rest == busy' = FALSE /\ UNCHANGED <<doc, past, future, blank>>

Next == Command \/ Change \/ Rename \/ Undo \/ Redo \/ Reload \/ Rest

Spec == Init /\ [][Next]_vars
=============================================================================
