------------------------------ MODULE MCAcmeFile ------------------------------
(* AcmeFile for TLC, in two slices.  In one the text outgrows its block of   *)
(* two runes, is edited, undone and read again from its file; in the other   *)
(* it fits in one block, and is also written to files, renamed and typed.    *)
(* Three commands with their undoing, two once runes are typed or a name is  *)
(* astray.                                                                   *)
EXTENDS AcmeFile

Long == <<"b", "c", "d">>
MCStrings == {<<"a">>, Long}

MCInit == /\ Init /\ name = "A"
          /\ saved["B"] \in {None, shown} \ {Long}

MCNext == /\ Next
          /\ IF saved["A"] = Long
             THEN count' <= 2 /\ UNCHANGED <<name, known, putseq, saved, astray, warned, cache>>
             ELSE /\ Len(shown') + Len(cache') <= Maxblock
                  /\ (astray' # {} \/ cache' # << >>) => count' <= 2

MCSpec == MCInit /\ [][MCNext]_vars
=============================================================================
