-------------------------------- MODULE Queues --------------------------------
(* Taking elements off a queue.  SelectSeq does it as well, but its test is an *)
(* operator, of which tlapm knows nothing: here what goes is a set.            *)
EXTENDS Naturals, Sequences

\* The queue s without the elements of D, the others in the order they were in.
Without(s, D) ==
    LET keep[n \in 0 .. Len(s)] ==
            IF n = 0 THEN << >>
            ELSE IF s[n] \in D THEN keep[n - 1] ELSE Append(keep[n - 1], s[n])
    IN keep[Len(s)]
===============================================================================
