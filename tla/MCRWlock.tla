------------------------------ MODULE MCRWlock ------------------------------
(* RWlock for TLC: four Procs give two readers inside, a writer that waits  *)
(* for them at k and a fourth Proc, reader or writer, queued behind it at x. *)
EXTENDS RWlock

CONSTANTS p1, p2, p3, p4

MCProcs == {p1, p2, p3, p4}
=============================================================================
