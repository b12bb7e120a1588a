------------------------------ MODULE MCKProc ------------------------------
(* KProc for TLC: two Procs, so that there is a sleeper and one that is     *)
(* queued behind it, signals or interrupts; the proofs cover more.          *)
EXTENDS KProc

CONSTANTS p1, p2

MCProcs == {p1, p2}
MCInterps == {TRUE, FALSE}
=============================================================================
