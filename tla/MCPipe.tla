------------------------------- MODULE MCPipe -------------------------------
(* Pipe for TLC: two readers and two writers, a high-water mark of two full  *)
(* blocks, writes of one block and of two, reads that leave part of a block. *)
EXTENDS Pipe, TLC

CONSTANTS r1, r2, w1, w2

MCReaders == {r1, r2}
MCWriters == {w1, w2}
MCReads == {1, 2}
MCWrites == {1, 3}
MCMaxRef == (0 :> 1) @@ (1 :> 2)
=============================================================================
