----------------------------- MODULE MCDisSched -----------------------------
(* DisSched for TLC: two Progs, so that both can be out in system calls, a  *)
(* Client that competes with them for the VM, and one Interp more than the  *)
(* bound InterpBound states.                                                *)
EXTENDS DisSched, TLC

CONSTANTS i1, i2, i3, i4, c1, c2, q1, q2

MCInterps == {i1, i2, i3, i4}
MCInterps2 == {i1, i2}
MCClients == {c1}
MCClients2 == {c1, c2}
MCProgs == {q1, q2}
Symmetry == Permutations(MCInterps) \cup Permutations(MCProgs)

\* For liveness, without symmetry: q1 does all a Prog can, and is not made anew;
\* q2 competes with it for the VM, running and blocking, but makes no system call
\* and is not killed, so that two Interps are as many as there can be.
Competes == /\ state'[q2] \in {"ready", "blocked"} /\ kill' \subseteq {q1}
            /\ state[q1] = "dead" => state'[q1] = "dead"

LiveInit == /\ pc = [p \in Procs |-> IF p = i1 THEN "loop" ELSE IF p \in Clients THEN "out" ELSE "none"]
            /\ runq = <<q1, q2>>
            /\ state = [q \in Progs |-> "ready"]
            /\ sem = [p \in Procs |-> 0] /\ idle = FALSE /\ creating = FALSE
            /\ vmq = << >> /\ idlevmq = << >> /\ irend = None /\ kill = {}
            /\ iprog = [i \in Interps |-> None] /\ r = iprog
            /\ cycles = [i \in Interps |-> 0]
            /\ doing = [p \in Procs |-> None]

LiveSpec == /\ LiveInit
            /\ [][Next /\ Competes]_vars
            /\ Fairness
=============================================================================
