------------------------------ MODULE MCDisChan ------------------------------
(* DisChanPromise for TLC.                                                  *)
EXTENDS DisChanPromise, TLC

CONSTANTS p1, p2, p3, c1, c2, v1, v2

MCProgs == {p1, p2, p3}
MCChans == {c1, c2}
MCKprocs == {p3}
MCVals == {v1, v2}
MCCap == (c1 :> 0) @@ (c2 :> 1)
MCAlts == {<< <<"recv", c1>>, <<"recv", c2>> >>,
           << <<"send", c1>>, <<"recv", c2>> >>,
           << <<"send", c1>>, <<"recv", c1>> >>}
Symmetry == Permutations({p1, p2}) \cup Permutations(MCVals)

\* To keep the instance small, a Prog that has communicated goes on, an exception
\* is raised and a new Prog made before anything else happens: these steps
\* change only what is the Prog's own.
Eager == LET own == {p \in Progs : \/ state[p] = "ready" /\ (kill[p] # "nil" \/ op[p] # << >>)
                                   \/ state[p] = "dead"}
         IN excepting = None /\ own # {} =>
               \E p \in own : Proceed(p) \/ Raise(p) \/ newprog(p)

MCSpec == OrderInit /\ [][OrderNext /\ Eager]_<<vars, order>>
=============================================================================
