------------------------------- MODULE MCDevmnt -------------------------------
EXTENDS Devmnt, FiniteSetsExt

CONSTANTS p1, p2

MCProcs == {p1, p2}
MCHdrs == 1 .. 4

\* As alloctag does, the lowest free tag is taken: it is the free one that was
\* used most, and the headers are alike otherwise.
LowestTag == \A p \in Procs :
    Len(chain'[p]) > Len(chain[p]) => Head(chain'[p]) = Min(Free)
=============================================================================
