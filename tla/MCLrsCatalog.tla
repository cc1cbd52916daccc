---------------------------- MODULE MCLrsCatalog ----------------------------
EXTENDS LrsCatalog, TLC

CONSTANTS p1, p2, p3, m1, m2

MCProcs == {p1, p2, p3}
MCMedia == {m1, m2}

\* processes and media are interchangeable
Symmetry == Permutations(MCProcs) \cup Permutations(MCMedia)
=============================================================================
