------------------------------ MODULE MCConfig ------------------------------
EXTENDS Config, TLC

CONSTANTS t1, t2

MCThreads == {t1, t2}
\* "7", "-16" (INT_MIN of a 5-bit int), "16" (past INT_MAX) and "x":
\* values each level may hold
MCVals == {<<"7">>, <<"-", "1", "6">>, <<"1", "6">>, <<"x">>}

Symmetry == Permutations(MCThreads)
=============================================================================
