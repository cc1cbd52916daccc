------------------------------ MODULE MCDevLoad ------------------------------
EXTENDS DevLoad, TLC

CONSTANTS d1, d2, m1, m2

MCDevices == {d1, d2}
MCMedia == {m1, m2}

Symmetry == Permutations(MCDevices) \cup Permutations(MCMedia)
=============================================================================
