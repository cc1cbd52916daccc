CONSTANTS
    t1 = t1  t2 = t2
    Threads <- MCThreads
    Vals <- MCVals
    IntBits = 5

SPECIFICATION Spec
SYMMETRY Symmetry
INVARIANT CfgTypeOK
