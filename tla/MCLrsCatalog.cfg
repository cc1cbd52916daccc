CONSTANTS
    p1 = p1  p2 = p2  p3 = p3  m1 = m1  m2 = m2
    NoOwner = NoOwner
    Procs <- MCProcs
    Media <- MCMedia
    Capacity = 3
    Sizes = {1, 2}
    MaxIntents = 2

SPECIFICATION LcSpec
CHECK_DEADLOCK FALSE
SYMMETRY Symmetry
INVARIANT LcTypeOK
INVARIANT StatsMirrored
