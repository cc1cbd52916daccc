CONSTANTS
    t1 = t1  t2 = t2  t3 = t3  m1 = m1  m2 = m2  stats = stats  fs = fs
    NoWriter = NoWriter
    Threads <- MCThreads
    Media <- MCMedia
    Fields <- MCFields
    Task <- MCTask
    MaxRetries = 1
    MaxFaults = 3

SPECIFICATION CatSpec
INVARIANT CatTypeOK
INVARIANT NoLostUpdate
CHECK_DEADLOCK FALSE
