------------------------------ MODULE MCCatalog ------------------------------
EXTENDS Catalog, TLC

CONSTANTS t1, t2, t3, m1, m2, stats, fs

MCThreads == {t1, t2, t3}
MCMedia == {m1, m2}
MCFields == {stats, fs}
\* t1 updates the stats of m1 then m2 in one request; t2 races with it on
\* the fs status of m1, t3 on the stats of m2.
MCTask == (t1 :> [media |-> <<m1, m2>>, field |-> stats])
          @@ (t2 :> [media |-> <<m1>>, field |-> fs])
          @@ (t3 :> [media |-> <<m2>>, field |-> stats])
=============================================================================
