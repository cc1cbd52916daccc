------------------------------- MODULE MCStore -------------------------------
EXTENDS Store, MCPhobos

CONSTANTS md1

\* a phobos_put of both puts and, at the same time, a phobos_get and a
\* phobos_getmd of p1's object
MCMdClients == {md1}
MCMdSource == (md1 :> p1)
MCMdBatches == {MCPutClients, MCGetClients, MCMdClients}
MCTwoMedia == {m1, m2}
=============================================================================
