------------------------------ MODULE MCPhobos ------------------------------
EXTENDS Phobos, TLC

CONSTANTS d1, d2, m1, m2, m3, p1, p2, f1, g1

MCDevices == {d1, d2}
MCMedia == {m1, m2, m3}
MCPutClients == {p1, p2}
MCFormatClients == {f1}
MCClients == MCPutClients \cup MCFormatClients
MCFormatTarget == (f1 :> m3)
\* The administrator formats a new medium: the format target is blank at
\* start, as a tape is when it enters the library.
MCAdminInit == Init /\ \A f \in MCFormatClients : medFs[MCFormatTarget[f]] = "blank"
MCAdminSpec == MCAdminInit /\ [][Next]_vars /\ Fairness
MCNoGetClients == {}
MCNoGetSource == [g \in {} |-> p1]
\* one get retrieving the object of p1
MCGetClients == {g1}
MCGetSource == (g1 :> p1)
MCReadClients == MCPutClients \cup MCFormatClients \cup MCGetClients
\* puts and the get without a format caller
MCNoFormatClients == {}
MCNoFormatTarget == [f \in {} |-> m1]
MCPutGetClients == MCPutClients \cup MCGetClients

\* Drives are interchangeable; put encoders are interchangeable.
Symmetry == Permutations(MCDevices) \cup Permutations(MCPutClients)
\* with a get naming p1 only the drives stay interchangeable
SymmetryDevices == Permutations(MCDevices)
=============================================================================
