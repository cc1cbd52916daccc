CONSTANTS
    d1 = d1  d2 = d2  m1 = m1  m2 = m2  m3 = m3  p1 = p1  p2 = p2  f1 = f1  g1 = g1
    NoOwner = NoOwner
    NoMedium = NoMedium
    Devices <- MCDevices
    Media <- MCMedia
    Clients <- MCPutGetClients
    PutClients <- MCPutClients
    FormatClients <- MCNoFormatClients
    FormatTarget <- MCNoFormatTarget
    GetClients <- MCGetClients
    GetSource <- MCGetSource
    Capacity = 2
    ObjSize = 3
    MaxLoadRetries = 1
    MaxLoadFaults = 0

SPECIFICATION Spec
CHECK_DEADLOCK FALSE
INVARIANT ExclusiveAccess
INVARIANT RoundTrip
PROPERTY AllTransfersEnd
