CONSTANTS
    d1 = d1  d2 = d2  m1 = m1  m2 = m2  m3 = m3  p1 = p1  p2 = p2  f1 = f1  g1 = g1
    NoOwner = NoOwner
    NoMedium = NoMedium
    Devices <- MCDevices
    Media <- MCMedia
    Clients <- MCClients
    PutClients <- MCPutClients
    FormatClients <- MCFormatClients
    FormatTarget <- MCFormatTarget
    GetClients <- MCNoGetClients
    GetSource <- MCNoGetSource
    Capacity = 2
    ObjSize = 3
    MaxLoadRetries = 1
    MaxLoadFaults = 1

SPECIFICATION MCAdminSpec
CHECK_DEADLOCK FALSE
PROPERTY AllTransfersEnd
