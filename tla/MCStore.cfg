CONSTANTS
    d1 = d1  d2 = d2  m1 = m1  m2 = m2  m3 = m3  p1 = p1  p2 = p2  f1 = f1  g1 = g1  md1 = md1
    NoOwner = NoOwner
    NoMedium = NoMedium
    Devices <- MCDevices
    Media <- MCTwoMedia
    Clients <- MCPutGetClients
    PutClients <- MCPutClients
    FormatClients <- MCNoFormatClients
    FormatTarget <- MCNoFormatTarget
    GetClients <- MCGetClients
    GetSource <- MCGetSource
    Batches <- MCMdBatches
    MdClients <- MCMdClients
    MdSource <- MCMdSource
    Capacity = 3
    ObjSize = 2
    MaxLoadRetries = 1
    MaxLoadFaults = 0

INIT StoreInit
NEXT StoreNext
SYMMETRY SymmetryDevices
INVARIANT StoreTypeOK
INVARIANT CallbackTruthful
CHECK_DEADLOCK FALSE
