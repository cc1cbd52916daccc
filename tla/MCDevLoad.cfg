CONSTANTS
    d1 = d1
    d2 = d2
    m1 = m1
    m2 = m2
    NoMedium = NoMedium
    Devices <- MCDevices
    Media <- MCMedia
    MaxLogs = 3

SPECIFICATION Spec
SYMMETRY Symmetry
INVARIANT TypeOK
