SPECIFICATION ServingSpec
CONSTANTS
    p1 = p1
    server = server
    Conns = {p1, server}
    Procs = {p1}
    Server = server
    Clients = {alice, bob}
    Keys = {k1, k2}
    NoKey = NoKey
    BatchSizes = {2, 3}
    ActualsSizes = {2}
    BatchLimit = 2
    MaxRequests = 3
PROPERTY InactiveKeysRefused
SYMMETRY Symmetric
CHECK_DEADLOCK TRUE
