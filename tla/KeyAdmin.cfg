SPECIFICATION FairSpec
CONSTANTS
    p1 = p1
    p2 = p2
    Conns = {p1, p2}
    Procs = {p1, p2}
    Clients = {alice, bob}
    Keys = {k1, k2, k3}
    NoKey = NoKey
INVARIANT TypeOK
PROPERTIES ClientKeepsRow DeadKeysStayDead CommandsEnd ImplementsRegistry
CHECK_DEADLOCK TRUE
