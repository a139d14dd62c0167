SPECIFICATION Spec
CONSTANTS
    alice = alice
    bob = bob
    p1 = p1
    p2 = p2
    Clients <- MCClients
    Conns <- MCConns
    MaxSeq <- MCMaxSeq
    Legacy <- MCLegacy
INVARIANTS TypeOK AllOrNothing NewestValidKeySurvives
PROPERTY MigratesAtOnce
CHECK_DEADLOCK TRUE
