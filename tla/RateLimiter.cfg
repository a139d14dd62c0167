SPECIFICATION Spec
CONSTANTS
    Clients = {alice}
    Limits = {1, 2}
    Window = 3
    MaxSkew = 1
    MaxTime = 9
INVARIANTS TypeOK WindowBound
PROPERTIES RetryAfterKept ImplementsSlidingWindow
CHECK_DEADLOCK TRUE
