SPECIFICATION Spec
CONSTANTS
    Adapters = {"direct", "citibike"}
    Months = 3
    Parts = 2
INVARIANT GridNeverPartial
CHECK_DEADLOCK TRUE
