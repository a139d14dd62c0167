SPECIFICATION Spec
CONSTANTS
    Adapters = {"direct", "citibike"}
    Months = 3
    Parts = 2
INVARIANTS TypeOK FetchedFilesWhole SuccessLeavesNoTmp GridFromAllData
PROPERTY CompleteFilesStay
CHECK_DEADLOCK TRUE
