CONSTANTS
    Hours = {h1}
    Errors = {0, 3}
    Windows = {1}
    Required = 2
    MaeLimit = 1
    BufMax = 2
    MinSamples = 2
    BatchSizes = {3}
    MaxItems = 1
    MaxRecords = 3
    MaxFailures = 1
    MaxDay = 2
SPECIFICATION Spec
INVARIANT HourActualsMatch
