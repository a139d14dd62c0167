SPECIFICATION Spec
CONSTANTS
    Datasets = {{z1}, {z1, z2}}
    MaxVersion = 2
    Baselines = 1
    ModelNames = {"lightgbm", "baseline"}
    RefsPaths = {"own", "default"}
INVARIANTS TypeOK ServedZonesHaveHistory ModelMatchesColumns 
CHECK_DEADLOCK TRUE
