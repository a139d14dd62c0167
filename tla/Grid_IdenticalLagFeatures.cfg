SPECIFICATION Spec
CONSTANTS
    Adapters = {"taxi", "station"}
    Zones = {z1, z2}
    Names = {dock, pier}
    LastHour = 5
    Lags = {1, 3}
    RollWindow = 2
    TrainStart = 3
    TrainEnd = 4
    ValEnd = 5
    TestEnd = 6
    MaxTrips = 3
INVARIANTS IdenticalLagFeatures
CHECK_DEADLOCK FALSE
