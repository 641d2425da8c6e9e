SPECIFICATION FairSpec
CONSTANTS
    v1 = v1
    v2 = v2
    v3 = v3
    Delimiter = Delimiter
    Vehicles <- MCVehicles
    Says <- MCSays
PROPERTIES
    ImplementsLossyFifo
    Delivered
CHECK_DEADLOCK FALSE
