CONSTANTS
    v1 = v1
    v2 = v2
    v3 = v3
    op = op
    none = none
    Vehicles <- ThreeVehicles
    Operator <- op
    NoVehicle <- none
    FirstToiId = 9
    Missions <- ReuseMissions
    Script <- Scripts
    Known <- Asked
    MaxInvestigations <- Bounds
SPECIFICATION Spec
CHECK_DEADLOCK FALSE
INVARIANTS
    ReleasedByItsTask
