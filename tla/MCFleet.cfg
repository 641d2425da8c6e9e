CONSTANTS
    v1 = v1
    v2 = v2
    v3 = v3
    op = op
    none = none
    Vehicles <- ThreeVehicles
    Operator <- op
    NoVehicle <- none
    FirstToiId = 9
    Missions <- TeamMissions
    Script <- Scripts
    Known <- Asked
    MaxInvestigations <- Bounds
SPECIFICATION FairSpec
CHECK_DEADLOCK FALSE
INVARIANTS
    OverwatchCovered
    StandByUntilDone
PROPERTIES
    StandByEnds
    EndsTogether
    FormationEnds
