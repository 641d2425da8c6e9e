CONSTANTS
    v1 = v1
    op = op
    none = none
    north = north
    south = south
    Vehicles <- MCVehicles
    Operator = op
    NoVehicle = none
    Zones <- MCZones
    Labels <- MCLabels
    Label <- MCLabel
    FileSpeed <- MCFileSpeed
    MaxSpeed = 4
    Speeds = {1}
    TaskTypes <- MCTaskTypes
    Requests <- MCRequests
    MaxInputs = 4
SPECIFICATION SetpointsSpec
INVARIANTS
    SettingsCurrent
    ZoneCommandCurrent
