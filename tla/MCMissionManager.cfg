CONSTANTS
    v1 = v1
    v2 = v2
    op = op
    none = none
    Vehicles <- MCVehicles
    Operator <- op
    NoVehicle <- none
    Me <- v1
    Commands <- AllCommands
    FirstToiId = 9
    CheckGoalArrival = TRUE
    ConfirmDelay = TRUE
    FormationDelay = TRUE
    HasOverwatchPoint = TRUE
    MaxContacts = 2
    MaxInputs = 3
SPECIFICATION MCSpec
INVARIANTS
    OnlyActiveStarted
    NonPreemptableFirst
    InvestigationHasItsTask
    ApproachThenEncircle
    LatchedSamplesCurrent
PROPERTIES
    LeavingIsAnnounced
    DelayKeepsItsFormation
    PendingConfirmed
    ListWorkedOff
    ImplementsTwoBands
