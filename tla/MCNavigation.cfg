CONSTANTS
    a = a
    b = b
    Goals <- MCGoals
    Nowhere = nowhere
    None = none
    Setups <- MCSetups
    Shutdown = "InactiveGradualStop"
    Brakes = 2
    OdomTimeout = 1
    ControlTimeout = 1
    Mortal <- MCMortal
    MaxEvents = 2
SPECIFICATION Spec
INVARIANTS
    ResetStops
PROPERTIES
    TaskEnds
    StopsForGood
    SilenceStops
