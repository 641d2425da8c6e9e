CONSTANTS
    a = a
    b = b
    none = none
    Points <- MCPoints
    NoPoint <- none
    GoalLists <- MCGoalLists
    AutoActive = TRUE
    Shutdown = "InactiveCoast"
    MaxInputs = 3
SPECIFICATION FairSpec
INVARIANTS
    HandedOver
    AnnouncedInOrder
PROPERTIES
    PlansForItsGoal
