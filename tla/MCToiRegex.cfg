CONSTANTS
    a = a
    b = b
    x = x
    none = none
    Regexes <- MCRegexes
    Malformed <- MCMalformed
    Default <- a
    NoRegex <- none
    MaxTasks = 4
SPECIFICATION ToiSpec
INVARIANTS
    BeliefCurrent
    RegexUnlessSkipped
CHECK_DEADLOCK FALSE
