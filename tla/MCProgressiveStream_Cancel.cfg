SPECIFICATION Spec
CONSTANTS
    NumChunks = 4
    Plans <- RacePlan
INVARIANTS
    BothCleanedUp
CHECK_DEADLOCK FALSE
