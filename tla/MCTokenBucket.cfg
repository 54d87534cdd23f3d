SPECIFICATION Spec
CONSTANTS
    t1 = t1
    t2 = t2
    t3 = t3
    Nobody = Nobody
    Tasks <- MCTasks
    Intervals <- MCIntervals
    Second = 4
    MaxTime = 8
INVARIANTS
    GrantsBounded
CHECK_DEADLOCK FALSE
