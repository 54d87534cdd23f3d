SPECIFICATION Spec
CONSTANTS
    NumChunks = 5
    Plans <- MCPlans
INVARIANTS
    TypeOK
    BufferAccounting
    NoLostWakeup
    PrefetchWindow
    FailsAtFirstBadChunk
    OrphanOnlyOnAbort
PROPERTIES
    DeliversInOrder
    StreamEnds
\* Plans that are not Sufficient really stop.
CHECK_DEADLOCK FALSE
