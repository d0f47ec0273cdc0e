SPECIFICATION Spec
CONSTANTS
    Keys = {57, 76, 224}
    ResetKeys = {76, 224}
    RingSize = 4
    MaxTick = 3
    MaxReports = 4
    ReportsPerPoll = 1
INVARIANTS
    SkippedOnlyWithinATick
    DeliveredOnceInOrder
    EveryCharacterHasOneKey
PROPERTIES
    EveryEventIsPassed
CHECK_DEADLOCK FALSE
