SPECIFICATION Spec
CONSTANTS
    Keys = {57, 76, 224}
    ResetKeys = {76, 224}
    RingSize = 4
    MaxTick = 3
    MaxReports = 2
    ReportsPerPoll = 1
INVARIANTS
    FailedPollMissesNothing
CHECK_DEADLOCK FALSE
