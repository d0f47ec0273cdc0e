SPECIFICATION Spec
CONSTANTS
    HIDs = {keyboard}
    Dummy = Dummy
    Null = Null
    MaxRequests = 2
    Errors = {1}
    Patient = TRUE
INVARIANTS
    ReportIsInOnePlace
    GivenUpOnlyIfMissed
PROPERTIES
    DevicesKeepReporting
    HandlerReturns
    ImplementsRequests
