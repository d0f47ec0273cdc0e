SPECIFICATION Spec
CONSTANTS
    HIDs = {}
    Dummy = Dummy
    Null = Null
    MaxRequests = 3
    Errors = {1, 2, 3}
    Patient = TRUE
PROPERTIES
    KeepsToRequests
