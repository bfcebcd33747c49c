SPECIFICATION Spec
CONSTANTS
    Requests = 3
    SessionOf <- MCSessionOf
    MaxExecutions = 2
    TotalTime = 1
    MaxCancels = 1
    MaxFaults = 1
INVARIANTS
    InvocationsAreSound
PROPERTIES
    InvocationsEnd
CHECK_DEADLOCK FALSE
