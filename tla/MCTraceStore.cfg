SPECIFICATION TraceSpec
CONSTANTS
    Payloads <- Exports
    Requests <- Turns
    MaxSpans = 2
    MaxBufferBytes = 4
    MaxPerObservation = 2
    Budget = 3
    Settle = 1
    Timeout = 1
    Retention = 1
    MaxHandlers = 2
    MaxPosts = 3
    MaxTime = 3
INVARIANTS
    StoreIsExact
    CompleteIsWhole
CHECK_DEADLOCK FALSE
