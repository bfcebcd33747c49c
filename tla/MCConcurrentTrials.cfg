SPECIFICATION FairSpec
CONSTANTS
    Repetitions = 2
    Operators = 2
    MaxRequests = 2
    MaxInterrupts = 1
INVARIANTS NothingIsLeaked
PROPERTIES NothingIsSentInDoubt TheRunEnds
