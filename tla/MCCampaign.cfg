CONSTANTS
    Plans <- SmallPlans
    Operators = 1
    MaxInvocations = 3
    NoDraw = NoDraw
SPECIFICATION FairSpec
CHECK_DEADLOCK FALSE
INVARIANTS
    CallsAreJustified
    StopIsHonoured
    RecordsAgree
    EvidenceIsFinal
PROPERTIES KeepsOutcomes InvocationsEnd
