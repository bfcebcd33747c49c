CONSTANTS
    Plans <- RepeatedPlan
    Operators = 1
    MaxInvocations = 2
    NoDraw = NoDraw
SPECIFICATION Spec
CHECK_DEADLOCK FALSE
INVARIANTS TimedOutTargetIsLeftAlone
