SPECIFICATION Spec
CONSTANTS
    Inputs <- Asks
    Plans <- Considered
    Texts <- Rendering
    TextKey <- Folded
    Misfits <- Faint
    Signature <- OneModelButTheJudge
    Size <- Sizes
    MaxEntries = 3
    MaxBytes = 5
    TrialSets <- Trialled
INVARIANTS
    CallsStayInPlan
    CacheIsSound
    ResultsAreEarned
CHECK_DEADLOCK FALSE
