SPECIFICATION RunSpec
CONSTANTS
    Families <- AllFamilies
    LineOf <- Judged
    CannotBeJudged <- JudgingFails
    LinesOf <- LinesOfPackages
    IsAccepted <- Buildable
    ExitOfRun <- CampaignExit
    ExitOfResume <- CompletedResumeExit
    MayBeReviewed <- Reviewable
    Mentioned <- MentionedValues
    NumberOf <- Numbers
    IdentifierFields = {}
    MaximumArrayItems = 3
    MaximumSize = 2
    MaximumWork = 16
    DecimalIndex <- Indexes
    TokenLength <- Lengths
    MaximumDeltaPointers = 4
    MaximumPatternEffects = 1
INVARIANTS
    EvaluationsAreSound
    VerdictsAreStable
    FindingsFileIsSound
    ExitCodesAgree
PROPERTIES SnapshotIsFinal
