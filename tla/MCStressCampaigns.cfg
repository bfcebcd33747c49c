SPECIFICATION Spec
CONSTANTS
    HasSetup = TRUE
    Calls = 28
    MaxTimers = 2
    MaxFaults = 2
    Commands = {"timeout", "correction", "retry", "replay", "trace_case", "trace",
                "regression_case", "regression"}
    Repetitions = 2
    Groups = 2
    MaxInvocations = 2
INVARIANTS
    ConnectionIsSound
    VerdictIsEarned
PROPERTIES
    NothingIsPostedInDoubt
    CampaignEnds
CHECK_DEADLOCK FALSE
