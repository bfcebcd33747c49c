SPECIFICATION FairSpec
CONSTANTS
    f1 = f1
    f2 = f2
    f3 = f3
    g = g
    Reviewer = {anna, ben}
    Finding = {f1, f2, f3}
    Group = {g}
    NoGroup = NoGroup
    NoOne = NoOne
    Status = {"confirmed"}
    MaxRecords = 4
    MaxCommands = 3
    Lines <- Evidence
    Classified <- Considered
INVARIANTS HistoryStaysValid RecordedReviewsSurvive
PROPERTIES ImplementsLog CommandsEnd
