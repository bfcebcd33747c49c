SPECIFICATION FairSpec
CONSTANTS
    Cases = {c1, c2}
    Compositions <- Considered
    CancelLimit = 2
    Before = before
INVARIANTS CasesAreIsolated
PROPERTIES HooksAreHonoured EveryCaseEnds
