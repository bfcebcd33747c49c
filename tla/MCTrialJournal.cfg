CONSTANTS
    u1 = u1
    u2 = u2
    p1 = p1
    p2 = p2
    Unit = {u1, u2}
    Proc = {p1, p2}
    Terminal = {"completed", "quarantined"}
    MaxLines = 4
    NoProc = NoProc
    NoAnchor = NoAnchor
SPECIFICATION Spec
SYMMETRY Interchangeable
INVARIANTS StartsAtMostOnce AcknowledgedIsDurable UndisturbedReopens
PROPERTIES ResumeSettlesEveryDelivery ImplementsOutcomes
