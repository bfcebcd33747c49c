SPECIFICATION ProbeSpec
CONSTANTS
    Shells = {s1, s2}
    Outputs = {o1}
    Trials = {t1, t2}
    MaxStarts = 3
    MaxKills = 1
INVARIANTS
    ProbesAreSafe
PROPERTIES
    NoCallInDoubt
    ProbesEnd
CHECK_DEADLOCK FALSE
