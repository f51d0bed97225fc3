SPECIFICATION FairSpec
CONSTANTS
    Requests = {r1}
    Supervisors = {s1}
    Plans = {p1, p2}
    TooBig = {p2}
    NumUnits = 2
    Corrupt = {2}
    Standalone = TRUE
    Registered = TRUE
    NoPlan = NoPlan
    NoOwner = NoOwner
    MaxEvidence = 2
    MaxVersion = 2
    MaxRuns = 1
    MaxEpoch = 3
    MaxFaults = 1
PROPERTIES
    RunEnds
    CancelEnds
CHECK_DEADLOCK FALSE
