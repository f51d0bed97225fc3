SPECIFICATION Spec
CONSTANTS
    Requests = {r1, r2}
    Supervisors = {s1}
    Plans = {p1}
    TooBig = {}
    NumUnits = 2
    Corrupt = {}
    Standalone = TRUE
    Registered = TRUE
    NoPlan = NoPlan
    NoOwner = NoOwner
    MaxEvidence = 2
    MaxVersion = 1
    MaxRuns = 2
    MaxEpoch = 2
    MaxFaults = 1
SYMMETRY Symmetric
INVARIANTS
    OneEvidence
    CompletedIsPublished
PROPERTIES
    KeepsContract
    SupersededWritesNothing
