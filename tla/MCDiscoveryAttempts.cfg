\* Two workers, one company, one batch of Scout, the tightest limit, two faults.
SPECIFICATION Spec
CONSTANTS
    Workers = {w1, w2}
    NoWorker = NoWorker
    Companies = {c1}
    ScoutOps = {s1}
    MaxCohort = 1
    Limit = 4
    MaxFaults = 2
SYMMETRY Symmetric
INVARIANTS
    OneCallPerRow
    UsageCounted
    ValidEndsOp
    NeverInProgress
    InitialNeverRefused
PROPERTIES
    SettledOnce
    KeepsContract
\* The run ends and its workers are idle.
CHECK_DEADLOCK FALSE
