\* Two workers, two companies, two faults: a crash and another fault in any order.
SPECIFICATION Spec
CONSTANTS
    Workers = {w1, w2}
    NoWorker = NoWorker
    Candidates = {c1, c2}
    MaxCohort = 2
    MaxFaults = 2
SYMMETRY Symmetric
INVARIANTS
    FencedHistory
    CheckpointHonest
    NoReplay
    CompletedIsComplete
    CancelWins
PROPERTIES
    CohortOnce
    ResultIsFinal
    KeepsContract
\* The run ends and its workers are idle.
CHECK_DEADLOCK FALSE
