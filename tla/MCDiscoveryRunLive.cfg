\* Liveness: two workers, one company, two faults; no symmetry.
SPECIFICATION FairSpec
CONSTANTS
    Workers = {w1, w2}
    NoWorker = NoWorker
    Candidates = {c1}
    MaxCohort = 1
    MaxFaults = 2
PROPERTIES
    RunEnds
\* The run ends and its workers are idle.
CHECK_DEADLOCK FALSE
