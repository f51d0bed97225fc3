SPECIFICATION FairSpec
CONSTANTS
    Handlers = {h1, h2}
    Runs = {r1, r2}
    Clusters = {{d1}, {d2}}
    NoRun = NoRun
    MaxCrashes = 1
    MaxFaults = 1
INVARIANT ExactlyOnce
PROPERTIES NoLostUpdate RowsFinal KeepsContract NotStuck
CHECK_DEADLOCK FALSE
