SPECIFICATION FairSpec
CONSTANTS
    Turns = {t1, t2}
    Clients = {c1}
    NoTurn = NoTurn
    MaxEvents = 2
    HighWater = 1
    MaxPending = 1
    MaxStarts = 2
    MaxRestarts = 0
    MaxExpired = 1
    MaxBeats = 0
    MaxFaults = 1
PROPERTIES KeepsContract QueueMoves
CHECK_DEADLOCK FALSE
