SPECIFICATION Spec
CONSTANTS
    Turns = {t1, t2}
    Clients = {c1}
    NoTurn = NoTurn
    MaxEvents = 2
    HighWater = 2
    MaxPending = 1
    MaxStarts = 1
    MaxRestarts = 0
    MaxExpired = 0
    MaxBeats = 0
    MaxFaults = 1
PROPERTIES AnsweredNotReported
CHECK_DEADLOCK FALSE
