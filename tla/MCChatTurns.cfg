SPECIFICATION Spec
CONSTANTS
    Turns = {t1, t2}
    Clients = {c1}
    NoTurn = NoTurn
    MaxEvents = 3
    HighWater = 1
    MaxPending = 1
    MaxStarts = 2
    MaxRestarts = 1
    MaxExpired = 1
    MaxBeats = 1
    MaxFaults = 0
SYMMETRY Symmetric
INVARIANTS OneAtATime RunOnce AnswerOnce
PROPERTIES StreamInOrder ReadFindsAnswer
CHECK_DEADLOCK FALSE
