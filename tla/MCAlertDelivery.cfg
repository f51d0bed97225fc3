SPECIFICATION FairSpec
CONSTANTS
    a1 = a1
    a2 = a2
    a3 = a3
    Alerts = {a1, a2, a3}
    Workers = {w1, w2}
    NoAlert = NoAlert
    Immediate <- AlertRoutes
    Digested = {a1, a2}
    Unreadable = {a3}
    Older <- FiredInOrder
    Withheld <- WithheldEgress
    Limit = 2
    MaxLapses = 1
    MaxCrashes = 1
INVARIANT SentPerClaim
PROPERTIES SettledOnce SettledWhileReadable
\* When every alert has ended there is nothing left to do.
CHECK_DEADLOCK FALSE
