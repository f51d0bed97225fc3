SPECIFICATION FairSpec
CONSTANTS
    a1 = a1
    a2 = a2
    a3 = a3
    Alerts = {a1, a3}
    Workers = {w1, w2}
    NoAlert = NoAlert
    Immediate <- OneRoute
    Digested = {}
    Unreadable = {a3}
    Older <- FiredInOrder
    Withheld = {}
    Limit = 2
    MaxLapses = 1
    MaxCrashes = 0
PROPERTY EveryAlertSettles
