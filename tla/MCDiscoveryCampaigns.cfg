SPECIFICATION Spec
CONSTANTS
    Campaigns = {c1, c2}
    Keys = {k1}
    Drafts = {d1, d2}
    None = None
    MaxVersion = 2
SYMMETRY Symmetric
PROPERTIES StartsCurrent DeleteRespectsLease DraftsApart
CHECK_DEADLOCK FALSE
