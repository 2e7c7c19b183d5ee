SPECIFICATION Spec
CONSTANTS
    r1 = r1
    r2 = r2
    None = None
    Readers = {r1, r2}
    Lively = {r1}
    MaxSaves = 2
    MaxPolls = 1
    Overlapping = FALSE
INVARIANTS FreshIsCurrent
PROPERTIES RequestsProceed
CHECK_DEADLOCK FALSE
