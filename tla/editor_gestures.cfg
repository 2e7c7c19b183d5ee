CONSTANTS
    p1 = p1  p2 = p2  b1 = b1  b2 = b2
    Null = Null  Absent = Absent  NoParent = NoParent  None = None
    Parents = {p1, p2}
    Blocks = {b1, b2}
    ParentOf <- MCParentOf
    MinDistricts = 1
    MaxDistricts = 2
    HistoryLimit = 2
    MaxClock = 4
    Allowed = {"mid_request", "rebreak", "decrease", "reset", "autosave"}
SPECIFICATION Spec
SYMMETRY Symmetric
INVARIANTS NoDoubleCoverage
