CONSTANTS
    p1 = p1  p2 = p2  b1 = b1  b2 = b2
    Null = Null  Absent = Absent  NoParent = NoParent  None = None
    Parents = {p1}
    Blocks = {b1, b2}
    ParentOf <- MCParentOf
    MinDistricts = 1
    MaxDistricts = 2
    HistoryLimit = 2
    MaxClock = 5
    Allowed = {}
SPECIFICATION Spec
SYMMETRY Symmetric
INVARIANTS TypeOK ShatterMapsAgree NoDoubleCoverage BlocksFullyListed CleanMeansSaved
PROPERTIES ReloadKeepsPlan BreakKeepsZones PaintExact ImplementsPlanHistory
