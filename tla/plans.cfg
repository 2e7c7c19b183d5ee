SPECIFICATION Spec
CONSTANTS
    p = p
    q = q
    r = r
    p1 = p1
    p2 = p2
    q1 = q1
    q2 = q2
    r1 = r1
    One = One
    OneDot = OneDot
    Eleven = Eleven
    Twelve = Twelve
    Name = Name
    Parents = {p, q, r}
    Blocks = {p1, p2, q1, q2, r1}
    ParentOf <- MCParentOf
    Labels = {One, OneDot, Eleven, Twelve, Name}
    NumberOf <- MCNumberOf
    MaxDistricts = 12
    Default = 2
    MaxRecords = 3
    Adjacencies <- MCAdjacencies
    Zones = {1, 2}
INVARIANTS ImportExact CountsExact ContiguityExact
CHECK_DEADLOCK FALSE
