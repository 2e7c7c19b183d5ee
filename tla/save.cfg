CONSTANTS
    c1 = c1  c2 = c2  g1 = g1  g2 = g2  u1 = u1  u2 = u2  u3 = u3
    NoRow = NoRow  None = None
    Clients = {c1, c2}
    Geos = {g1, g2}
    Zones = {1}
    Puts = {u1, u2}
    MaxClock = 3
    Overlapping = FALSE
SPECIFICATION Spec
SYMMETRY Symmetric
INVARIANTS TypeOK DarkMeansSaved
PROPERTIES NoSilentOverwrite ReplacesAll
