CONSTANTS
    u1 = u1  u2 = u2  z1 = z1  z2 = z2  j1 = j1  j2 = j2
    Null = Null
    Units = {u1, u2}
    Zones = {z1, z2}
    Jobs = {j1, j2}
    Publishers = {j1}
    MaxClock = 4
    Overlapping = FALSE
SPECIFICATION Spec
SYMMETRY Symmetric
INVARIANTS TypeOK CacheFresh PublishedFresh
PROPERTIES AnswersExact
