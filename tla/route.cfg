SPECIFICATION Spec
CONSTANTS
    h1 = h1
    h2 = h2
    g1 = g1
    g2 = g2
    m1 = m1
    m2 = m2
    m3 = m3
    m4 = m4
    r1 = r1
    NextHop = {h1, h2}
    Group = {g1, g2}
    Member = {m1, m2, m3, m4}
    Route = {r1}
    None = None
    MaxNh = 2
    MaxCall = 2
    MaxList = 4
    MaxTorn = 1
SYMMETRY Symmetry
INVARIANTS
    ListIsExact
    WeightsAsAsked
