SPECIFICATION Spec
CONSTANTS
    g1 = g1
    g2 = g2
    i1 = i1
    i2 = i2
    o1 = o1
    e1 = e1
    e2 = e2
    p1 = p1
    p2 = p2
    None = None
    Group = {g1, g2}
    Entry = {e1, e2}
    Iif = {i1, i2}
    Oif = {o1}
    PortList <- Lists
    Bridged = {p1}
SYMMETRY Symmetry
INVARIANTS
    TypeOK
    RouteTablesAgree
    RouteFollowsGroup
    GroupAsRecorded
PROPERTY RoutesKeepMembers
CHECK_DEADLOCK FALSE
