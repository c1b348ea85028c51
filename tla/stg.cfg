SPECIFICATION Spec
CONSTANTS
    g0 = g0
    g1 = g1
    p1 = p1
    p2 = p2
    b1 = b1
    b2 = b2
    b3 = b3
    s1 = s1
    s2 = s2
    s3 = s3
    s4 = s4
    a1 = a1
    a2 = a2
    c1 = c1
    c2 = c2
    Stg = {g0, g1}
    DefaultStg = g0
    Port = {p1, p2}
    Brport = {b1, b2}
    StpOid = {s1, s2, s3}
    Null = Null
    Setter = {a1}
    Porter = {c1, c2}
    BootBrport <- MCBootBrport
    BootRace = FALSE
    Garbage = {Null}
    MayFail = {"create_stp", "remove_stp", "set_brport", "remove_brport"}
SYMMETRY Symmetry
INVARIANTS
    RemovalNotRefused
    ListsExact
    InDefaultStg
