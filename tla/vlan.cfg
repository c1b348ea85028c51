SPECIFICATION Spec
CONSTANTS
    v1 = v1
    v2 = v2
    v3 = v3
    o1 = o1
    o2 = o2
    o3 = o3
    p1 = p1
    p2 = p2
    b1 = b1
    b2 = b2
    b3 = b3
    m1 = m1
    m2 = m2
    m3 = m3
    m4 = m4
    tagged = tagged
    untagged = untagged
    a1 = a1
    c1 = c1
    Vid = {v1, v2, v3}
    Vlan = {o1, o2, o3}
    BootVid = v1
    BootVlan = o1
    Port = {p1, p2}
    Brport = {b1, b2, b3}
    Member = {m1, m2, m3, m4}
    Mode = {tagged, untagged}
    BootMode = untagged
    Null = Null
    Vlanner = {a1}
    Porter = {c1, c2}
    c2 = c2
    Managed = {v2}
    Defaultable = {v1, v3}
    BootBrport <- MCBootBrport
    Garbage = {}
    MayFail = {"create_vlan", "remove_vlan", "create_member", "set_member", "remove_member", "remove_brport"}
SYMMETRY Symmetry
INVARIANTS
    VlanTablesAgree
    MembersAgree
    AddedIsMember
