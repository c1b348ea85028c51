SPECIFICATION Spec
CONSTANTS
    p1 = p1
    l1 = l1
    v1 = v1
    m1 = m1
    m2 = m2
    Port = {p1}
    Lag = {l1}
    Vlan = {v1}
    Mac = {m1, m2}
    None = None
    MaxEvents = 2
    MaxHurt = 1
SYMMETRY Symmetry
INVARIANTS
    OneForwarder
    Served
    NasAgrees
