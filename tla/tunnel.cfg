SPECIFICATION TunnelSpec
CONSTANTS
    e1 = e1
    e2 = e2
    b1 = b1
    b2 = b2
    v1 = v1
    v2 = v2
    None = None
    Endpoint = {e1, e2}
    Bridge = {b1, b2}
    Vni = {v1, v2}
    MaxOid = 2
    CreateFails = {"decap_map", "tunnel", "term", "encap_entry", "port"}
    RemoveFails = {"tunnel", "decap_map", "encap_entry", "decap_entry", "port"}
    Garbage <- AnyPort
SYMMETRY Symmetry
INVARIANTS
    PortsCarryTraffic
    NothingStray
