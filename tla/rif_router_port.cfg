SPECIFICATION RifSpec
CONSTANTS
    port1 = port1
    bridge1 = bridge1
    virtual1 = virtual1
    r1 = r1
    r2 = r2
    r3 = r3
    b1 = b1
    b2 = b2
    Key = {port1, bridge1, virtual1}
    BridgeKey = {bridge1}
    VirtualKey = {virtual1}
    RifOid = {r1, r2, r3}
    BrpOid = {b1, b2}
    None = None
    MaxRef = 3
    MayFail = {}
INVARIANT
    RouterPortsUnmapped
CHECK_DEADLOCK FALSE
