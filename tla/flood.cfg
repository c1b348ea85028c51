SPECIFICATION Spec
CONSTANTS
    s1 = s1
    s2 = s2
    b1 = b1
    g1 = g1
    g2 = g2
    SubPort = {s1, s2}
    Bridge = {b1}
    Group = {g1, g2}
    Packet = {"unicast", "broadcast"}
    None = None
    MaxCopies = 2
SYMMETRY Symmetry
INVARIANTS
    BroadcastsAsAsked
    RecordedMemberFound
    MembersAsRecorded
