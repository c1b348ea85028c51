SPECIFICATION Spec
CONSTANTS
    s1 = s1
    s2 = s2
    s3 = s3
    w1 = w1
    w2 = w2
    r1 = r1
    HwPort <- MCHwPort
    CpuPort <- MCCpuPort
    SaiPort = {s1, s2}
    CpuOid = CpuOid
    NullOid = NullOid
    NoPort = NoPort
    Writer = {w1, w2}
    Reader = {r1}
    MayFail = {"boot", "remove_port", "create_brport", "remove_brport"}
INVARIANTS
    TablesAgree
    MappedPortsExist
    MapDeleteFindsEntry
    LookupLinearizable
    CpuPortStays
    WalkInBounds
PROPERTY
    ImplementsRegistry
