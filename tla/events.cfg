SPECIFICATION ESpec
CONSTANTS
    s1 = s1
    s2 = s2
    w1 = w1
    HwPort <- MCHwPort
    CpuPort <- MCCpuPort
    SaiPort = {s1, s2}
    CpuOid = CpuOid
    NullOid = NullOid
    NoPort = NoPort
    NoEvent = NoEvent
    Writer = {w1}
    Reader = {}
    MaxEvents = 2
    MayFail = {"boot", "remove_port", "create_brport", "remove_brport"}
INVARIANTS
    NoOrphanPort
    CallerViewAgrees
    ToldAgrees
PROPERTY
    EventuallyTold
