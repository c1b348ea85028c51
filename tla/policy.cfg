SPECIFICATION Spec
CONSTANTS
    None = None
    p1 = p1
    s1 = s1
    s2 = s2
    l1 = l1
    t1 = t1
    e1 = e1
    c1 = c1
    q1 = q1
    q2 = q2
    q3 = q3
    g1 = g1
    g2 = g2
    good = good
    Good = good
    Bad = Bad
    Port = {p1}
    Session = {s1, s2}
    Direction = {"ingress"}
    Lag = {l1}
    Table = {t1}
    Entry = {e1}
    Counter = {c1}
    FilterLists <- MCFilterLists
    ActionLists <- MCActionLists
    EntryLists <- MCEntryLists
    MaxUdf = 2
    MaxSet = 1
    Nodes <- MCNodes
    KindOf <- MCKindOf
    LevelOf <- MCLevelOf
    Profile = {v1, v2}
    Polled = {"queue", "group", "pool"}
    MaxIds = 3
    MaxCount = 1
CONSTRAINT OneAtATime
INVARIANTS
    MirroredAsTold
    AttributesAsTold
    CountsKept
    QueueNumbersCounted
