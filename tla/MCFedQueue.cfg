CONSTANTS
    c1 = c1
    s1 = s1
    n1 = n1
    n2 = n2
    None = None
    Coder = {c1}
    Single = {}
    Node = {n1, n2}
    Subject <- OwnSubject
    MaxCommit = 1
    MaxDeliver = 2
SPECIFICATION FairSpec
INVARIANTS
    QueueTypeOK
    AckedWasAnswered
PROPERTIES
    FleetSpec
    DispatchEnds
    ItemsSettle
CHECK_DEADLOCK FALSE
