CONSTANTS
    c1 = c1
    s1 = s1
    n1 = n1
    n2 = n2
    None = None
    Coder = {c1}
    Single = {s1}
    Node = {n1}
    Subject <- OwnSubject
    MaxCommit = 1
    MaxDeliver = 1
SPECIFICATION Spec
PROPERTY FetchedIsApplied
CHECK_DEADLOCK FALSE
