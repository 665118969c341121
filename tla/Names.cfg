SPECIFICATION Spec
CONSTANTS
    c1 = c1
    c2 = c2
    f1 = f1
    f2 = f2
    a = a
    b = b
    Client = {c1, c2}
    Nick = {a, b}
    Configured <- OwnNames
    Default = Default
    MaxCommands = 2
    Fd = {f1, f2}
    Operator = Operator
    Free = Free
SYMMETRY Symmetry
INVARIANTS
    PeersKnowRename
    ReachesBearer
CHECK_DEADLOCK FALSE
