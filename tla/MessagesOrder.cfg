SPECIFICATION Spec
CONSTANTS
    NumClients = 2
    MaxPackets = 1
    Kind = {"PRIVATE", "NICK_SET"}
    MaxOperator = 1
    RequireKey = FALSE
    Free = Free
INVARIANTS
    TypeOK
    SameOrder
    NoUnknownPeer
CHECK_DEADLOCK FALSE
