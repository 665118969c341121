SPECIFICATION Spec
CONSTANTS
    p1 = p1
    p2 = p2
    f1 = f1
    f2 = f2
    Conn <- TwoConns
    Fd <- TwoFds
    MaxClients = 1
    MaxId = 2
    Keepalive = TRUE
    CloseWakes = FALSE
    Packet = {"DISCONNECT", "MESSAGE"}
    None = None
SYMMETRY Symmetry
INVARIANTS
    TypeOK
    Capacity
    RegisteredWhileServed
    DescriptorsReachable
    SocketsOwnUntilKick
PROPERTIES
    DeparturesAnnounced
    ImplementsRegistry
CHECK_DEADLOCK FALSE
