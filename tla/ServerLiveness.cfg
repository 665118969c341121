SPECIFICATION FairSpec
CONSTANTS
    p1 = p1
    p2 = p2
    f1 = f1
    f2 = f2
    Conn <- TwoConns
    Fd <- OneFd
    MaxClients = 1
    MaxId = 2
    Keepalive = TRUE
    CloseWakes = TRUE
    Packet = {}
    None = None
PROPERTIES
    ClosedPeerRemoved
    VanishedPeerRemoved
    StopTerminates
    HandlersEndAfterStop
CHECK_DEADLOCK FALSE
