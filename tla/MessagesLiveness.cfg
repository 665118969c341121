SPECIFICATION FairSpec
CONSTANTS
    NumClients = 2
    MaxPackets = 1
    Kind = {"TEXT", "PRIVATE", "CLIENT_LIST", "NICK_SET", "PING"}
    MaxOperator = 0
    RequireKey = TRUE
    Free = Free
PROPERTY EveryPacketHandled
CHECK_DEADLOCK FALSE
