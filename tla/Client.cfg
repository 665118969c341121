SPECIFICATION FairSpec
CONSTANTS
    CloseWakes = FALSE
    ServerMay = {"PING", "KICK", "TEXT", "close", "vanish", "hang"}
    MaxPackets = 3
    MaxLines = 2
INVARIANTS
    EndsClean
PROPERTIES
    CloseNoticed
    QuitReturns
CHECK_DEADLOCK FALSE
