SPECIFICATION FairSpec
CONSTANTS
    w1 = w1
    w2 = w2
    w3 = w3
    r1 = r1
    r2 = r2
    N = 4
    XorByte <- MCXor
    Writers = {w1, w2, w3}
    Locked = {w1, w2}
    Readers = {r1}
    Payload <- MCPayload
    Keys <- MCKey
    Room = 2
    MaxPackets = 2
    None = None
INVARIANTS
    Intact
PROPERTIES
    ImplementsChannel
    Arrives
CHECK_DEADLOCK FALSE
