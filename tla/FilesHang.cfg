SPECIFICATION FairSpec
CONSTANTS
    p = p
    q = q
    NumClients = 1
    Pusher = {p}
    Uploader <- NoUpload
    Chunks = 1
    MaxPushes = 1
    MaxPings = 0
    MaxChats = 0
    Refusing = {}
    Unwritable = {}
    Free = Free
PROPERTY PushReturns
CHECK_DEADLOCK FALSE
