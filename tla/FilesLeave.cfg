SPECIFICATION FairSpec
CONSTANTS
    p = p
    q = q
    NumClients = 1
    Pusher = {p}
    Uploader <- TwoUploads
    Chunks = 1
    MaxPushes = 1
    MaxPings = 0
    MaxChats = 1
    Refusing = {}
    Unwritable = {}
    Free = Free
PROPERTIES
    DeadClientReleasesPush
    EverybodyLeaves
CHECK_DEADLOCK FALSE
