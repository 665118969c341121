SPECIFICATION Spec
CONSTANTS
    p = p
    q = q
    NumClients = 2
    Pusher = {p, q}
    Uploader <- NoUpload
    Chunks = 2
    MaxPushes = 1
    MaxPings = 2
    MaxChats = 0
    Refusing = {}
    Unwritable = {}
    Free = Free
INVARIANTS
    TypeOK
    SavedIntact
    ReportedIsSaved
SYMMETRY Symmetry
CHECK_DEADLOCK FALSE
