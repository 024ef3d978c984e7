SPECIFICATION ValuesSpec
CONSTANTS
    Ops <- MixedOps
    Kind <- MixedKinds
    From <- MixedFrom
    To <- MixedTo
    Sessions = {"s1", "s2"}
    Capacity = 2
    MaxMonths = 2
    Faults = {}
    e1 = e1
    e2 = e2
    e3 = e3
    Entries = {e1, e2, e3}
    BoardSessions = {s1, s2}
    Batches <- MCBatches
    MaxEntries = 3
    MaxRevision = 3
    VaultIds = {i1, i2}
    Phones = {p1, p2}
    Gateways = {g1}
    MaxLive = 1
    MaxRecords = 2
    MaxVaultRev = 4
    MaxFlight = 2
    IdsReturn = FALSE
    QueuedWrites = {w1, w2}
    MaxNonces = 2
    MaxCached = 1
    RefusalsLost = FALSE
    SendOps = {o1, o2}
    MaxSlotVersion = 8
    Targets = {s1}
    Friends = {f1, f2}
    MaxEdges = 2
    MaxGeneration = 2
    UnlinkCut = {1}
    Base = 3
    RankMax = 3
    MaxSiblings = 4
    Openers = {q1, q2, q3}
    MaxOpens = 1
    MaxLines = 2
    MaxTries = 3
    MaxStops = 2
    MaxFences = 2
    SignedAt = 2
    Blobs = {1, 2}
    Uploads = {1, 2, 3}
    Chunks = 2
    Quota = 3
    MaxRestarts = 2
SYMMETRY ValuesSymmetry
VIEW ValuesView
INVARIANTS
    TypeOK
    AnsweredBeforeDelivered
    BoardSound
    ReadersAgree
    WriteSettled
    SendSettles
    RevocationHolds
    RanksOrdered
    CacheSound
    OneWriter
    FireSettles
    LastSignedHolds
PROPERTIES
    EndedStays
    HoldersKept
    CancelFinal
CHECK_DEADLOCK FALSE
