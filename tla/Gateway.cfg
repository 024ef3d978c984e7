SPECIFICATION GatewaySpec
CONSTANTS
    MaxSends = 2
    MaxReplies = 1
    MaxAttempts = 2
    Epochs = {1, 2}
    OpEpochs = {2}
    MaxGrants = 1
    MaxStops = 1
    Names = {a, b, c}
    ClashNames = {c}
    HostNames = {b}
    Sockets = {s1, s2}
    SubIds = {1, 2}
    Conversations = {1}
    Transcripts = {1}
    MaxTokens = 1
    Teams = {t1, t2}
    RowValues = {1}
    SpawnValues = {1, 2}
    MaxIncarnation = 2
    MaxChanges = 2
    SessionIds = {i1, i2}
    MaxMade = 3
    MaxLine = 2
    MaxRegistrations = 2
    MaxStrays = 1
    MaxTurns = 2
    MaxAgentOps = 2
    MaxChildren = 2
    MaxEventId = 2
    MaxBroken = 1
    AgentFaults = {"socket", "gateway", "daemon", "lapse", "commit", "read", "refused", "early"}
    ThreadTurns = 2
    ParkAttempts = 2
    MaxThreadOps = 3
    MaxServerFaults = 2
CONSTRAINT Worthwhile
INVARIANTS
    RepliesKept
    KeysLandRows
    SessionsBound
    RouterKeepsUp
    RegistryFollows
    AgentSettles
    TurnsReported
CHECK_DEADLOCK FALSE
