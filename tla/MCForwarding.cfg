CONSTANTS
    a = a
    b = b
    nw = nw
    all = all
    m1 = m1
    m2 = m2
    Device = {a, b}
    Network = {nw}
    Authority = all
    Rate <- MCRate
    Burst = 2
    Expire = 3
    PruneEvery = 2
    MaxEntries = 1
    MaxRecipients = 2
    MaxBytes = 4
    Skew = 1
    Sizes = {2, 3}
    MaxClock = 4
    Members = {m1, m2}
    Policies <- MCPolicies
    ReplayWindow = 2
    SenderCapacity = 3
    SenderRate = 1
    NetworkCapacity = 4
    NetworkRate = 1
    MaxNumber = 3
    MaxTime = 2
    MaxSession = 3
    MaxKeyEpoch = 2
    NoncePrefixes = {1, 2}
    Types = {1, 2}
    MaxPayload = 3
    Sendings <- MCSendings
    Base = 32
    MaxList = 2
    MaxText = 3
    Damages = {0, 3}
    MaxDamage = 2
    Messages <- MCMessages
SYMMETRY Symmetry
SPECIFICATION MCSpec
INVARIANTS SustainedRate FannedOutOnce FanoutRate OneEncoding
PROPERTIES RefusalIsFree DeliversFrames
CHECK_DEADLOCK FALSE
